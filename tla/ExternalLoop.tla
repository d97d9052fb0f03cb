---------------------------- MODULE ExternalLoop ----------------------------
(***************************************************************************)
(* The ChestTracker poller: one ExternalLoop per clan and their manager    *)
(* (scheduler/external-loop.ts), the ingest of one snapshot                *)
(* (external/ingest.ts) and the routes that drive them.                    *)
(*                                                                         *)
(* A loop polls the tracker that its clan's share code names, sending as   *)
(* If-None-Match the etag of the newest snapshot it has stored.  A loop    *)
(* that is started on a code without the "done" marker first backfills     *)
(* past weeks; an admin may backfill again, fetch by hand, or change the   *)
(* settings, upon which the clan's loop is stopped, discarded and replaced *)
(* while its requests are still in flight.                                 *)
(*                                                                         *)
(* A call is one coroutine suspended inside ingestSnapshot; what stands    *)
(* between two of its awaits is one step.  Week 0 is the current game      *)
(* week, week n the n-th before it; the weekly rollover is left out, and   *)
(* so are is_active (read at boot only), poll intervals and the poll log.  *)
(***************************************************************************)
EXTENDS Integers

CONSTANTS
  NClans,     \* clan ids are 1..NClans
  Codes,      \* share codes
  Instances,  \* names for the ExternalLoops of a clan, old and new
  Slots,      \* names for the ingests of a clan in flight
  None,       \* no instance; no share code
  Weeks,      \* weeks of a backfill
  MaxVersion, \* bound: contents a tracker shows for the current week
  MaxEvents   \* bound: requests of admins, restarts, new contents, failures

Clans == 1..NClans

ASSUME ExternalAssumption ==
  /\ NClans \in Nat \ {0} /\ Weeks \in Nat \ {0}
  /\ MaxVersion \in Nat \ {0} /\ MaxEvents \in Nat
  /\ Instances # {} /\ None \notin Instances
  /\ Slots # {} /\ None \notin Codes

VARIABLES
  code,      \* disk: [Clans -> share code or None]
  deleted,   \* disk: clans that are soft-deleted
  done,      \* disk: codes whose initial backfill is marked done
  snapshot,  \* disk: content of the newest snapshot of a clan, code and week,
             \*   0 when there is none; its etag stands for the content
  upstream,  \* [Codes -> content the tracker shows for the current week]
  manager,   \* [Clans -> the instance in the manager's map]
  loop,      \* [Clans -> [Instances -> its fields]]
  call,      \* [Clans -> [Slots -> an ingest in flight]]
  events     \* bounded events left

vars == <<code, deleted, done, snapshot, upstream, manager, loop, call, events>>

NoLoop == [running |-> FALSE, timer |-> FALSE, inFlight |-> FALSE,
           backfilling |-> FALSE]

NoCall == [pc |-> "idle", kind |-> "manual", loop |-> None, code |-> None,
           week |-> 0, etag |-> 0, body |-> 0]

\* What a tracker shows: past weeks are settled.
Shown(k, w) == IF w = 0 THEN upstream[k] ELSE 1

\* Bound: one of the events that may not go on for ever.
Event == events > 0 /\ events' = events - 1

-----------------------------------------------------------------------------
(* Settings, instances, requests.                                          *)

\* getClanById: a deleted clan is invisible.
ClanCode(c) == IF c \in deleted THEN None ELSE code[c]

\* currentSettings: an invisible clan falls back to the settings of clan 1.
LoopCode(c) == IF c \in deleted THEN ClanCode(1) ELSE code[c]

\* Fault: the validator to send is keyed by the code only.
EtagOfCode(c, k, w) ==
  IF \E d \in Clans : snapshot[d][k][w] # 0
    THEN snapshot[CHOOSE d \in Clans : snapshot[d][k][w] # 0][k][w]
    ELSE 0

\* The validator to send: keyed by clan as well as by code; none for a week
\* that has no snapshot.
EtagFor(c, k, w) == IF w \in 0..Weeks THEN snapshot[c][k][w] ELSE 0

\* ingestSnapshot as far as its first await.
Asking(kind, c, i, k, w) ==
  [pc |-> "asking", kind |-> kind, loop |-> i, code |-> k, week |-> w,
   etag |-> EtagFor(c, k, w), body |-> 0]

FreeSlots(c) == {x \in Slots : call[c][x].pc = "idle"}

Ask(c, x, kind, i, k, w) ==
  /\ x \in FreeSlots(c)
  /\ call' = [call EXCEPT ![c][x] = Asking(kind, c, i, k, w)]

\* Instances nothing refers to any more.
FreeInstances(c) ==
  {i \in Instances : i # manager[c] /\ \A x \in Slots : call[c][x].loop # i}

\* start() of a new loop: it backfills or schedules its first poll.
Started(backfills) ==
  [running |-> TRUE, timer |-> ~backfills, inFlight |-> backfills,
   backfilling |-> FALSE]

\* Fault: stop() leaves an on-demand backfill to itself.
StoppedPolling(rec) == [rec EXCEPT !.running = FALSE, !.timer = FALSE]

\* stop() also ends an on-demand backfill of a loop that does not poll; what
\* is in flight stays in flight.
Stopped(rec) ==
  [rec EXCEPT !.running = FALSE, !.timer = FALSE, !.backfilling = FALSE]

\* scheduleNext(): a loop that was stopped arms nothing.
Scheduled(rec) == [rec EXCEPT !.timer = rec.running]

\* The loops of clan c without the one in the manager's map.
Discarded(c) ==
  IF manager[c] = None THEN loop[c]
                       ELSE [loop[c] EXCEPT ![manager[c]] = Stopped(@)]

\* restartClan(c), the clan's code being k.
RestartClan(c, k) ==
  \/ /\ k = None
     /\ manager' = [manager EXCEPT ![c] = None]
     /\ loop' = [loop EXCEPT ![c] = Discarded(c)]
     /\ UNCHANGED call
  \/ /\ k # None /\ FreeInstances(c) # {}
     /\ LET i == CHOOSE j \in FreeInstances(c) : TRUE
            first == k \notin done'
        IN
        /\ manager' = [manager EXCEPT ![c] = i]
        /\ loop' = [loop EXCEPT ![c] = [Discarded(c) EXCEPT ![i] = Started(first)]]
        /\ \/ first /\ \E x \in Slots : Ask(c, x, "initial", i, k, 1)
           \/ ~first /\ UNCHANGED call

-----------------------------------------------------------------------------
(* The process starts: every live clan with a code gets a loop.            *)

Polls(c) == ClanCode(c) # None

Backfills(c) == Polls(c) /\ code[c] \notin done

BootInstance == CHOOSE i \in Instances : TRUE

BootSlot == CHOOSE s \in Slots : TRUE

BootManager == [c \in Clans |-> IF Polls(c) THEN BootInstance ELSE None]

BootLoop ==
  [c \in Clans |-> [i \in Instances |->
     IF Polls(c) /\ i = BootInstance THEN Started(Backfills(c)) ELSE NoLoop]]

BootCall ==
  [c \in Clans |-> [s \in Slots |->
     IF Backfills(c) /\ s = BootSlot
       THEN Asking("initial", c, BootInstance, code[c], 1) ELSE NoCall]]

Init ==
  /\ code \in [Clans -> Codes \cup {None}]
  /\ deleted \in SUBSET (Clans \ {1}) /\ done \in {{}, Codes}
  /\ snapshot = [c \in Clans |-> [k \in Codes |-> [w \in 0..Weeks |-> 0]]]
  /\ upstream = [k \in Codes |-> 1]
  /\ manager = BootManager /\ loop = BootLoop /\ call = BootCall
  /\ events = MaxEvents

Reboot ==
  /\ Event
  /\ manager' = BootManager /\ loop' = BootLoop /\ call' = BootCall
  /\ UNCHANGED <<code, deleted, done, snapshot, upstream>>

-----------------------------------------------------------------------------
(* The scheduled poll.                                                     *)

\* runCycle() finds an ingest of its own in flight and looks again in a minute
\* (which leaves the state as it is), finds no code and stops, or polls.
TimerFires(c, i) ==
  /\ loop[c][i].timer /\ ~loop[c][i].inFlight
  /\ \/ /\ LoopCode(c) = None
        /\ loop' = [loop EXCEPT ![c][i] = Stopped(@)]
        /\ UNCHANGED call
     \/ /\ LoopCode(c) # None
        /\ loop' = [loop EXCEPT ![c][i].timer = FALSE, ![c][i].inFlight = TRUE]
        /\ \E x \in Slots : Ask(c, x, "poll", i, LoopCode(c), 0)
  /\ UNCHANGED <<code, deleted, done, snapshot, upstream, manager, events>>

-----------------------------------------------------------------------------
(* What follows an ingest, whether it succeeded or threw.                  *)

\* Fault: one week too many.
GoesOnTooFar(rec, kind, w) ==
  /\ w <= Weeks
  /\ \/ kind = "initial" /\ rec.running
     \/ kind = "backfill" /\ rec.backfilling

\* A backfill at week w goes on to the next unless its loop was stopped.
GoesOn(rec, kind, w) ==
  /\ w < Weeks
  /\ \/ kind = "initial" /\ rec.running
     \/ kind = "backfill" /\ rec.backfilling

\* Fault: the initial backfill leaves the first poll to somebody else.
AfterRunUnscheduled(rec, kind) ==
  LET over == [rec EXCEPT !.inFlight = FALSE,
                          !.backfilling = @ /\ kind # "backfill"]
  IN IF kind = "initial" THEN over ELSE Scheduled(over)

\* The finally of a poll or a backfill.
AfterRun(rec, kind) ==
  Scheduled([rec EXCEPT !.inFlight = FALSE,
                        !.backfilling = @ /\ kind # "backfill"])

\* The marker is written however the initial backfill ends.
Marked(x) == IF x.kind = "initial" THEN done \cup {x.code} ELSE done

Continue(c, s) ==
  LET x == call[c][s] i == x.loop IN
  \/ /\ x.kind = "manual"
     /\ call' = [call EXCEPT ![c][s] = NoCall]
     /\ UNCHANGED <<loop, done>>
  \/ /\ x.kind # "manual" /\ GoesOn(loop[c][i], x.kind, x.week)
     /\ call' = [call EXCEPT ![c][s] =
                   Asking(x.kind, c, i, x.code, x.week + 1)]
     /\ UNCHANGED <<loop, done>>
  \/ /\ x.kind # "manual" /\ ~GoesOn(loop[c][i], x.kind, x.week)
     /\ call' = [call EXCEPT ![c][s] = NoCall]
     /\ loop' = [loop EXCEPT ![c][i] = AfterRun(@, x.kind)]
     /\ done' = Marked(x)

-----------------------------------------------------------------------------
(* ingestSnapshot.                                                         *)

\* The tracker answers with what it shows then, and the ingest waits for the
\* settings.
Answered(c, s) ==
  LET x == call[c][s] IN
  /\ x.pc = "asking" /\ Shown(x.code, x.week) # x.etag
  /\ call' = [call EXCEPT ![c][s].pc = "settings",
                          ![c][s].body = Shown(x.code, x.week)]
  /\ UNCHANGED <<code, deleted, done, snapshot, upstream, manager, loop, events>>

\* 304: the validator names what the tracker shows.
NotModified(c, s) ==
  /\ call[c][s].pc = "asking"
  /\ Shown(call[c][s].code, call[c][s].week) = call[c][s].etag
  /\ Continue(c, s)
  /\ UNCHANGED <<code, deleted, snapshot, upstream, manager, events>>

\* An error, a malformed answer, none within 30 seconds, or a failing insert.
IngestThrows(c, s) ==
  /\ Event
  /\ call[c][s].pc # "idle" /\ Continue(c, s)
  /\ UNCHANGED <<code, deleted, snapshot, upstream, manager>>

\* The settings have come, or have not; the snapshot is stored either way.
InsertSnapshot(c, s) ==
  LET x == call[c][s] IN
  /\ x.pc = "settings"
  /\ snapshot' = [snapshot EXCEPT ![c][x.code][x.week] = x.body]
  /\ Continue(c, s)
  /\ UNCHANGED <<code, deleted, upstream, manager, events>>

-----------------------------------------------------------------------------
(* Requests.                                                               *)

\* PUT /external/config: a code that is new to the clan loses its marker.
PutConfig(c, k) ==
  /\ Event /\ c \notin deleted
  /\ code' = [code EXCEPT ![c] = k]
  /\ done' = IF k # code[c] THEN done \ {k} ELSE done
  /\ RestartClan(c, k)
  /\ UNCHANGED <<deleted, snapshot, upstream>>

\* PUT /clans/:id/chesttracker leaves the markers alone.
PutChestTracker(c, k) ==
  /\ Event /\ c \notin deleted
  /\ code' = [code EXCEPT ![c] = k]
  /\ UNCHANGED <<deleted, done, snapshot, upstream>>
  /\ RestartClan(c, k)

\* startBackfill() of the clan's loop.
RunBackfill(c, i, rec, k) ==
  /\ ~rec.backfilling /\ k # None
  /\ loop' = [loop EXCEPT ![c][i] =
                [rec EXCEPT !.backfilling = TRUE, !.inFlight = TRUE]]
  /\ \E x \in Slots : Ask(c, x, "backfill", i, k, 1)

\* POST /external/backfill.  A clan without a loop gets one that does not poll.
PostBackfill(c) ==
  /\ Event /\ c \notin deleted
  /\ \/ /\ manager[c] # None
        /\ RunBackfill(c, manager[c], loop[c][manager[c]], LoopCode(c))
        /\ UNCHANGED manager
     \/ /\ manager[c] = None /\ FreeInstances(c) # {}
        /\ LET i == CHOOSE j \in FreeInstances(c) : TRUE IN
           /\ manager' = [manager EXCEPT ![c] = i]
           /\ RunBackfill(c, i, NoLoop, ClanCode(c))
  /\ UNCHANGED <<code, deleted, done, snapshot, upstream>>

\* POST /external/fetch, of any week.
PostFetch(c, w) ==
  /\ Event /\ c \notin deleted /\ code[c] # None
  /\ \E x \in Slots : Ask(c, x, "manual", None, code[c], w)
  /\ UNCHANGED <<code, deleted, done, snapshot, upstream, manager, loop>>

\* DELETE /clans/:id: one flag, and never the last live clan.
DeleteClan(c) ==
  /\ Event
  /\ c \notin deleted /\ \E d \in Clans \ {c} : d \notin deleted
  /\ deleted' = deleted \cup {c}
  /\ UNCHANGED <<code, done, snapshot, upstream, manager, loop, call>>

RestoreClan(c) ==
  /\ Event
  /\ c \in deleted
  /\ deleted' = deleted \ {c}
  /\ UNCHANGED <<code, done, snapshot, upstream, manager, loop, call>>

\* The tracker's players open chests.
UpstreamMoves(k) ==
  /\ Event
  /\ upstream[k] < MaxVersion
  /\ upstream' = [upstream EXCEPT ![k] = @ + 1]
  /\ UNCHANGED <<code, deleted, done, snapshot, manager, loop, call>>

-----------------------------------------------------------------------------
Ingest(c, s) == Answered(c, s) \/ NotModified(c, s) \/ InsertSnapshot(c, s)

Next ==
  \/ \E c \in Clans, i \in Instances : TimerFires(c, i)
  \/ \E c \in Clans, s \in Slots : Ingest(c, s) \/ IngestThrows(c, s)
  \/ \E c \in Clans, k \in Codes \cup {None} : PutConfig(c, k) \/ PutChestTracker(c, k)
  \/ \E c \in Clans : PostBackfill(c) \/ DeleteClan(c) \/ RestoreClan(c)
  \/ \E c \in Clans, w \in 0..Weeks : PostFetch(c, w)
  \/ \E k \in Codes : UpstreamMoves(k)
  \/ Reboot

Spec == Init /\ [][Next]_vars

\* Timers go off, and both requests of an ingest carry a timeout.
FairSpec ==
  /\ Spec
  /\ \A c \in Clans, i \in Instances : WF_vars(TimerFires(c, i))
  /\ \A c \in Clans, s \in Slots : WF_vars(Ingest(c, s))

-----------------------------------------------------------------------------
(* Properties.                                                             *)

LoopRecord == [running : BOOLEAN, timer : BOOLEAN, inFlight : BOOLEAN,
               backfilling : BOOLEAN]

CallRecord ==
  [pc : {"idle", "asking", "settings"},
   kind : {"poll", "initial", "backfill", "manual"},
   loop : Instances \cup {None}, code : Codes \cup {None},
   week : 0..Weeks, etag : Nat, body : Nat]

TypeOK ==
  /\ code \in [Clans -> Codes \cup {None}]
  /\ deleted \subseteq Clans /\ done \subseteq Codes
  /\ snapshot \in [Clans -> [Codes -> [0..Weeks -> Nat]]]
  /\ upstream \in [Codes -> Nat]
  /\ manager \in [Clans -> Instances \cup {None}]
  /\ loop \in [Clans -> [Instances -> LoopRecord]]
  /\ call \in [Clans -> [Slots -> CallRecord]]
  /\ events \in Nat

\* A coroutine of loop i that will schedule the next poll when it ends.
WillSchedule(c, i) ==
  \E s \in Slots : call[c][s].pc # "idle" /\ call[c][s].loop = i

\* A loop that runs never runs dry: the next poll is armed, or something is in
\* flight that arms it, whatever mixture of polls and backfills shares the
\* loop's one inFlight flag.
RunningGoesOn ==
  \A c \in Clans, i \in Instances :
    loop[c][i].running => loop[c][i].timer \/ WillSchedule(c, i)

\* A request to the tracker begins in slot s of clan c.
Begins(c, s) ==
  /\ call'[c][s].pc = "asking"
  /\ call[c][s].pc = "asking" => call'[c][s].week # call[c][s].week

\* A loop that restartClan has discarded begins no further ingest: what it has in
\* flight ends, though it may still ask for the settings that go with its answer
\* (ingest.ts:191), and neither of its backfills goes on to another week.
DiscardedAsksNoMore ==
  [][\A c \in Clans, s \in Slots :
       Begins(c, s) /\ call'[c][s].kind # "manual"
         => call'[c][s].loop = manager'[c]]_vars

Polled(c, k) ==
  /\ c \notin deleted /\ code[c] = k
  /\ manager[c] # None /\ loop[c][manager[c]].running

\* Once things are quiet, the newest stored snapshot of a polled clan is what
\* its tracker shows, though answers may have been stored out of order or been
\* answered for an older content.
Converges ==
  \A c \in Clans, k \in Codes :
    <>[]Polled(c, k) => <>[](snapshot[c][k][0] = upstream[k])
=============================================================================
