------------------------------- MODULE Digest -------------------------------
(***************************************************************************)
(* The Discord bots of the clans and their digests (discord/bot.ts).  One  *)
(* gateway client serves all clans that share a token.  At every rollover  *)
(* a clan owes its channel a daily digest, and a weekly one when a week    *)
(* ends.  A digest waits for the first scan that starts after the rollover *)
(* and completes; a timer sends it without one.  What was sent is recorded *)
(* on disk, and a bot that starts catches up on the last rollover.         *)
(*                                                                         *)
(* An activation runs until it awaits Discord (a login, a registration of  *)
(* commands, a post, the end of a client); these are its pcs.  Rollovers   *)
(* are numbered: day is the last one.                                      *)
(***************************************************************************)
EXTENDS Naturals, FiniteSets

CONSTANTS
  Clans, Tokens, None,
  Settings,   \* the settings an admin saves for a clan, [token, kinds]
  Slots,      \* activations that can be suspended at a time
  WeekEnds,   \* the rollovers that end a week
  MaxDay,     \* bound: the last rollover
  MaxEvents   \* bound: settings saved, failures and crashes

Kinds == {"daily", "weekly"}
Days  == 1..MaxDay
Never == MaxDay + 1   \* the time of a digest that was never sent

ASSUME DigestAssumption ==
  /\ None \notin Tokens /\ None \notin Clans
  /\ MaxDay \in Nat \ {0} /\ MaxEvents \in Nat
  /\ WeekEnds \subseteq Days
  /\ Settings \in [Clans -> SUBSET [token : Tokens \cup {None}, kinds : SUBSET Kinds]]

VARIABLES
  up,         \* the process runs
  booting,    \* clans that startAllClanBots has still to start
  day,        \* the last rollover
  wants,      \* disk: the settings of a clan, [token, kinds]
  ctx,        \* the map clans: [Clans -> context or NoCtx]
  client,     \* the map clients: [Tokens -> shared client]
  task,       \* the suspended activations
  scan,       \* the scan of a clan: when it began and how far it is
  completed,  \* disk: the latest start of a completed scan
  reported,   \* disk: the digest sent last, of which rollover and when
  posts,      \* auxiliary: posts of the digest of a rollover
  excused,    \* auxiliary: digests that died after they may have been posted
  events      \* bounded events left

vars == <<up, booting, day, wants, ctx, client, task, scan, completed,
          reported, posts, excused, events>>

\* due and owes are pendingDigest; dark is auxiliary: its login has failed.
NoCtx    == [token |-> None, kinds |-> {}, timer |-> 0, due |-> 0, owes |-> {},
             dark |-> FALSE]
NoClient == [state |-> "none", users |-> {}, by |-> None]
NoTask   == [pc |-> "idle", clan |-> None, token |-> None, then |-> "none",
             left |-> {}, of |-> 0, kind |-> "daily", rest |-> {}, at |-> 0,
             waived |-> FALSE]
NoScan   == [pc |-> "idle", began |-> 0]

Event == events > 0 /\ events' = events - 1
Free  == {i \in Slots : task[i].pc = "idle"}
Runs(c) == ctx[c] # NoCtx

-----------------------------------------------------------------------------
(* Timers and pending digests.                                             *)

\* Fault: a rollover is skipped.
ScheduleAfterNext(x) ==
  [x EXCEPT !.timer = IF x.kinds = {} THEN 0 ELSE day + 2, !.dark = FALSE]

\* scheduleNextDigest
ScheduleNextDigest(x) ==
  [x EXCEPT !.timer = IF x.kinds = {} THEN 0 ELSE day + 1,
            !.dark = FALSE]

Rescheduled(c) ==
  IF Runs(c) THEN [ctx EXCEPT ![c] = ScheduleNextDigest(@)] ELSE ctx

\* digestKindsFor
DigestKindsFor(x, r) ==
  {k \in x.kinds : k = "weekly" => r \in WeekEnds}

\* Fault: a digest that was recorded is not recognised.
OwedUnrecorded(c, x) ==
  {k \in DigestKindsFor(x, day) : day # 0 /\ reported[c][k].at # Never}

\* dailyDigestOwed, weeklyDigestOwed: of the last rollover, when something was
\* sent before, but not since.
Owed(c, x) ==
  {k \in DigestKindsFor(x, day) :
     /\ reported[c][k].of # day
     /\ reported[c][k].at # Never /\ reported[c][k].at < day}

\* Fault: a scan that was under way at the rollover will do.
HasCompletedScanSince(c, r) == completed[c] + 1 >= r

\* hasCompletedScanStartedSince
HasCompletedScanStartedSince(c, r) == completed[c] >= r

\* Fault: the weekly digest does not wait with the daily one.
ArmedDaily(c, x, r, kinds) ==
  IF HasCompletedScanStartedSince(c, r)
    THEN [x EXCEPT !.due = 0, !.owes = {}]
    ELSE [x EXCEPT !.due = r, !.owes = kinds \ {"weekly"}]

\* armDigest: the context it leaves.
Armed(c, x, r, kinds) ==
  IF HasCompletedScanStartedSince(c, r)
    THEN [x EXCEPT !.due = 0, !.owes = {}]
    ELSE [x EXCEPT !.due = r, !.owes = kinds]

-----------------------------------------------------------------------------
(* Sending.                                                                *)

\* The kinds that sendDigestsForRollover gets to send: switched on, and over a
\* client that is ready.
Sendable(c, kinds) ==
  {k \in kinds : k \in ctx[c].kinds /\ client[ctx[c].token].state = "ready"}

\* The activation i begins to send, the daily digest first.
Send(i, c, r, kinds, waived, then, left) ==
  LET k == IF "daily" \in Sendable(c, kinds) THEN "daily" ELSE "weekly"
  IN  [NoTask EXCEPT !.pc = "post", !.clan = c, !.token = ctx[c].token,
                     !.of = r, !.kind = k,
                     !.rest = IF k = "daily" THEN kinds \ {k} ELSE {},
                     !.at = day, !.waived = waived,
                     !.then = then, !.left = left]

\* What an activation does next for a clan when it is done: nothing, arm the
\* timer of the next rollover, or go on with the clans of the ready client.
Resumed(then, c, left) ==
  IF then = "ready" /\ left # {}
    THEN [NoTask EXCEPT !.pc = "ready", !.left = left]
    ELSE NoTask

\* Fault: a timer that has armed a digest is not set again.
CtxKept(then, c, x) == x

CtxAfter(then, c, x) == IF then = "schedule" THEN ScheduleNextDigest(x) ELSE x

\* armDigest, by an activation i that goes on with then.
ArmDigest(i, c, x, r, kinds, then, left) ==
  LET y == Armed(c, x, r, kinds)
  IN  IF HasCompletedScanStartedSince(c, r) /\ Sendable(c, kinds) # {}
        THEN /\ ctx' = [ctx EXCEPT ![c] = y]
             /\ task' = [task EXCEPT ![i] = Send(i, c, r, kinds, FALSE, then, left)]
        ELSE /\ ctx' = [ctx EXCEPT ![c] = CtxAfter(then, c, y)]
             /\ task' = [task EXCEPT ![i] = Resumed(then, c, left)]

\* Auxiliary: the digests of a clan that are being sent.
Sending(c) ==
  UNION {{<<c, k, task[i].of>> : k \in task[i].rest \cup {task[i].kind}} :
           i \in {j \in Slots : task[j].pc \in {"post", "record"} /\ task[j].clan = c}}

\* catchUpMissedDigest; it does not see a send that is not recorded yet.
CatchUp(i, c, then, left) ==
  IF ~Runs(c)
    THEN /\ task' = [task EXCEPT ![i] = Resumed(then, c, left)]
         /\ UNCHANGED <<ctx, excused>>
    ELSE IF Owed(c, ctx[c]) = {}
      THEN /\ task' = [task EXCEPT ![i] = Resumed(then, c, left)]
           /\ ctx' = [ctx EXCEPT ![c] = CtxAfter(then, c, @)]
           /\ UNCHANGED excused
      ELSE /\ ArmDigest(i, c, ctx[c], day, Owed(c, ctx[c]), then, left)
           /\ excused' = excused \cup
                (Sending(c) \cap {<<c, k, day>> : k \in Owed(c, ctx[c])})

\* The post reaches the channel, or fails.
Post(i) ==
  LET t == task[i]
  IN  /\ t.pc = "post"
      /\ \/ client[t.token].state = "ready"
            /\ posts' = [posts EXCEPT ![t.clan][t.kind][t.of] = @ + 1]
            /\ UNCHANGED events
         \/ /\ UNCHANGED posts
            /\ IF client[t.token].state = "ready" THEN Event ELSE UNCHANGED events
      /\ task' = [task EXCEPT ![i].pc = "record"]
      /\ UNCHANGED <<up, booting, day, wants, ctx, client, scan, completed,
                     reported, excused>>

\* What follows the digests of t.
AfterSend(i) ==
  LET t == task[i]
  IN  IF Runs(t.clan) /\ Sendable(t.clan, t.rest) # {}
        THEN /\ task' = [task EXCEPT ![i] =
                           Send(i, t.clan, t.of, t.rest, t.waived, t.then, t.left)]
             /\ UNCHANGED ctx
        ELSE /\ task' = [task EXCEPT ![i] = Resumed(t.then, t.clan, t.left)]
             /\ ctx' = IF t.then = "schedule" THEN Rescheduled(t.clan) ELSE ctx

\* setClanLastDigestStatus, setClanLastWeeklyDigestStatus, once the direct
\* messages are out; the database may refuse.
Record(i) ==
  LET t == task[i]
  IN  /\ t.pc = "record"
      /\ \/ /\ reported' = [reported EXCEPT ![t.clan][t.kind] =
                              [of |-> t.of, at |-> t.at]]
            /\ UNCHANGED <<excused, events>>
         \/ /\ Event
            /\ excused' = excused \cup {<<t.clan, t.kind, t.of>>}
            /\ UNCHANGED reported
      /\ AfterSend(i)
      /\ UNCHANGED <<up, booting, day, wants, client, scan, completed, posts>>

-----------------------------------------------------------------------------
(* Starting, stopping and reloading a bot.                                 *)

\* startBotForClan for the clan c, whose context is gone, with the settings w,
\* given the clients: ensureClient awaits the login of a new client; an existing
\* one is taken as it is.
StartBot(i, c, w, clients) ==
  LET token == w.token
      x == [NoCtx EXCEPT !.token = token, !.kinds = w.kinds]
      shared == clients[token]
  IN  IF token = None
        THEN /\ task' = [task EXCEPT ![i] = NoTask]
             /\ client' = clients
             /\ ctx' = [ctx EXCEPT ![c] = NoCtx]
        ELSE IF shared.state = "none"
          THEN /\ task' = [task EXCEPT ![i] = [NoTask EXCEPT
                             !.pc = "login", !.clan = c, !.token = token]]
               /\ client' = [clients EXCEPT ![token] =
                               [state |-> "login", users |-> {}, by |-> i]]
               /\ ctx' = [ctx EXCEPT ![c] = x]
          ELSE /\ client' = [clients EXCEPT ![token].users = @ \cup {c}]
               /\ IF shared.state = "ready"
                    THEN /\ task' = [task EXCEPT ![i] = [NoTask EXCEPT
                                       !.pc = "register", !.clan = c,
                                       !.then = "catchUp"]]
                         /\ ctx' = [ctx EXCEPT ![c] = x]
                    ELSE /\ task' = [task EXCEPT ![i] = NoTask]
                         /\ ctx' = [ctx EXCEPT ![c] = ScheduleNextDigest(x)]

\* startClanBot once its stop is over: the settings are read, and a bot that was
\* started meanwhile is left alone.
Restart(i, c, clients) ==
  IF Runs(c)
    THEN task' = [task EXCEPT ![i] = NoTask] /\ client' = clients /\ UNCHANGED ctx
    ELSE StartBot(i, c, wants[c], clients)

\* startAllClanBots awaits one clan after the other.
BootNext(i) ==
  /\ up /\ i \in Free /\ \A j \in Slots : task[j].pc # "login"
  /\ \E c \in booting :
       /\ booting' = booting \ {c}
       /\ IF Runs(c) THEN UNCHANGED <<ctx, client, task>> ELSE StartBot(i, c, wants[c], client)
  /\ UNCHANGED <<up, day, wants, scan, completed, reported, posts, excused, events>>

\* The login of a client resolves, before the client is ready.
LoginResolves(i) ==
  LET t == task[i]
  IN  /\ t.pc = "login"
      /\ client' = IF client[t.token].by = i
                     THEN [client EXCEPT ![t.token] =
                             [state |-> "up", users |-> @.users \cup {t.clan},
                              by |-> None]]
                     ELSE client
      /\ ctx' = Rescheduled(t.clan)
      /\ task' = [task EXCEPT ![i] = NoTask]
      /\ UNCHANGED <<up, booting, day, wants, scan, completed, reported, posts,
                     excused, events>>

\* The login is refused: the client stays in the map, and so does the clan.
LoginFails(i) ==
  LET t == task[i]
  IN  /\ t.pc = "login" /\ Event
      /\ client' = IF client[t.token].by = i
                     THEN [client EXCEPT ![t.token].state = "failed",
                                         ![t.token].by = None]
                     ELSE client
      /\ ctx' = IF Runs(t.clan) THEN [ctx EXCEPT ![t.clan].dark = TRUE] ELSE ctx
      /\ task' = [task EXCEPT ![i] = NoTask]
      /\ UNCHANGED <<up, booting, day, wants, scan, completed, reported, posts,
                     excused>>

\* clientReady, up to the registration of commands
ClientReady(i, token) ==
  /\ i \in Free /\ client[token].state = "up"
  /\ client' = [client EXCEPT ![token].state = "ready"]
  /\ task' = [task EXCEPT ![i] = [NoTask EXCEPT
                !.pc = "register", !.then = "ready",
                !.left = {c \in Clans : ctx[c].token = token}]]
  /\ UNCHANGED <<up, booting, day, wants, ctx, scan, completed, reported, posts,
                 excused, events>>

\* The handler of clientReady goes on with one clan after the other.
CatchUpNext(i, left) ==
  IF left = {}
    THEN task' = [task EXCEPT ![i] = NoTask] /\ UNCHANGED <<ctx, excused>>
    ELSE \E c \in left : CatchUp(i, c, "ready", left \ {c})

ReadyNext(i) ==
  /\ task[i].pc = "ready"
  /\ CatchUpNext(i, task[i].left)
  /\ UNCHANGED <<up, booting, day, wants, client, scan, completed, reported,
                 posts, events>>

\* A registration of commands ends, or fails, which is only logged.
Registered(i) ==
  LET t == task[i]
  IN  /\ t.pc = "register"
      /\ \/ t.then = "ready" /\ CatchUpNext(i, t.left) /\ UNCHANGED client
         \/ t.then = "catchUp" /\ CatchUp(i, t.clan, "schedule", {}) /\ UNCHANGED client
         \/ /\ t.then = "schedule"
            /\ ctx' = Rescheduled(t.clan)
            /\ task' = [task EXCEPT ![i] = NoTask]
            /\ UNCHANGED <<client, excused>>
         \/ t.then = "start" /\ Restart(i, t.clan, client) /\ UNCHANGED excused
      /\ UNCHANGED <<up, booting, day, wants, scan, completed, reported, posts,
                     events>>

\* stopClanBot, on the way to then: its timers are cleared, and the client goes
\* with its last user.
StopBot(i, c, then) ==
  LET token == ctx[c].token
      left  == client[token].users \ {c}
  IN  /\ ctx' = [ctx EXCEPT ![c] = NoCtx]
      /\ client' = [client EXCEPT ![token].users = left]
      /\ task' = IF left # {} /\ then = "none" THEN task
                 ELSE [task EXCEPT ![i] = [NoTask EXCEPT
                         !.pc = IF left = {} THEN "destroy" ELSE "register",
                         !.clan = c, !.token = token, !.then = then]]
      /\ excused' = excused \cup Sending(c)

\* client.destroy() is over, and the map forgets the token.
Destroyed(i) ==
  LET t == task[i]
      gone == [client EXCEPT ![t.token] = NoClient]
  IN  /\ t.pc = "destroy"
      /\ IF t.then = "start"
           THEN Restart(i, t.clan, gone)
           ELSE task' = [task EXCEPT ![i] = NoTask] /\ client' = gone /\ UNCHANGED ctx
      /\ UNCHANGED <<up, booting, day, wants, scan, completed, reported, posts,
                     excused, events>>

\* PUT /clans/:clanId/discord: the settings are saved and reloadClanBot runs.
PutDiscord(i, c) ==
  /\ up /\ i \in Free /\ Event
  /\ \E w \in Settings[c] :
       /\ wants' = [wants EXCEPT ![c] = w]
       /\ IF w.token = None
            THEN IF Runs(c)
                   THEN StopBot(i, c, "none")
                   ELSE UNCHANGED <<ctx, client, task, excused>>
            ELSE IF Runs(c) /\ ctx[c].token = w.token
              THEN LET x == [ctx[c] EXCEPT !.kinds = w.kinds]
                   IN  /\ IF client[w.token].state = "ready"
                            THEN /\ ctx' = [ctx EXCEPT ![c] = x]
                                 /\ task' = [task EXCEPT ![i] = [NoTask EXCEPT
                                      !.pc = "register", !.clan = c,
                                      !.then = "schedule"]]
                            ELSE /\ ctx' = [ctx EXCEPT ![c] = ScheduleNextDigest(x)]
                                 /\ UNCHANGED task
                       /\ UNCHANGED <<client, excused>>
              ELSE IF Runs(c)
                THEN StopBot(i, c, "start")
                ELSE StartBot(i, c, w, client) /\ UNCHANGED excused
  /\ UNCHANGED <<up, booting, day, scan, completed, reported, posts>>

-----------------------------------------------------------------------------
(* Timers, scans, the clock and the process.                               *)

\* Bound: a timer is late by less than a scan takes, and less than a fallback.
Overdue(c) == ctx[c].timer \in 1..day

\* The timer of a rollover goes off.
DigestTimer(i, c) ==
  LET x == [ctx[c] EXCEPT !.timer = 0]
      r == ctx[c].timer
      kinds == DigestKindsFor(x, r)
  IN  /\ i \in Free /\ r # 0 /\ r <= day
      /\ IF kinds = {}
           THEN ctx' = [ctx EXCEPT ![c] = ScheduleNextDigest(x)] /\ UNCHANGED task
           ELSE ArmDigest(i, c, x, r, kinds, "schedule", {})
      /\ UNCHANGED <<up, booting, day, wants, client, scan, completed, reported,
                     posts, excused, events>>

\* Pending digests are released: to be sent, or dropped when nothing can be.
Release(i, c, waived) ==
  /\ i \in Free
  /\ ctx' = [ctx EXCEPT ![c].due = 0, ![c].owes = {}]
  /\ task' = IF Sendable(c, ctx[c].owes) # {}
               THEN [task EXCEPT ![i] =
                       Send(i, c, ctx[c].due, ctx[c].owes, waived, "none", {})]
               ELSE task

\* The fallback timer of armDigest: no scan came.
Fallback(i, c) ==
  /\ ctx[c].due # 0 /\ ~Overdue(c)
  /\ Release(i, c, TRUE)
  /\ UNCHANGED <<up, booting, day, wants, client, scan, completed, reported,
                 posts, excused, events>>

\* Scanning starts once all bots were started, and scans one clan at a time.
ScanBegins(c) ==
  /\ up /\ booting = {} /\ \A i \in Slots : task[i].pc # "login"
  /\ \A d \in Clans : scan[d].pc # "scanning"
  /\ scan[c].pc = "idle" /\ completed[c] < day
  /\ scan' = [scan EXCEPT ![c] = [pc |-> "scanning", began |-> day]]
  /\ UNCHANGED <<up, booting, day, wants, ctx, client, task, completed, reported,
                 posts, excused, events>>

ScanEnds(c) ==
  /\ scan[c].pc = "scanning" /\ ~Overdue(c)
  /\ \/ /\ completed' = [completed EXCEPT ![c] = scan[c].began]
        /\ scan' = [scan EXCEPT ![c].pc = "completed"]
     \/ scan' = [scan EXCEPT ![c] = NoScan] /\ UNCHANGED completed
  /\ UNCHANGED <<up, booting, day, wants, ctx, client, task, reported, posts,
                 excused, events>>

\* onClanScanCompleted
OnClanScanCompleted(i, c) ==
  /\ scan[c].pc = "completed"
  /\ scan' = [scan EXCEPT ![c] = NoScan]
  /\ IF ctx[c].due # 0 /\ HasCompletedScanStartedSince(c, ctx[c].due)
       THEN Release(i, c, FALSE)
       ELSE UNCHANGED <<ctx, task>>
  /\ UNCHANGED <<up, booting, day, wants, client, completed, reported, posts,
                 excused, events>>

\* Bound: timers go off, pending digests go out and sends end within a day.
Settled ==
  /\ \A c \in Clans : ~Overdue(c) /\ ctx[c].due = 0
  /\ \A i \in Slots : task[i].pc \notin {"post", "record"}

Rollover ==
  /\ day < MaxDay /\ Settled
  /\ day' = day + 1
  /\ UNCHANGED <<up, booting, wants, ctx, client, task, scan, completed, reported,
                 posts, excused, events>>

\* The process dies, with all that is not on disk.
Crash ==
  /\ up /\ Event
  /\ up' = FALSE /\ booting' = {}
  /\ ctx' = [c \in Clans |-> NoCtx]
  /\ client' = [t \in Tokens |-> NoClient]
  /\ task' = [i \in Slots |-> NoTask]
  /\ scan' = [c \in Clans |-> NoScan]
  /\ excused' = excused \cup UNION {Sending(c) : c \in Clans}
  /\ UNCHANGED <<day, wants, completed, reported, posts>>

\* main, up to startAllClanBots
Boot ==
  /\ ~up /\ up' = TRUE /\ booting' = Clans
  /\ UNCHANGED <<day, wants, ctx, client, task, scan, completed, reported, posts,
                 excused, events>>

-----------------------------------------------------------------------------
Init ==
  /\ up = FALSE /\ booting = {} /\ day = 0
  /\ wants \in [Clans -> UNION {Settings[c] : c \in Clans}]
  /\ \A c \in Clans : wants[c] \in Settings[c] /\ wants[c].token # None
  /\ ctx = [c \in Clans |-> NoCtx]
  /\ client = [t \in Tokens |-> NoClient]
  /\ task = [i \in Slots |-> NoTask]
  /\ scan = [c \in Clans |-> NoScan]
  /\ completed = [c \in Clans |-> 0]
  /\ \E at \in {0, Never} :
       reported = [c \in Clans |-> [k \in Kinds |-> [of |-> 0, at |-> at]]]
  /\ posts = [c \in Clans |-> [k \in Kinds |-> [r \in Days |-> 0]]]
  /\ excused = {}
  /\ events = MaxEvents

\* What Discord answers, the clock and the supervisor bring about.
Progress ==
  \/ \E i \in Slots :
       Post(i) \/ Record(i) \/ LoginResolves(i) \/ Registered(i) \/ ReadyNext(i)
       \/ Destroyed(i) \/ BootNext(i)
  \/ \E i \in Slots, t \in Tokens : ClientReady(i, t)
  \/ \E i \in Slots, c \in Clans : DigestTimer(i, c) \/ Fallback(i, c)
  \/ Rollover \/ Boot

Next ==
  \/ Progress
  \/ \E i \in Slots : LoginFails(i)
  \/ \E i \in Slots, c \in Clans : PutDiscord(i, c) \/ OnClanScanCompleted(i, c)
  \/ \E c \in Clans : ScanBegins(c) \/ ScanEnds(c)
  \/ Crash

Spec == Init /\ [][Next]_vars

\* Discord answers, timers go off, and the process is restarted: not one after
\* the other, but as long as anything of it can happen, something does.
FairSpec == Spec /\ WF_vars(Progress)

-----------------------------------------------------------------------------
(* Properties.                                                             *)

Context ==
  [token : Tokens \cup {None}, kinds : SUBSET Kinds, timer : 0..(MaxDay + 1),
   due : 0..MaxDay, owes : SUBSET Kinds, dark : BOOLEAN]
SharedClient ==
  [state : {"none", "login", "up", "ready", "failed"}, users : SUBSET Clans,
   by : Slots \cup {None}]
Activation ==
  [pc : {"idle", "login", "register", "ready", "destroy", "post", "record"},
   clan : Clans \cup {None}, token : Tokens \cup {None},
   then : {"none", "schedule", "catchUp", "ready", "start"},
   left : SUBSET Clans, of : 0..MaxDay, kind : Kinds, rest : SUBSET Kinds,
   at : 0..MaxDay, waived : BOOLEAN]

\* Types of the state.
TypeOK ==
  /\ up \in BOOLEAN /\ booting \subseteq Clans /\ day \in 0..MaxDay
  /\ \A c \in Clans : wants[c] \in Settings[c]
  /\ ctx \in [Clans -> Context]
  /\ client \in [Tokens -> SharedClient]
  /\ task \in [Slots -> Activation]
  /\ scan \in [Clans -> [pc : {"idle", "scanning", "completed"}, began : 0..MaxDay]]
  /\ completed \in [Clans -> 0..MaxDay]
  /\ reported \in [Clans -> [Kinds -> [of : 0..MaxDay, at : 0..(MaxDay + 1)]]]
  /\ posts \in [Clans -> [Kinds -> [Days -> Nat]]]
  /\ excused \subseteq Clans \X Kinds \X Days
  /\ events \in 0..MaxEvents

\* Whatever overlaps (the timer, a scan, a catch-up, the fallback), the digest
\* of a rollover is posted twice only if a send of it was in flight when the
\* process died, its bot was stopped or a catch-up ran, or if the database
\* refused to record it.
RepeatsAreExcused ==
  \A c \in Clans, k \in Kinds, r \in Days :
    posts[c][k][r] > 1 => <<c, k, r>> \in excused

\* No digest is posted before a scan that started after the rollover has
\* completed, unless it waited for the fallback.
DayIsClosed ==
  \A i \in Slots :
    task[i].pc = "post" => task[i].waived \/ completed[task[i].clan] >= task[i].of

\* An activation that will arm the timer of the clan c.
Schedules(i, c) ==
  /\ task[i].clan = c
  /\ \/ task[i].pc = "login"
     \/ task[i].pc = "register" /\ task[i].then \in {"catchUp", "schedule"}
     \/ task[i].pc \in {"post", "record"} /\ task[i].then = "schedule"

\* A bot with a digest switched on always has a timer for the next rollover, or
\* an activation that will arm it, unless its login has failed.
NextIsComing ==
  \A c \in Clans :
    Runs(c) /\ ctx[c].kinds # {} /\ ~ctx[c].dark =>
      ctx[c].timer # 0 \/ \E i \in Slots : Schedules(i, c)

\* Nothing fails any more, and no activation is under way.
Quiet == up /\ booting = {} /\ events = 0 /\ Free = Slots

Connected(c) ==
  /\ Runs(c) /\ ~ctx[c].dark
  /\ \E t \in Tokens : ctx[c].token = t /\ client[t].state = "ready"

\* The next digest of a bot that is connected.
Awaited(c, k, r) ==
  Quiet /\ day + 1 = r /\ Connected(c) /\ k \in DigestKindsFor(ctx[c], r)

\* The digest of the last rollover, owed when the process starts.
Missed(c, k, r) ==
  /\ up /\ booting = Clans /\ events = 0 /\ day = r
  /\ wants[c].token # None /\ k \in DigestKindsFor(wants[c], r)
  /\ reported[c][k].of # r /\ reported[c][k].at # Never

\* A digest is sent by a bot that is connected, whether or not a scan completes,
\* and one that was missed while the process was down is sent after its start,
\* unless the next rollover comes first.
DigestsGoOut ==
  \A c \in Clans, k \in Kinds, r \in Days :
    Awaited(c, k, r) \/ Missed(c, k, r) ~> reported[c][k].of = r \/ day > r
=============================================================================
