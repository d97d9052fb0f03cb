-------------------------- MODULE ResourceCapture --------------------------
(***************************************************************************)
(* The daily capture of a clan's resource history: the phase               *)
(* (scheduler/resource-capture-phase.ts), the sweep of the list            *)
(* (browser/resource-history-capture.ts) and the rules both rest on        *)
(* (browser/resource-sweep-rules.ts), with the rows and the marker that    *)
(* resource-repo.ts keeps on disk.                                         *)
(*                                                                         *)
(* The game shows the rows of the last ListDays account days, newest day   *)
(* first.  Rows of past days never change; the game still merges into the  *)
(* rows of today.  A sweep reads the list from the top until it meets the  *)
(* marker (the newest settled day the previous run read), and writes what  *)
(* lies between today and the marker.  The marker promises that everything *)
(* at and below it is recorded.                                            *)
(*                                                                         *)
(* Two clocks tick by turns: the list's day headers at the account's       *)
(* midnight, the game date by which rows are dated at 17:00 UTC, so a row  *)
(* of day d is dated d or d + 1.  What identifies a row to the code is its *)
(* look (player, direction, amount, resource) and its date.  A day shows   *)
(* no look twice, and a marker that is found is found at its own place:    *)
(* page stitching and fuzzy matching are left out, but the marker may be   *)
(* missed.                                                                 *)
(***************************************************************************)
EXTENDS Integers, FiniteSets

CONSTANTS
  Looks,      \* what rows look like
  ListDays,   \* days the game's list goes back, today included
  Margin,     \* REREAD_OPEN_DAY_DAYS + DATE_BACKSTOP_MARGIN_DAYS
  MinRun,     \* CURSOR_MIN_RUN
  AlignRows,  \* DATE_ALIGNMENT_MIN_ROWS
  Hazards,    \* "hour": runs at any hour; "race": deletions beside a run
  MaxDay,     \* bound: the last account day
  MaxEvents   \* bound: failures and requests of admins

Days  == 1..MaxDay
Dates == 1..(MaxDay + 1)

ASSUME CaptureAssumption ==
  /\ IsFiniteSet(Looks) /\ Looks # {}
  /\ ListDays \in Nat \ {0} /\ Margin \in Nat \ {0}
  /\ MinRun \in Nat \ {0} /\ AlignRows \in Nat \ {0}
  /\ Hazards \subseteq {"hour", "race"}
  /\ MaxDay \in Nat \ {0} /\ MaxEvents \in Nat

VARIABLES
  label,    \* the account day that the list heads TODAY
  skew,     \* 1 from 17:00 UTC until the account's midnight, 0 otherwise
  history,  \* [Days -> looks of the rows the game holds for that day]
  rows,     \* disk: the recorded rows [day, look, date, batch]
  cursor,   \* disk: the marker and the game date of the last run
  batches,  \* disk: batches created so far
  run,      \* the run in flight
  flagged,  \* auxiliary: batches that may repeat rows (MayRepeat)
  events    \* bounded events left

vars == <<label, skew, history, rows, cursor, batches, run, flagged, events>>
world == <<label, skew, history>>

\* A marker: the newest settled day a sweep read, and the date it was read as.
NoMark   == [day |-> 0, date |-> 0]
NoCursor == [mark |-> NoMark, gate |-> 0]
NoRun    == [pc |-> "idle", kind |-> "scheduled", gate |-> 0, mark |-> NoMark,
             new |-> {}, complete |-> {}, match |-> 0, reason |-> "page-limit",
             anchor |-> NoMark]

Kinds   == {"scheduled", "collect", "backfill", "dry"}
Reasons == {"cursor", "end-of-list", "date-floor", "page-limit"}

Event == events > 0 /\ events' = events - 1

-----------------------------------------------------------------------------
(* The list and its dates.                                                 *)

\* currentGameDate, listDateNow
GameDate == label + skew

\* Fault: the age of a row is added.
DateAdded(d) == GameDate + (label - d)

\* A row's date: the game date less the days its header says it is old.
DateOf(d) == GameDate - (label - d)

Listed   == {d \in Days : d <= label /\ d > label - ListDays}
ListRows == {r \in [day : Listed, look : Looks] : r.look \in history[r.day]}

Stamped(S) == {[day |-> r.day, look |-> r.look, date |-> DateOf(r.day)] : r \in S}

\* Fault: no day is taken for open.
NoOpenDates == {}

\* openDates: the days that were TODAY while the sweep ran.
OpenDates == {GameDate}

\* firstSettledRowIndex: the newest day on no open date, 0 if there is none.
IsFirstSettled(at, S) ==
  LET settled == {r.day : r \in {q \in S : q.date \notin OpenDates}}
  IN  IF settled = {} THEN at = 0
                      ELSE at \in settled /\ \A d \in settled : d <= at

\* ANCHOR_SAFE_STOP_REASONS: nothing unread lies between the anchor and the
\* previous marker.
AnyStop(reason)    == TRUE  \* Fault: a sweep cut short moves the marker.
AnchorSafe(reason) == reason \in {"cursor", "end-of-list", "date-floor"}

\* buildCursorFingerprints and the phase's anchorUsable: what the marker
\* becomes when the first settled row of S is one of the day at.
AnchorOf(S, at, reason) ==
  IF /\ at # 0
     /\ AnchorSafe(reason)
     /\ Cardinality({r \in S : r.day <= at}) >= MinRun
    THEN [day |-> at, date |-> DateOf(at)]
    ELSE NoMark

\* readCompleteness: the dates above the cut whose whole block was read.
ReadCompleteness(S, cut, reason) ==
  {r.date : r \in {q \in S : /\ q.day > cut
                             /\ \/ reason = "end-of-list"
                                \/ \E p \in S : p.day < q.day}}

-----------------------------------------------------------------------------
(* The withhold, and the proof that dates still mean what they did.        *)

\* Rows of R that rows of S account for, dates being shifted by o days.
Claimed(R, S, o) ==
  {r \in R : \E s \in S : s.look = r.look /\ s.date = r.date + o}

\* Fault: rows already recorded are written again.
WithholdNothing(R, S, complete) == {}

\* withholdAlreadyRecorded: the rows of R that are declined.
WithholdAlreadyRecorded(R, S, complete) ==
  Claimed({r \in R : r.date \in complete}, S, 0)

\* measureDateAlignment and alignmentProvesSameDates
AlignmentProvesSameDates(R, S, complete) ==
  LET read       == {r \in R : r.date \in complete}
      overlap(o) == Cardinality({r \in read : \E s \in S : s.date = r.date + o})
      matched(o) == Cardinality(Claimed(read, S, o))
  IN  /\ overlap(0) >= AlignRows
      /\ 2 * matched(0) >= overlap(0)
      /\ \A o \in {-1, 1} :
           overlap(o) # 0 => matched(0) * overlap(o) >= 2 * matched(o) * overlap(0)

\* listRecordedScanRows, from the day before the oldest row that was read
Recorded(R) == {s \in rows : \E r \in R : s.date >= r.date - 1}

\* dateMappingProven
DateMappingProven ==
  IF run.match # 0
    THEN run.mark.date # 0 /\ run.match = run.mark.date
    ELSE AlignmentProvesSameDates(run.new, Recorded(run.new), run.complete)

WriteRows ==
  IF DateMappingProven
    THEN run.new \ WithholdAlreadyRecorded(run.new, Recorded(run.new), run.complete)
    ELSE run.new

-----------------------------------------------------------------------------
(* One run.                                                                *)

\* The rows the sweep hunts for: none on a backfill or a dry run.
Armed == run.mark.day # 0 /\ run.kind \in {"scheduled", "collect"}

\* maxDaysBackFor, when the marker's age is known: how many days back a sweep
\* may read before it gives up on the marker.
MaxDaysBack ==
  IF Armed /\ run.gate >= run.mark.date
    THEN run.gate - run.mark.date + Margin
    ELSE ListDays

\* Whether enough of the marker is still on the list to be matched.
Refindable ==
  /\ run.mark.day \in Listed
  /\ Cardinality({r \in ListRows : r.day <= run.mark.day}) >= MinRun

\* runResourceCapturePhase up to the sweep: a scheduled run stops at the
\* once-a-day gate; the other kinds are asked for by an admin.
StartRun(kind) ==
  /\ run.pc = "idle"
  /\ IF kind = "scheduled"
       THEN cursor.gate # GameDate /\ UNCHANGED events
       ELSE Event
  /\ run' = [NoRun EXCEPT !.pc = "sweeping", !.kind = kind,
                          !.gate = GameDate, !.mark = cursor.mark]
  /\ UNCHANGED <<world, rows, cursor, batches, flagged>>

\* What captureResourceHistory hands back for the rows S, cut at a day.
Capture(S, cut, reason, match) ==
  LET read == Stamped(S)
  IN  \E at \in 0..MaxDay :
        /\ IsFirstSettled(at, read)
        /\ run' = [run EXCEPT
             !.pc = "read",
             !.new = {r \in read : r.day > cut /\ r.day <= at},
             !.complete = ReadCompleteness(read, cut, reason),
             !.reason = reason,
             !.match = match,
             !.anchor = AnchorOf(read, at, reason)]

\* A sweep takes place at an hour at which dates are what they always are,
\* or at any.
Sweeping == run.pc = "sweeping" /\ (skew = 1 \/ "hour" \in Hazards)

TooFarBack == {d \in Listed : label - d > MaxDaysBack /\ history[d] # {}}

\* The sweep meets the marker, unless it comes too far back before that.
SweepToMarker ==
  /\ Sweeping /\ Armed /\ Refindable
  /\ \A d \in TooFarBack : d <= run.mark.day
  /\ Capture(ListRows, run.mark.day, "cursor", DateOf(run.mark.day))
  /\ UNCHANGED <<world, rows, cursor, batches, flagged, events>>

\* A marker that is not on the list is missed; one that is, by a bad read.
Missed == IF Armed /\ Refindable THEN Event ELSE UNCHANGED events

\* verifyCursor: a sweep that did not hunt the marker looks for it afterwards.
Verified(S) ==
  IF ~Armed /\ Refindable /\ {r \in S : r.day = run.mark.day} # {}
    THEN {0, DateOf(run.mark.day)}
    ELSE {0}

\* The sweep reads the whole list.
SweepToEnd ==
  /\ Sweeping /\ TooFarBack = {}
  /\ Missed
  /\ \E match \in Verified(ListRows) : Capture(ListRows, 0, "end-of-list", match)
  /\ UNCHANGED <<world, rows, cursor, batches, flagged>>

\* The sweep comes further back than the marker can be.
SweepToFloor ==
  /\ Sweeping
  /\ \E d \in TooFarBack :
       /\ \A e \in TooFarBack : e <= d
       /\ IF d < run.mark.day THEN Missed ELSE UNCHANGED events
       /\ \E P \in SUBSET {r \in ListRows : r.day = d} :
            /\ P # {}
            /\ Capture({r \in ListRows : r.day > d} \cup P, 0, "date-floor", 0)
  /\ UNCHANGED <<world, rows, cursor, batches, flagged>>

\* The sweep ends anywhere: blank pages, a crashed page, the page limit, a
\* stitch that stopped aligning.
SweepCutShort ==
  /\ Sweeping /\ Event
  /\ \E d \in Listed : \E P \in SUBSET {r \in ListRows : r.day = d} :
       LET S == {r \in ListRows : r.day > d} \cup P
       IN  /\ label - d <= MaxDaysBack
           /\ \E match \in Verified(S) : Capture(S, 0, "page-limit", match)
  /\ UNCHANGED <<world, rows, cursor, batches, flagged>>

\* The history list is not reached.
NavigationFails ==
  /\ run.pc = "sweeping" /\ Event
  /\ run' = NoRun
  /\ UNCHANGED <<world, rows, cursor, batches, flagged>>

\* A dry run reports and stops.
ReportDryRun ==
  /\ run.pc = "read" /\ run.kind = "dry"
  /\ run' = NoRun
  /\ UNCHANGED <<world, rows, cursor, batches, flagged, events>>

\* Rows are written that may be there already: nothing was withheld because
\* the dates were not proven, or a day was read in part.
MayRepeat ==
  ~DateMappingProven \/ run.reason \in {"date-floor", "page-limit"}

\* createBatch and insertTransactions, when there is something to write
Record ==
  /\ run.pc = "read" /\ run.kind # "dry"
  /\ IF WriteRows = {}
       THEN UNCHANGED <<rows, batches, flagged>>
       ELSE /\ batches' = batches + 1
            /\ rows' = rows \cup {[day |-> r.day, look |-> r.look, date |-> r.date,
                                   batch |-> batches'] : r \in WriteRows}
            /\ flagged' = IF MayRepeat THEN flagged \cup {batches'} ELSE flagged
  /\ run' = [run EXCEPT !.pc = "recorded"]
  /\ UNCHANGED <<world, cursor, events>>

\* Fault: a failed insert is swallowed.
AfterSwallowed == [run EXCEPT !.pc = "recorded"]

\* The phase gives up on a failed insert.
AfterFailedInsert == NoRun

\* The insert throws: the empty batch is removed and nothing else happens.
RecordFails ==
  /\ run.pc = "read" /\ run.kind # "dry" /\ WriteRows # {}
  /\ Event
  /\ batches' = batches + 1
  /\ run' = AfterFailedInsert
  /\ UNCHANGED <<world, rows, cursor, flagged>>

\* The marker moves only when this sweep made one worth keeping.
MarkOn == IF run.anchor.day # 0 THEN run.anchor ELSE run.mark

\* persistCursor, after the crops that nothing refers to were removed
PersistCursor ==
  /\ run.pc = "recorded"
  /\ cursor' = [mark |-> MarkOn, gate |-> run.gate]
  /\ run' = NoRun
  /\ UNCHANGED <<world, rows, batches, flagged, events>>

\* The process dies and comes back.
Restart ==
  /\ run.pc # "idle" /\ Event
  /\ run' = NoRun
  /\ UNCHANGED <<world, rows, cursor, batches, flagged>>

-----------------------------------------------------------------------------
(* Admins, the game and the clocks.                                        *)

\* DELETE /batches/:batchId: deleteBatch, then clearCaptureCursor
DeleteBatch ==
  /\ run.pc = "idle" \/ "race" \in Hazards
  /\ Event
  /\ \E b \in {r.batch : r \in rows} : rows' = {r \in rows : r.batch # b}
  /\ cursor' = NoCursor
  /\ UNCHANGED <<world, batches, run, flagged>>

\* The game merges contributions into the rows of today.
Contribute ==
  /\ \E L \in SUBSET Looks : history' = [history EXCEPT ![label] = L]
  /\ UNCHANGED <<label, skew, rows, cursor, batches, run, flagged, events>>

\* Bound: a run is over within a day.
NoOldRun == run.pc = "idle" \/ run.gate = GameDate

\* 17:00 UTC
GameTick ==
  /\ skew = 0 /\ NoOldRun
  /\ skew' = 1
  /\ UNCHANGED <<label, history, rows, cursor, batches, run, flagged, events>>

\* The account's midnight: today is settled.
LabelTick ==
  /\ skew = 1 /\ label < MaxDay /\ NoOldRun
  /\ label' = label + 1
  /\ skew' = 0
  /\ UNCHANGED <<history, rows, cursor, batches, run, flagged, events>>

-----------------------------------------------------------------------------
Init ==
  /\ label = 1 /\ skew = 0
  /\ history = [d \in Days |-> {}]
  /\ rows = {} /\ cursor = NoCursor /\ batches = 0
  /\ run = NoRun
  /\ flagged = {} /\ events = MaxEvents

Sweep == SweepToMarker \/ SweepToEnd \/ SweepToFloor \/ SweepCutShort

Next ==
  \/ \E kind \in Kinds : StartRun(kind)
  \/ Sweep \/ NavigationFails
  \/ ReportDryRun \/ Record \/ RecordFails \/ PersistCursor \/ Restart
  \/ DeleteBatch
  \/ Contribute \/ GameTick \/ LabelTick

Spec == Init /\ [][Next]_vars

\* The clocks tick, the loop comes round, and what a run does ends.
FairSpec ==
  /\ Spec
  /\ WF_vars(GameTick) /\ WF_vars(LabelTick)
  /\ WF_vars(StartRun("scheduled"))
  /\ WF_vars(Sweep)
  /\ WF_vars(ReportDryRun) /\ WF_vars(Record) /\ WF_vars(PersistCursor)

-----------------------------------------------------------------------------
(* Properties.                                                             *)

Row  == [day : Days, look : Looks, date : Dates]
Mark == [day : 0..MaxDay, date : 0..(MaxDay + 1)]
RunRecord ==
  [pc : {"idle", "sweeping", "read", "recorded"}, kind : Kinds,
   gate : 0..(MaxDay + 1), mark : Mark, new : SUBSET Row,
   complete : SUBSET Dates, match : 0..(MaxDay + 1), reason : Reasons,
   anchor : Mark]

\* Types of the state.
TypeOK ==
  /\ label \in Days /\ skew \in {0, 1}
  /\ history \in [Days -> SUBSET Looks]
  /\ rows \subseteq [day : Days, look : Looks, date : Dates, batch : Nat]
  /\ cursor \in [mark : Mark, gate : 0..(MaxDay + 1)]
  /\ batches \in Nat /\ flagged \subseteq Nat
  /\ run \in RunRecord
  /\ events \in 0..MaxEvents

HasRow(d, l) == \E r \in rows : r.day = d /\ r.look = l

\* "The marker is a promise that everything BELOW it has been recorded"
\* (resource-sweep-rules.ts): whatever failed, crashed or was cut short, no
\* row the list still shows at or below the stored marker is missing on disk.
MarkerPromise ==
  \A d \in Listed : d <= cursor.mark.day => \A l \in history[d] : HasRow(d, l)

\* A game day is written once it is closed, as the game left it: no recorded
\* row is one the game still merged into after it was read.
RecordedIsSettled ==
  \A r \in rows : r.day < label /\ r.look \in history[r.day]

\* The same row of the game is recorded twice only by a batch whose dates were
\* not proven to mean what those on disk mean, or that was cut short.
RepeatsAreExplained ==
  \A r, s \in rows :
    r.day = s.day /\ r.look = s.look /\ r.batch < s.batch => s.batch \in flagged

\* Once nothing fails any more and a day is still to come, every settled day
\* that the list shows gets recorded, whatever was lost before.
CatchesUp ==
  (events = 0 /\ label < MaxDay)
    ~> (\A d \in Listed \ {label} : \A l \in history[d] : HasRow(d, l))
=============================================================================
