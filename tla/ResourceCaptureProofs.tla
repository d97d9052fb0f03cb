----------------------- MODULE ResourceCaptureProofs -----------------------
(***************************************************************************)
(* Proofs about ResourceCapture, for every list length, every number of    *)
(* looks, days and failures.                                               *)
(*                                                                         *)
(* What a run hands back is described once (CaptureShape): settled rows of *)
(* the list, each dated by its own day, and an anchor only where nothing   *)
(* was skipped.  The marker's promise is inductive once it is stated for   *)
(* the marker the run started from, for the anchor of what was read, and   *)
(* for the anchor of what was recorded (PromiseInv).                       *)
(***************************************************************************)
EXTENDS ResourceCapture, FiniteSetTheorems, TLAPS

-----------------------------------------------------------------------------
(* Types.                                                                  *)

LEMMA NoneTyped ==
  /\ NoMark \in Mark /\ NoRun \in RunRecord
  /\ NoCursor \in [mark : Mark, gate : 0..(MaxDay + 1)]
BY CaptureAssumption DEF NoMark, Mark, NoRun, RunRecord, NoCursor, Kinds, Reasons

\* A listed row is dated the day it is of or the day after.
LEMMA DateTyped ==
  ASSUME TypeOK, NEW d \in Days
  PROVE  DateOf(d) = d + skew /\ DateOf(d) \in Dates /\ GameDate \in Dates
BY CaptureAssumption DEF TypeOK, DateOf, GameDate, Dates, Days

LEMMA StampedTyped ==
  ASSUME TypeOK, NEW S, S \subseteq ListRows
  PROVE  /\ Stamped(S) \subseteq Row
         /\ \A r \in Stamped(S) :
              /\ r.day \in Listed /\ r.look \in history[r.day]
              /\ r.date = DateOf(r.day) /\ [day |-> r.day, look |-> r.look] \in S
         /\ \A q \in S : /\ q.day \in Listed /\ q.look \in Looks
                         /\ [day |-> q.day, look |-> q.look, date |-> DateOf(q.day)]
                              \in Stamped(S)
<1>1. ASSUME NEW q \in S
      PROVE  /\ q.day \in Listed /\ q.day \in Days /\ q.look \in Looks
             /\ q.look \in history[q.day] /\ q = [day |-> q.day, look |-> q.look]
  BY <1>1 DEF ListRows, Listed
<1> QED
  BY <1>1, DateTyped DEF Stamped, Row

\* What a sweep hands back, wherever it was cut and whyever it stopped.
LEMMA CaptureShape ==
  ASSUME TypeOK, NEW S, S \subseteq ListRows, NEW cut \in 0..MaxDay,
         NEW reason \in Reasons, NEW match \in 0..(MaxDay + 1),
         Capture(S, cut, reason, match)
  PROVE  /\ run' \in RunRecord
         /\ run'.pc = "read" /\ run'.kind = run.kind /\ run'.gate = run.gate
         /\ run'.mark = run.mark /\ run'.reason = reason /\ run'.match = match
         /\ run'.complete = ReadCompleteness(Stamped(S), cut, reason)
         /\ \A r \in run'.new :
              /\ r \in Stamped(S) /\ r.day \in Listed /\ r.day < label /\ cut < r.day
              /\ r.look \in history[r.day] /\ r.date = DateOf(r.day)
         /\ run'.anchor.day < label
         /\ run'.anchor.day # 0 =>
              /\ AnchorSafe(reason) /\ run'.anchor.date = DateOf(run'.anchor.day)
              /\ \A r \in Stamped(S) :
                   cut < r.day /\ r.day <= run'.anchor.day => r \in run'.new
<1> DEFINE read == Stamped(S)
<1>1. PICK at \in 0..MaxDay :
        /\ IsFirstSettled(at, read)
        /\ run' = [run EXCEPT
             !.pc = "read",
             !.new = {r \in read : r.day > cut /\ r.day <= at},
             !.complete = ReadCompleteness(read, cut, reason),
             !.reason = reason,
             !.match = match,
             !.anchor = AnchorOf(read, at, reason)]
  BY DEF Capture
<1>2. /\ read \subseteq Row
      /\ \A r \in read : /\ r.day \in Listed /\ r.look \in history[r.day]
                         /\ r.date = DateOf(r.day)
  BY StampedTyped
<1> HIDE DEF read
<1>3. at < label
  <2>1. CASE at = 0
    BY <2>1 DEF TypeOK, Days
  <2>2. CASE at # 0
    <3>1. PICK r \in read : r.date # GameDate /\ r.day = at
      BY <1>1, <2>2 DEF IsFirstSettled, OpenDates
    <3> QED
      BY <1>2, <3>1 DEF DateOf, GameDate, Listed, Days, TypeOK
  <2> QED
    BY <2>1, <2>2
<1>4. ReadCompleteness(read, cut, reason) \subseteq Dates
  BY <1>2 DEF ReadCompleteness, Row
<1>5. AnchorOf(read, at, reason) \in Mark
  <2>1. CASE at = 0
    BY <2>1, NoneTyped DEF AnchorOf
  <2>2. CASE at # 0
    BY <2>2, NoneTyped, DateTyped, CaptureAssumption DEF AnchorOf, Mark, Days, Dates
  <2> QED
    BY <2>1, <2>2
<1>6. /\ run' \in RunRecord
      /\ run'.pc = "read" /\ run'.kind = run.kind /\ run'.gate = run.gate
      /\ run'.mark = run.mark /\ run'.reason = reason /\ run'.match = match
      /\ run'.complete = ReadCompleteness(read, cut, reason)
      /\ run'.new = {r \in read : r.day > cut /\ r.day <= at}
      /\ run'.anchor = AnchorOf(read, at, reason)
  BY <1>1, <1>2, <1>4, <1>5 DEF TypeOK, RunRecord
<1>7. /\ run'.anchor.day < label
      /\ run'.anchor.day # 0 =>
           /\ AnchorSafe(reason) /\ run'.anchor.date = DateOf(run'.anchor.day)
           /\ run'.anchor.day = at
  BY <1>3, <1>6, CaptureAssumption DEF AnchorOf, NoMark, TypeOK, Days
<1>8. \A r \in run'.new :
        /\ r \in read /\ r.day \in Listed /\ r.day < label /\ cut < r.day
        /\ r.look \in history[r.day] /\ r.date = DateOf(r.day)
  BY <1>2, <1>3, <1>6 DEF Listed, Days, TypeOK
<1> QED
  BY <1>6, <1>7, <1>8 DEF read

\* Every sweep hands back rows of the list, and says truly why it stopped.
Swept(S, cut, reason, match) ==
  /\ S \subseteq ListRows
  /\ Capture(S, cut, reason, match)
  /\ match # 0 => run.mark.day \in Listed /\ match = DateOf(run.mark.day)
  /\ \/ /\ reason = "cursor" /\ S = ListRows /\ cut = run.mark.day
        /\ Armed /\ Refindable /\ match # 0
     \/ /\ reason = "end-of-list" /\ S = ListRows /\ cut = 0
     \/ /\ reason = "date-floor" /\ cut = 0
        /\ \E d \in TooFarBack : \A r \in ListRows : r.day > d => r \in S
     \/ /\ reason = "page-limit" /\ cut = 0

LEMMA SweepShape ==
  ASSUME TypeOK, Sweep
  PROVE  /\ \E S \in SUBSET ListRows, cut \in 0..MaxDay, reason \in Reasons,
              match \in 0..(MaxDay + 1) : Swept(S, cut, reason, match)
         /\ Sweeping
         /\ UNCHANGED <<world, rows, cursor, batches, flagged>>
         /\ events' \in 0..MaxEvents
<1>1. ASSUME NEW d \in Days
      PROVE  DateOf(d) \in 0..(MaxDay + 1) /\ DateOf(d) # 0
  <2>1. DateOf(d) \in Dates
    BY DateTyped
  <2> QED
    BY <2>1, CaptureAssumption DEF Dates
<1>2. Listed \subseteq Days /\ run.mark.day \in 0..MaxDay /\ 0 \in 0..MaxDay
  BY CaptureAssumption DEF Listed, TypeOK, RunRecord, Mark
<1>3. (events' = events \/ Event) => events' \in 0..MaxEvents
  BY CaptureAssumption DEF Event, TypeOK
<1>4. ASSUME NEW S, NEW match \in Verified(S)
      PROVE  /\ match \in 0..(MaxDay + 1)
             /\ match # 0 => run.mark.day \in Listed /\ match = DateOf(run.mark.day)
  BY <1>1, <1>2, <1>4, CaptureAssumption DEF Verified, Refindable
<1>5. CASE SweepToMarker
  <2>1. /\ run.mark.day \in Listed /\ Sweeping /\ Armed /\ Refindable
        /\ Capture(ListRows, run.mark.day, "cursor", DateOf(run.mark.day))
        /\ UNCHANGED <<world, rows, cursor, batches, flagged, events>>
    BY <1>5 DEF SweepToMarker, Refindable
  <2>2. Swept(ListRows, run.mark.day, "cursor", DateOf(run.mark.day))
    BY <1>1, <1>2, <2>1 DEF Swept
  <2> QED
    BY <1>1, <1>2, <1>3, <2>1, <2>2 DEF Reasons
<1>6. CASE SweepToEnd
  <2>1. PICK match \in Verified(ListRows) : Capture(ListRows, 0, "end-of-list", match)
    BY <1>6 DEF SweepToEnd
  <2>2. Swept(ListRows, 0, "end-of-list", match) /\ match \in 0..(MaxDay + 1)
    BY <1>4, <2>1 DEF Swept
  <2> QED
    BY <1>2, <1>3, <1>6, <2>2 DEF Reasons, SweepToEnd, Missed
<1>7. CASE SweepToFloor
  <2>1. PICK d \in TooFarBack, P \in SUBSET ListRows :
          Capture({r \in ListRows : r.day > d} \cup P, 0, "date-floor", 0)
    BY <1>7 DEF SweepToFloor
  <2>2. /\ Swept({r \in ListRows : r.day > d} \cup P, 0, "date-floor", 0)
        /\ {r \in ListRows : r.day > d} \cup P \in SUBSET ListRows
    BY <2>1 DEF Swept
  <2>3. events' = events \/ Event
    BY <1>7 DEF SweepToFloor, Missed
  <2>4. 0 \in 0..(MaxDay + 1) /\ "date-floor" \in Reasons
    BY CaptureAssumption DEF Reasons
  <2>5. Sweeping /\ UNCHANGED <<world, rows, cursor, batches, flagged>>
    BY <1>7 DEF SweepToFloor
  <2> QED
    BY <1>2, <1>3, <2>2, <2>3, <2>4, <2>5
<1>8. CASE SweepCutShort
  <2>1. PICK d \in Listed, P \in SUBSET ListRows :
          \E match \in Verified({r \in ListRows : r.day > d} \cup P) :
            Capture({r \in ListRows : r.day > d} \cup P, 0, "page-limit", match)
    BY <1>8 DEF SweepCutShort
  <2> DEFINE S == {r \in ListRows : r.day > d} \cup P
  <2>2. PICK match \in Verified(S) : Capture(S, 0, "page-limit", match)
    BY <2>1
  <2>3. /\ S \in SUBSET ListRows /\ match \in 0..(MaxDay + 1)
        /\ match # 0 => run.mark.day \in Listed /\ match = DateOf(run.mark.day)
    BY <1>4, <2>2
  <2>4. Swept(S, 0, "page-limit", match)
    BY <2>2, <2>3 DEF Swept
  <2> HIDE DEF S
  <2> QED
    BY <1>2, <1>3, <1>8, <2>3, <2>4 DEF Reasons, SweepCutShort
<1> QED
  BY <1>5, <1>6, <1>7, <1>8 DEF Sweep

LEMMA InitTyped == Init => TypeOK
BY NoneTyped, CaptureAssumption DEF Init, TypeOK, Days, Dates

LEMMA StepTyped == ASSUME TypeOK, [Next]_vars PROVE TypeOK'
<1> USE DEF TypeOK
<1>1. ASSUME NEW kind \in Kinds, StartRun(kind) PROVE TypeOK'
  <2>1. GameDate \in 0..(MaxDay + 1)
    BY DateTyped, CaptureAssumption DEF Dates, Days
  <2>2. run' \in RunRecord
    BY <1>1, <2>1, NoneTyped DEF StartRun, RunRecord
  <2> QED
    BY <1>1, <2>2, CaptureAssumption DEF StartRun, Event, world
<1>2. CASE Sweep
  <2>1. run' \in RunRecord
    BY <1>2, SweepShape, CaptureShape DEF Swept
  <2> QED
    BY <1>2, <2>1, SweepShape DEF world
<1>3. CASE NavigationFails \/ ReportDryRun \/ Restart
  <2>1. /\ run' = NoRun /\ (events' = events \/ Event)
        /\ UNCHANGED <<label, skew, history, rows, cursor, batches, flagged>>
    BY <1>3 DEF NavigationFails, ReportDryRun, Restart, world
  <2> QED
    BY <2>1, NoneTyped, CaptureAssumption DEF Event
<1>4. CASE Record
  <2>1. /\ \A r \in WriteRows : r \in Row
        /\ run' = [run EXCEPT !.pc = "recorded"]
        /\ UNCHANGED <<world, cursor, events>>
    BY <1>4 DEF Record, WriteRows, RunRecord
  <2>2. /\ rows' \subseteq [day : Days, look : Looks, date : Dates, batch : Nat]
        /\ batches' \in Nat /\ flagged' \subseteq Nat
    BY <1>4, <2>1 DEF Record, Row
  <2> QED
    BY <2>1, <2>2 DEF world, RunRecord
<1>5. CASE RecordFails
  BY <1>5, NoneTyped, CaptureAssumption DEF RecordFails, AfterFailedInsert, Event, world
<1>6. CASE PersistCursor
  BY <1>6, NoneTyped DEF PersistCursor, MarkOn, RunRecord, world
<1>7. CASE DeleteBatch
  BY <1>7, NoneTyped, CaptureAssumption DEF DeleteBatch, Event, world
<1>8. CASE Contribute
  BY <1>8 DEF Contribute
<1>9. CASE GameTick \/ LabelTick
  <2>1. /\ label' \in Days /\ skew' \in {0, 1}
        /\ UNCHANGED <<history, rows, cursor, batches, run, flagged, events>>
    BY <1>9, CaptureAssumption DEF GameTick, LabelTick, Days
  <2> QED
    BY <2>1
<1>10. CASE UNCHANGED vars
  BY <1>10 DEF vars, world
<1> QED
  BY <1>1, <1>2, <1>3, <1>4, <1>5, <1>6, <1>7, <1>8, <1>9, <1>10 DEF Next

\* The variables of a run, of the disk and of the world keep their types, for
\* every list, every bound and every hazard (resource-capture-phase.ts).
THEOREM CaptureTypesCorrect == Spec => []TypeOK
BY InitTyped, StepTyped, PTL DEF Spec

-----------------------------------------------------------------------------
(* Only settled rows are written.                                          *)

Settled(r) == r.day < label /\ r.look \in history[r.day]

SettledInv ==
  /\ \A r \in rows : Settled(r)
  /\ \A r \in run.new : Settled(r)

LEMMA WrittenWereRead == WriteRows \subseteq run.new
BY DEF WriteRows

\* What Record leaves behind.
LEMMA RecordShape ==
  ASSUME TypeOK, Record
  PROVE  /\ rows \subseteq rows'
         /\ \A r \in rows' \ rows :
              /\ [day |-> r.day, look |-> r.look, date |-> r.date] \in run.new
              /\ r.batch = batches + 1 /\ batches' = batches + 1
         /\ \A q \in WriteRows :
              [day |-> q.day, look |-> q.look, date |-> q.date,
               batch |-> batches + 1] \in rows'
         /\ run.pc = "read" /\ run' = [run EXCEPT !.pc = "recorded"]
         /\ UNCHANGED <<label, skew, history, cursor, events>>
<1>1. CASE WriteRows = {}
  BY <1>1 DEF Record, world
<1>2. CASE WriteRows # {}
  <2>1. /\ batches' = batches + 1
        /\ rows' = rows \cup {[day |-> r.day, look |-> r.look, date |-> r.date,
                              batch |-> batches + 1] : r \in WriteRows}
    BY <1>2 DEF Record
  <2>2. \A q \in WriteRows :
          q \in run.new /\ [day |-> q.day, look |-> q.look, date |-> q.date] = q
    BY WrittenWereRead DEF TypeOK, RunRecord, Row
  <2>3. \A r \in rows' \ rows :
          /\ [day |-> r.day, look |-> r.look, date |-> r.date] \in run.new
          /\ r.batch = batches + 1
    BY <2>1, <2>2
  <2>4. /\ run.pc = "read" /\ run' = [run EXCEPT !.pc = "recorded"]
        /\ UNCHANGED <<label, skew, history, cursor, events>>
    BY <1>2 DEF Record, world
  <2> QED
    BY <2>1, <2>3, <2>4
<1> QED
  BY <1>1, <1>2

LEMMA SettledStep ==
  ASSUME TypeOK, SettledInv, [Next]_vars PROVE SettledInv'
<1> USE DEF SettledInv, Settled
<1>1. CASE \E kind \in Kinds : StartRun(kind)
  BY <1>1 DEF StartRun, NoRun, world
<1>2. CASE Sweep
  <2>1. \A r \in run'.new : r.day < label /\ r.look \in history[r.day]
    BY <1>2, SweepShape, CaptureShape DEF Swept
  <2> QED
    BY <1>2, <2>1, SweepShape DEF world
<1>3. CASE NavigationFails \/ ReportDryRun \/ Restart \/ RecordFails \/ PersistCursor
  BY <1>3 DEF NavigationFails, ReportDryRun, Restart, RecordFails,
              AfterFailedInsert, PersistCursor, NoRun, world
<1>4. CASE Record
  <2>1. ASSUME NEW r \in rows'
        PROVE  r.day < label /\ r.look \in history[r.day]
    <3>1. CASE r \in rows
      BY <3>1
    <3>2. CASE r \notin rows
      <4>1. [day |-> r.day, look |-> r.look, date |-> r.date] \in run.new
        BY <1>4, <3>2, RecordShape
      <4> QED
        BY <4>1
    <3> QED
      BY <3>1, <3>2
  <2>2. run'.new = run.new /\ label' = label /\ history' = history
    BY <1>4, RecordShape DEF TypeOK, RunRecord
  <2> QED
    BY <2>1, <2>2
<1>5. CASE DeleteBatch
  BY <1>5 DEF DeleteBatch, world
<1>6. CASE Contribute
  BY <1>6 DEF Contribute, TypeOK, RunRecord, Row, Days
<1>7. CASE GameTick \/ LabelTick
  <2>1. /\ label' \in Int /\ label' >= label
        /\ rows' = rows /\ run' = run /\ history' = history
    BY <1>7 DEF GameTick, LabelTick, TypeOK, Days
  <2> QED
    BY <2>1 DEF TypeOK, RunRecord, Row, Days
<1>8. CASE UNCHANGED vars
  BY <1>8 DEF vars, world
<1> QED
  BY <1>1, <1>2, <1>3, <1>4, <1>5, <1>6, <1>7, <1>8 DEF Next

\* A game day is written once it is closed, as the game left it, whatever the
\* hour of the sweep, the failures and the deletions (the open-date rule of
\* resource-sweep-rules.ts).
THEOREM DaysAreWrittenClosed == Spec => []RecordedIsSettled
<1>1. Init => SettledInv
  BY DEF Init, SettledInv, NoRun
<1>2. SettledInv => RecordedIsSettled
  BY DEF SettledInv, Settled, RecordedIsSettled
<1> QED
  BY <1>1, <1>2, SettledStep, CaptureTypesCorrect, PTL DEF Spec

-----------------------------------------------------------------------------
(* Dates mean the same in every run, when every sweep takes place between  *)
(* 17:00 UTC and the account's midnight.                                   *)

ReadAs(mark) ==
  /\ mark.day < label
  /\ mark.day = 0 => mark.date = 0
  /\ mark.day # 0 => mark.date = mark.day + 1

DatesInv ==
  /\ \A r \in rows : r.date = r.day + 1
  /\ \A r \in run.new : r.date = r.day + 1
  /\ ReadAs(cursor.mark) /\ ReadAs(run.mark)
  /\ run.anchor.day # 0 => ReadAs(run.anchor)
  /\ run.pc # "idle" => run.gate \in {GameDate - 1, GameDate}
  /\ run.match # 0 => run.match = run.mark.date

LEMMA NoRunDated ==
  ASSUME TypeOK
  PROVE  /\ ReadAs(NoMark) /\ NoRun.new = {} /\ NoRun.mark = NoMark
         /\ NoRun.anchor.day = 0 /\ NoRun.pc = "idle" /\ NoRun.match = 0
         /\ NoCursor.mark = NoMark
BY DEF ReadAs, NoMark, NoRun, NoCursor, TypeOK, Days

LEMMA DatesSweep ==
  ASSUME "hour" \notin Hazards, TypeOK, DatesInv, Sweep PROVE DatesInv'
<1>1. skew = 1 /\ \A d \in Days : DateOf(d) = d + 1
  BY SweepShape, DateTyped DEF Sweeping
<1>2. PICK S \in SUBSET ListRows, cut \in 0..MaxDay, reason \in Reasons,
           match \in 0..(MaxDay + 1) : Swept(S, cut, reason, match)
  BY SweepShape
<1>3. Capture(S, cut, reason, match)
      /\ (match # 0 => run.mark.day \in Listed /\ match = DateOf(run.mark.day))
  BY <1>2 DEF Swept
<1>4. /\ run' \in RunRecord
      /\ run'.gate = run.gate /\ run'.mark = run.mark /\ run'.match = match
      /\ \A r \in run'.new : r.day \in Listed /\ r.date = DateOf(r.day)
      /\ run'.anchor.day < label
      /\ run'.anchor.day # 0 => run'.anchor.date = DateOf(run'.anchor.day)
  BY <1>3, CaptureShape
<1>5. /\ label' = label /\ skew' = skew /\ rows' = rows /\ cursor' = cursor
      /\ run.pc = "sweeping"
  BY SweepShape DEF world, Sweeping
<1>6. /\ ReadAs(cursor.mark)' /\ ReadAs(run.mark)'
      /\ run'.gate \in {GameDate' - 1, GameDate'}
  BY <1>4, <1>5 DEF DatesInv, ReadAs, GameDate
<1>7. \A r \in run'.new : r.date = r.day + 1
  BY <1>1, <1>4 DEF Listed
<1>8. run'.anchor.day # 0 => ReadAs(run.anchor)'
  BY <1>1, <1>4, <1>5, CaptureAssumption DEF ReadAs, RunRecord, Mark, Days
<1>9. match # 0 => match = run.mark.date
  BY <1>1, <1>3 DEF DatesInv, ReadAs, Listed, Days
<1> QED
  BY <1>4, <1>5, <1>6, <1>7, <1>8, <1>9 DEF DatesInv

LEMMA DatesStep ==
  ASSUME "hour" \notin Hazards, TypeOK, DatesInv, [Next]_vars PROVE DatesInv'
<1>1. CASE \E kind \in Kinds : StartRun(kind)
  <2>1. PICK kind \in Kinds : StartRun(kind)
    BY <1>1
  <2>2. /\ run'.new = {} /\ run'.mark = cursor.mark /\ run'.anchor = NoMark
        /\ run'.gate = GameDate /\ run'.match = 0
        /\ UNCHANGED <<label, skew, rows, cursor>>
    BY <2>1 DEF StartRun, NoRun, world
  <2> QED
    BY <2>2 DEF DatesInv, ReadAs, NoMark, GameDate
<1>2. CASE Sweep
  BY <1>2, DatesSweep
<1>3. CASE NavigationFails \/ ReportDryRun \/ Restart \/ RecordFails
  <2>1. run' = NoRun /\ UNCHANGED <<label, skew, rows, cursor>>
    BY <1>3 DEF NavigationFails, ReportDryRun, Restart, RecordFails,
                AfterFailedInsert, world
  <2> QED
    BY <2>1, NoRunDated DEF DatesInv, ReadAs
<1>4. CASE Record
  <2>0. UNCHANGED <<label, skew, cursor>>
    BY <1>4, RecordShape
  <2>1. ASSUME NEW r \in rows' PROVE r.date = r.day + 1
    <3>1. CASE r \in rows
      BY <3>1 DEF DatesInv
    <3>2. CASE r \notin rows
      <4>1. [day |-> r.day, look |-> r.look, date |-> r.date] \in run.new
        BY <1>4, <3>2, RecordShape
      <4> QED
        BY <4>1 DEF DatesInv
    <3> QED
      BY <3>1, <3>2
  <2>2. /\ run'.new = run.new /\ run'.mark = run.mark /\ run'.anchor = run.anchor
        /\ run'.gate = run.gate /\ run'.match = run.match /\ run.pc = "read"
    BY <1>4, RecordShape DEF TypeOK, RunRecord
  <2> QED
    BY <2>0, <2>1, <2>2 DEF DatesInv, ReadAs, GameDate
<1>5. CASE PersistCursor
  <2>1. /\ run' = NoRun /\ UNCHANGED <<label, skew, rows>>
        /\ cursor'.mark = (IF run.anchor.day # 0 THEN run.anchor ELSE run.mark)
    BY <1>5 DEF PersistCursor, MarkOn, world
  <2> QED
    BY <2>1, NoRunDated DEF DatesInv, ReadAs
<1>6. CASE DeleteBatch
  <2>1. /\ rows' \subseteq rows /\ cursor' = NoCursor
        /\ UNCHANGED <<label, skew, run>>
    BY <1>6 DEF DeleteBatch, world
  <2> QED
    BY <2>1, NoRunDated DEF DatesInv, ReadAs, GameDate
<1>7. CASE Contribute
  BY <1>7 DEF Contribute, DatesInv, ReadAs, GameDate
<1>8. CASE GameTick \/ LabelTick
  <2>1. /\ UNCHANGED <<rows, cursor, run>>
        /\ label' \in {label, label + 1} /\ GameDate' \in {GameDate, GameDate + 1}
        /\ run.pc = "idle" \/ run.gate = GameDate
        /\ label \in Int /\ GameDate \in Int
    BY <1>8 DEF GameTick, LabelTick, NoOldRun, GameDate, TypeOK, Days
  <2>2. \A m \in Mark : ReadAs(m) => ReadAs(m)'
    BY <2>1, CaptureAssumption DEF ReadAs, Mark
  <2>3. cursor.mark \in Mark /\ run.mark \in Mark /\ run.anchor \in Mark
    BY DEF TypeOK, RunRecord
  <2>4. ReadAs(cursor.mark)' /\ ReadAs(run.mark)'
        /\ (run.anchor.day # 0 => ReadAs(run.anchor)')
    BY <2>1, <2>3, CaptureAssumption DEF ReadAs, Mark, DatesInv
  <2> QED
    BY <2>1, <2>4 DEF DatesInv
<1>9. CASE UNCHANGED vars
  BY <1>9 DEF vars, world, DatesInv, ReadAs, GameDate
<1> QED
  BY <1>1, <1>2, <1>3, <1>4, <1>5, <1>6, <1>7, <1>8, <1>9 DEF Next

LEMMA DatesInit == Init => DatesInv
BY CaptureAssumption DEF Init, DatesInv, ReadAs, NoRun, NoMark, NoCursor

-----------------------------------------------------------------------------
(* The marker's promise.                                                   *)

PromiseUpTo(n) == \A d \in Listed : d <= n => \A l \in history[d] : HasRow(d, l)

\* What a run that has read but not yet recorded owes up to its anchor.
OwedUpTo(n) ==
  \A d \in Listed : d <= n =>
    \A l \in history[d] :
      HasRow(d, l) \/ \E r \in run.new : r.day = d /\ r.look = l

PromiseInv ==
  /\ PromiseUpTo(cursor.mark.day)
  /\ PromiseUpTo(run.mark.day)
  /\ run.pc = "read" => OwedUpTo(run.anchor.day)
  /\ run.pc = "recorded" => PromiseUpTo(run.anchor.day)
  /\ run.pc = "idle" => run.mark.day = 0

LEMMA NothingBelowZero ==
  PromiseUpTo(0) /\ OwedUpTo(0)
BY DEF PromiseUpTo, OwedUpTo, Listed, Days

\* Promises about days before today outlive whatever keeps rows and the past.
LEMMA PromiseLasts ==
  ASSUME TypeOK, NEW n \in 0..MaxDay, n < label,
         rows \subseteq rows', run' = run, label' \in {label, label + 1},
         \A d \in Days : d < label => history'[d] = history[d]
  PROVE  /\ PromiseUpTo(n) => PromiseUpTo(n)'
         /\ OwedUpTo(n) => OwedUpTo(n)'
<1>1. ASSUME NEW d \in Listed', d <= n
      PROVE  d \in Listed /\ d < label /\ d \in Days
  <2>1. d \in Days /\ d > label' - ListDays
    BY <1>1 DEF Listed
  <2>2. d \in Nat /\ label \in Nat /\ n \in Nat /\ ListDays \in Nat
    BY <2>1, CaptureAssumption DEF Days, TypeOK
  <2>3. label' = label \/ label' = label + 1
    OBVIOUS
  <2>4. d < label
    BY <1>1, <2>2
  <2>5. d > label - ListDays
    <3>1. CASE label' = label
      BY <2>1, <3>1
    <3>2. CASE label' = label + 1
      <4>1. d > (label + 1) - ListDays
        BY <2>1, <3>2
      <4> QED
        BY <2>2, <4>1
    <3> QED
      BY <2>3, <3>1, <3>2
  <2> QED
    BY <2>1, <2>2, <2>4, <2>5 DEF Listed
<1> QED
  BY <1>1 DEF PromiseUpTo, OwedUpTo, HasRow

\* The anchor of a sweep owes nothing that it neither read nor has on disk.
LEMMA SweepOwes ==
  ASSUME Hazards = {}, TypeOK, DatesInv, PromiseInv, Sweep
  PROVE  OwedUpTo(run.anchor.day)'
<1>1. PICK S \in SUBSET ListRows, cut \in 0..MaxDay, reason \in Reasons,
           match \in 0..(MaxDay + 1) : Swept(S, cut, reason, match)
  BY SweepShape
<1>2. /\ UNCHANGED <<label, skew, history, rows>>
      /\ skew = 1 /\ run.pc = "sweeping"
  BY SweepShape DEF world, Sweeping
<1>3. /\ run'.anchor.day # 0 => AnchorSafe(reason)
      /\ run'.anchor.day # 0 =>
           \A r \in Stamped(S) :
             cut < r.day /\ r.day <= run'.anchor.day => r \in run'.new
  BY <1>1, CaptureShape DEF Swept
<1>4. Listed' = Listed
  BY <1>2 DEF Listed
<1>5. SUFFICES ASSUME NEW d \in Listed, d <= run'.anchor.day, NEW l \in history[d]
               PROVE  HasRow(d, l) \/ \E r \in run'.new : r.day = d /\ r.look = l
  BY <1>2, <1>4 DEF OwedUpTo, HasRow
<1>6. /\ d \in Days /\ d # 0 /\ l \in Looks
      /\ [day |-> d, look |-> l] \in ListRows
  BY <1>5 DEF Listed, Days, TypeOK, ListRows
<1>7. run'.anchor.day # 0
  BY <1>5, CaptureAssumption DEF Listed, Days
\* A row that was read above the cut is new.
<1>8. ASSUME cut < d, [day |-> d, look |-> l] \in S
      PROVE  \E r \in run'.new : r.day = d /\ r.look = l
  <2> DEFINE r == [day |-> d, look |-> l, date |-> DateOf(d)]
  <2>1. r \in Stamped(S)
    BY <1>8 DEF Stamped
  <2>2. r \in run'.new
    BY <1>3, <1>5, <1>7, <1>8, <2>1
  <2> QED
    BY <2>2
<1>9. ASSUME d <= run.mark.day PROVE HasRow(d, l)
  BY <1>5, <1>9 DEF PromiseInv, PromiseUpTo
<1>10. CASE reason = "cursor"
  <2>1. S = ListRows /\ cut = run.mark.day
    BY <1>1, <1>10 DEF Swept
  <2> QED
    BY <1>6, <1>8, <1>9, <2>1, CaptureAssumption DEF Days
<1>11. CASE reason = "end-of-list"
  <2>1. S = ListRows /\ cut = 0
    BY <1>1, <1>11 DEF Swept
  <2> QED
    BY <1>6, <1>8, <2>1, CaptureAssumption DEF Days
<1>12. CASE reason = "date-floor"
  <2>1. cut = 0
    BY <1>1, <1>12 DEF Swept
  <2>2. PICK e \in TooFarBack : \A r \in ListRows : r.day > e => r \in S
    BY <1>1, <1>12 DEF Swept
  <2>3. e \in Listed /\ label - e > MaxDaysBack
    BY <2>2 DEF TooFarBack
  <2>4. CASE d > e
    BY <1>6, <1>8, <2>1, <2>2, <2>4, CaptureAssumption DEF Days
  <2>5. CASE ~(d > e)
    <3>1. ~(MaxDaysBack = ListDays)
      BY <2>3, CaptureAssumption DEF Listed, TypeOK, Days
    <3>2. Armed /\ MaxDaysBack = run.gate - run.mark.date + Margin
      BY <3>1 DEF MaxDaysBack
    <3>3. /\ run.mark.date = run.mark.day + 1
          /\ run.gate \in {label, label + 1}
      BY <1>2, <3>2, CaptureAssumption DEF DatesInv, ReadAs, Armed, GameDate, TypeOK, Days
    <3>4. run.mark.day \in Nat /\ label \in Nat /\ e \in Nat /\ d \in Nat
      BY <1>6, <2>3, CaptureAssumption DEF TypeOK, RunRecord, Mark, Days, Listed
    <3>5. e < run.mark.day
      BY <2>3, <3>2, <3>3, <3>4, CaptureAssumption
    <3> QED
      BY <1>9, <2>5, <3>4, <3>5
  <2> QED
    BY <2>4, <2>5
<1>13. CASE reason = "page-limit"
  BY <1>3, <1>7, <1>13 DEF AnchorSafe
<1> QED
  BY <1>10, <1>11, <1>12, <1>13 DEF Reasons

\* Recording pays what a run owes: a row that is withheld is one already there.
LEMMA RecordPays ==
  ASSUME "hour" \notin Hazards, TypeOK, DatesInv, Record,
         NEW q \in run.new
  PROVE  \E r \in rows' : r.day = q.day /\ r.look = q.look
<1>1. q \in Row /\ q.date = q.day + 1
  BY DEF TypeOK, RunRecord, DatesInv
<1>2. CASE q \in WriteRows
  BY <1>2, RecordShape
<1>3. CASE q \notin WriteRows
  <2>1. PICK s \in rows : s.look = q.look /\ s.date = q.date + 0
    BY <1>3 DEF WriteRows, WithholdAlreadyRecorded, Claimed, Recorded
  <2>2. s.date = s.day + 1 /\ s \in rows' /\ s.day \in Int /\ q.day \in Int
    BY <1>1, <2>1, RecordShape DEF DatesInv, TypeOK, Row, Days
  <2> QED
    BY <1>1, <2>1, <2>2
<1> QED
  BY <1>2, <1>3

LEMMA PromiseInit == Init => PromiseInv
BY NothingBelowZero DEF Init, PromiseInv, NoCursor, NoRun, NoMark

LEMMA PromiseStep ==
  ASSUME Hazards = {}, TypeOK, DatesInv, PromiseInv, [Next]_vars PROVE PromiseInv'
<1>1. /\ cursor.mark.day \in 0..MaxDay /\ cursor.mark.day < label
      /\ run.mark.day \in 0..MaxDay /\ run.mark.day < label
      /\ run.anchor.day \in 0..MaxDay /\ run.anchor.day < label
  BY CaptureAssumption DEF TypeOK, RunRecord, Mark, DatesInv, ReadAs, Days
<1>2. /\ PromiseUpTo(cursor.mark.day) /\ PromiseUpTo(run.mark.day)
      /\ run.pc = "recorded" => PromiseUpTo(run.anchor.day)
      /\ run.pc = "read" => OwedUpTo(run.anchor.day)
  BY DEF PromiseInv
<1>3. (NoRun.mark.day = 0 /\ NoRun.pc = "idle" /\ NoCursor.mark.day = 0)
      /\ PromiseUpTo(0)'
  BY NothingBelowZero DEF NoRun, NoCursor, NoMark, PromiseUpTo, Listed, Days
<1>5. CASE \E kind \in Kinds : StartRun(kind)
  <2>1. /\ run'.mark = cursor.mark /\ run'.pc = "sweeping"
        /\ UNCHANGED <<label, history, rows, cursor>>
    BY <1>5 DEF StartRun, NoRun, world
  <2>2. PromiseUpTo(cursor.mark.day)'
    BY <2>1, <1>2 DEF PromiseUpTo, Listed, HasRow
  <2> QED
    BY <2>1, <2>2 DEF PromiseInv, PromiseUpTo
<1>6. CASE Sweep
  <2>1. UNCHANGED <<label, history, rows, cursor>>
    BY <1>6, SweepShape DEF world
  <2>2. run'.mark = run.mark /\ run'.pc = "read"
    BY <1>6, SweepShape, CaptureShape DEF Swept
  <2>3. PromiseUpTo(cursor.mark.day)' /\ PromiseUpTo(run.mark.day)'
    BY <1>2, <2>1, <2>2 DEF PromiseUpTo, Listed, HasRow
  <2> QED
    BY <1>6, <2>2, <2>3, SweepOwes DEF PromiseInv
<1>7. CASE NavigationFails \/ ReportDryRun \/ Restart \/ RecordFails
  <2>1. run' = NoRun /\ UNCHANGED <<label, history, rows, cursor>>
    BY <1>7 DEF NavigationFails, ReportDryRun, Restart, RecordFails,
                AfterFailedInsert, world
  <2>2. PromiseUpTo(cursor.mark.day)'
    BY <1>2, <2>1 DEF PromiseUpTo, Listed, HasRow
  <2> QED
    BY <1>3, <2>1, <2>2 DEF PromiseInv
<1>8. CASE Record
  <2>1. /\ rows \subseteq rows' /\ UNCHANGED <<label, history, cursor>>
        /\ run.pc = "read" /\ run' = [run EXCEPT !.pc = "recorded"]
    BY <1>8, RecordShape
  <2>2. /\ run'.mark = run.mark /\ run'.anchor = run.anchor
        /\ run'.pc = "recorded"
    BY <2>1 DEF TypeOK, RunRecord
  <2>3. PromiseUpTo(cursor.mark.day)' /\ PromiseUpTo(run.mark.day)'
    BY <1>2, <2>1, <2>2 DEF PromiseUpTo, Listed, HasRow
  <2>4. PromiseUpTo(run.anchor.day)'
    <3>1. SUFFICES ASSUME NEW d \in Listed, d <= run.anchor.day,
                          NEW l \in history[d]
                   PROVE  HasRow(d, l)'
      BY <2>1, <2>2 DEF PromiseUpTo, Listed, HasRow
    <3>2. CASE HasRow(d, l)
      BY <2>1, <3>2 DEF HasRow
    <3>3. CASE \E r \in run.new : r.day = d /\ r.look = l
      BY <1>8, <3>3, RecordPays DEF HasRow
    <3> QED
      BY <1>2, <2>1, <3>1, <3>2, <3>3 DEF OwedUpTo
  <2> QED
    BY <2>2, <2>3, <2>4 DEF PromiseInv
<1>9. CASE PersistCursor
  <2>1. /\ run' = NoRun /\ UNCHANGED <<label, history, rows>>
        /\ cursor'.mark = (IF run.anchor.day # 0 THEN run.anchor ELSE run.mark)
        /\ run.pc = "recorded"
    BY <1>9 DEF PersistCursor, MarkOn, world
  <2>2. PromiseUpTo(cursor'.mark.day)
    BY <1>2, <2>1
  <2>3. PromiseUpTo(cursor.mark.day)'
    BY <2>1, <2>2 DEF PromiseUpTo, Listed, HasRow
  <2> QED
    BY <1>3, <2>1, <2>3 DEF PromiseInv
<1>10. CASE DeleteBatch
  <2>1. run.pc = "idle" /\ cursor' = NoCursor /\ run' = run
    BY <1>10 DEF DeleteBatch
  <2>2. cursor'.mark.day = 0 /\ run'.mark.day = 0
    BY <1>3, <2>1 DEF PromiseInv
  <2> QED
    BY <1>3, <2>1, <2>2 DEF PromiseInv
<1>11. CASE Contribute \/ GameTick \/ LabelTick
  <2>1. /\ rows' = rows /\ cursor' = cursor /\ run' = run
        /\ label' \in {label, label + 1}
    BY <1>11 DEF Contribute, GameTick, LabelTick
  <2>2. ASSUME NEW d \in Days, d < label PROVE history'[d] = history[d]
    <3>1. d # label
      BY <2>2 DEF TypeOK, Days
    <3> QED
      BY <1>11, <3>1 DEF Contribute, GameTick, LabelTick, TypeOK
  <2>3. ASSUME NEW n \in 0..MaxDay, n < label
        PROVE  /\ PromiseUpTo(n) => PromiseUpTo(n)'
               /\ OwedUpTo(n) => OwedUpTo(n)'
    BY <2>1, <2>2, <2>3, PromiseLasts
  <2>4. PromiseUpTo(cursor.mark.day)' /\ PromiseUpTo(run.mark.day)'
    <3>1. /\ PromiseUpTo(cursor.mark.day) => PromiseUpTo(cursor.mark.day)'
          /\ PromiseUpTo(run.mark.day) => PromiseUpTo(run.mark.day)'
      BY <1>1, <2>1, <2>3 DEF PromiseUpTo
    <3> QED
      BY <1>2, <3>1
  <2>5. /\ run.pc = "read" => OwedUpTo(run.anchor.day)'
        /\ run.pc = "recorded" => PromiseUpTo(run.anchor.day)'
    <3>1. /\ OwedUpTo(run.anchor.day) => OwedUpTo(run.anchor.day)'
          /\ PromiseUpTo(run.anchor.day) => PromiseUpTo(run.anchor.day)'
      BY <1>1, <2>1, <2>3 DEF PromiseUpTo, OwedUpTo
    <3> QED
      BY <1>2, <3>1
  <2>6. run'.pc = "idle" => run'.mark.day = 0
    BY <2>1 DEF PromiseInv
  <2> QED
    BY <2>1, <2>4, <2>5, <2>6 DEF PromiseInv
<1>12. CASE UNCHANGED vars
  BY <1>12 DEF vars, world, PromiseInv, PromiseUpTo, OwedUpTo, Listed, HasRow
<1> QED
  BY <1>5, <1>6, <1>7, <1>8, <1>9, <1>10, <1>11, <1>12 DEF Next

\* Whatever failed, crashed or was cut short, no row the list still shows at
\* or below the stored marker is missing on disk, provided that every sweep
\* takes place between 17:00 UTC and the account's midnight and that nobody
\* deletes a batch beside a run (the anchor-safe stop reasons and the date
\* floor of resource-sweep-rules.ts, the withhold, persistCursor).
THEOREM MarkerKeepsItsPromise ==
  ASSUME Hazards = {} PROVE Spec => []MarkerPromise
<1>1. "hour" \notin Hazards
  OBVIOUS
<1>2. PromiseInv => MarkerPromise
  BY DEF PromiseInv, PromiseUpTo, MarkerPromise
<1>3. Init => DatesInv /\ PromiseInv
  BY DatesInit, PromiseInit
<1>4. TypeOK /\ DatesInv /\ PromiseInv /\ [Next]_vars => DatesInv' /\ PromiseInv'
  BY <1>1, DatesStep, PromiseStep
<1> QED
  BY <1>2, <1>3, <1>4, CaptureTypesCorrect, PTL DEF Spec

-----------------------------------------------------------------------------
(* Repeats.                                                                *)

RepeatInv ==
  /\ RepeatsAreExplained
  /\ \A r \in rows : r.batch <= batches
  /\ run.pc = "read" /\ run.reason \in {"cursor", "end-of-list"} =>
       \A r \in run.new : r.date \in run.complete

\* A sweep that met its marker or the end of the list read every block above
\* the marker whole.
LEMMA SweepIsComplete ==
  ASSUME TypeOK, Sweep, run'.reason \in {"cursor", "end-of-list"},
         NEW r \in run'.new
  PROVE  r.date \in run'.complete
<1>1. PICK S \in SUBSET ListRows, cut \in 0..MaxDay, reason \in Reasons,
           match \in 0..(MaxDay + 1) : Swept(S, cut, reason, match)
  BY SweepShape
<1>2. Capture(S, cut, reason, match)
  BY <1>1 DEF Swept
<1>3. /\ r \in Stamped(S) /\ cut < r.day /\ r.day \in Listed
      /\ run'.complete = ReadCompleteness(Stamped(S), cut, reason)
      /\ run'.reason = reason
  BY <1>2, CaptureShape
<1>4. CASE reason = "end-of-list"
  BY <1>3, <1>4, CaptureAssumption DEF ReadCompleteness, Listed, Days
<1>5. CASE reason = "cursor"
  <2>1. S = ListRows /\ cut = run.mark.day /\ Refindable
    BY <1>1, <1>5 DEF Swept
  <2> DEFINE below == {q \in ListRows : q.day <= run.mark.day}
  <2>2. below # {}
    <3>1. SUFFICES ASSUME below = {} PROVE FALSE
      OBVIOUS
    <3>2. Cardinality(below) = 0
      BY <3>1, FS_EmptySet
    <3>3. Cardinality(below) >= MinRun
      BY <2>1 DEF Refindable
    <3> QED
      BY <3>2, <3>3, CaptureAssumption
  <2>3. PICK q \in ListRows : q.day <= run.mark.day
    BY <2>2
  <2>4. [day |-> q.day, look |-> q.look, date |-> DateOf(q.day)] \in Stamped(S)
    BY <2>1, <2>3 DEF Stamped
  <2>5. q.day \in Int /\ r.day \in Int /\ run.mark.day \in Int
    BY <1>3, <2>3, CaptureAssumption
    DEF ListRows, Listed, Days, TypeOK, RunRecord, Mark
  <2>6. \E p \in Stamped(S) : p.day < r.day
    BY <1>3, <2>1, <2>3, <2>4, <2>5
  <2> QED
    BY <1>3, <2>1, <2>5, <2>6 DEF ReadCompleteness
<1> QED
  BY <1>3, <1>4, <1>5

\* A batch with proven dates that was not cut short repeats nothing.
LEMMA RecordRepeats ==
  ASSUME "hour" \notin Hazards, TypeOK, DatesInv, RepeatInv, Record
  PROVE  RepeatsAreExplained'
<1>1. CASE WriteRows = {}
  BY <1>1 DEF Record, RepeatInv, RepeatsAreExplained
<1>2. CASE WriteRows # {}
  <2>1. /\ batches' = batches + 1 /\ batches \in Int
        /\ flagged' = IF MayRepeat THEN flagged \cup {batches'} ELSE flagged
        /\ rows' = rows \cup {[day |-> r.day, look |-> r.look, date |-> r.date,
                              batch |-> batches + 1] : r \in WriteRows}
        /\ run.pc = "read"
    BY <1>2 DEF Record, TypeOK
  <2>2. \A r \in rows : r.batch <= batches /\ r.batch \in Int
    BY DEF RepeatInv, TypeOK
  <2>3. SUFFICES ASSUME NEW r \in rows', NEW s \in rows',
                        r.day = s.day, r.look = s.look, r.batch < s.batch,
                        ~MayRepeat, s \notin rows
                 PROVE  FALSE
    BY <2>1, <2>2 DEF RepeatsAreExplained, RepeatInv
  <2>4. PICK q \in WriteRows : s = [day |-> q.day, look |-> q.look, date |-> q.date,
                                    batch |-> batches + 1]
    BY <2>1, <2>3
  <2>5. r \in rows
    BY <2>1, <2>3, <2>4
  <2>6. q \in run.new /\ q.day = s.day /\ q.look = s.look
    BY <2>4, WrittenWereRead
  <2>7. DateMappingProven
    BY <2>3 DEF MayRepeat
  <2>8. run.reason \in {"cursor", "end-of-list"}
    BY <2>3 DEF MayRepeat, TypeOK, RunRecord, Reasons
  <2>9. q.date \in run.complete /\ r.date = q.date + 0 /\ r.date >= q.date - 1
    BY <2>1, <2>3, <2>5, <2>6, <2>8 DEF RepeatInv, DatesInv, TypeOK, Days, Dates
  <2>10. q \in WithholdAlreadyRecorded(run.new, Recorded(run.new), run.complete)
    BY <2>3, <2>5, <2>6, <2>9 DEF WithholdAlreadyRecorded, Claimed, Recorded
  <2> QED
    BY <2>4, <2>7, <2>10 DEF WriteRows
<1> QED
  BY <1>1, <1>2

LEMMA RepeatStep ==
  ASSUME "hour" \notin Hazards, TypeOK, DatesInv, RepeatInv, [Next]_vars
  PROVE  RepeatInv'
<1>1. CASE \E kind \in Kinds : StartRun(kind)
  BY <1>1 DEF StartRun, NoRun, RepeatInv, RepeatsAreExplained
<1>2. CASE Sweep
  <2>1. UNCHANGED <<rows, batches, flagged>>
    BY <1>2, SweepShape
  <2> QED
    BY <1>2, <2>1, SweepIsComplete DEF RepeatInv, RepeatsAreExplained
<1>3. CASE NavigationFails \/ ReportDryRun \/ Restart \/ PersistCursor
  <2>1. run' = NoRun /\ UNCHANGED <<rows, batches, flagged>>
    BY <1>3 DEF NavigationFails, ReportDryRun, Restart, PersistCursor
  <2> QED
    BY <2>1 DEF NoRun, RepeatInv, RepeatsAreExplained
<1>4. CASE Record
  <2>1. run'.pc = "recorded"
    BY <1>4, RecordShape DEF TypeOK, RunRecord
  <2>2. \A r \in rows' : r.batch <= batches'
    <3>1. SUFFICES ASSUME NEW r \in rows' PROVE r.batch <= batches'
      OBVIOUS
    <3>2. batches' \in {batches, batches + 1} /\ batches \in Int
      BY <1>4 DEF Record, TypeOK
    <3>3. CASE r \in rows
      BY <3>2, <3>3 DEF RepeatInv, TypeOK
    <3>4. CASE r \notin rows
      <4>1. r.batch = batches + 1 /\ batches' = batches + 1
        BY <1>4, <3>4, RecordShape
      <4> QED
        BY <3>2, <4>1
    <3> QED
      BY <3>3, <3>4
  <2> QED
    BY <1>4, <2>1, <2>2, RecordRepeats DEF RepeatInv
<1>5. CASE RecordFails
  <2>1. /\ run'.pc = "idle" /\ batches' = batches + 1
        /\ UNCHANGED <<rows, flagged>>
    BY <1>5 DEF RecordFails, AfterFailedInsert, NoRun
  <2>2. \A r \in rows : r.batch \in Int /\ batches \in Int
    BY DEF TypeOK
  <2> QED
    BY <2>1, <2>2 DEF RepeatInv, RepeatsAreExplained
<1>6. CASE DeleteBatch
  <2>1. rows' \subseteq rows /\ UNCHANGED <<batches, run, flagged>>
    BY <1>6 DEF DeleteBatch
  <2> QED
    BY <2>1 DEF RepeatInv, RepeatsAreExplained
<1>7. CASE Contribute \/ GameTick \/ LabelTick \/ UNCHANGED vars
  <2>1. UNCHANGED <<rows, batches, run, flagged>>
    BY <1>7 DEF Contribute, GameTick, LabelTick, vars
  <2> QED
    BY <2>1 DEF RepeatInv, RepeatsAreExplained
<1> QED
  BY <1>1, <1>2, <1>3, <1>4, <1>5, <1>6, <1>7 DEF Next

\* The same row of the game is recorded twice only by a batch whose dates were
\* not proven or that was cut short, for every failure, crash and deletion,
\* when every sweep takes place between 17:00 UTC and the account's midnight
\* (withholdAlreadyRecorded and dateMappingProven of the phase).
THEOREM RepeatsHaveAReason ==
  ASSUME "hour" \notin Hazards PROVE Spec => []RepeatsAreExplained
<1>1. Init => DatesInv /\ RepeatInv
  BY DatesInit DEF Init, RepeatInv, RepeatsAreExplained, NoRun
<1>2. TypeOK /\ DatesInv /\ RepeatInv /\ [Next]_vars => DatesInv' /\ RepeatInv'
  BY DatesStep, RepeatStep
<1>3. RepeatInv => RepeatsAreExplained
  BY DEF RepeatInv
<1> QED
  BY <1>1, <1>2, <1>3, CaptureTypesCorrect, PTL DEF Spec
=============================================================================
