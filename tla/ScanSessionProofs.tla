------------------------- MODULE ScanSessionProofs -------------------------
(***************************************************************************)
(* Proofs about ScanSession, for every list of chests, batch size, bound   *)
(* and mix of faults.                                                      *)
(*                                                                         *)
(* That a failed or deleted session has no rows is not inductive: rows are *)
(* inserted for the scan in progress, so its status must be known while it *)
(* runs (Live), and a session that has not begun must have none either.    *)
(***************************************************************************)
EXTENDS ScanSession, TLAPS

-----------------------------------------------------------------------------
(* The database and the session in progress.                               *)

\* The part of the types the arguments below rest on.
DbTyped ==
  /\ status \in [Sessions -> Statuses]
  /\ session \in 0..MaxSessions

\* The session in progress is PENDING unless somebody deleted it, and sessions
\* that have not begun have no status.
Live ==
  /\ pc # "idle" => /\ session \in Sessions
                    /\ status[session] \in {"PENDING", "DELETED"}
  /\ \A s \in Sessions : s > session => status[s] = "none"

\* Sessions that have not begun, or are deleted, have no rows.
NoStrayRows ==
  \A s \in Sessions : status[s] \in {"none", "DELETED"} => RowsOf(s) = {}

\* Nothing is recorded before the Gifts sweep, nor on the triumphal tab before
\* the triumphal sweep: the two places that fail a scan without asking the
\* triumphal table rest on it.
Ordered ==
  /\ pc = "navigate" => RowsOf(session) = {}
  /\ pc # "idle" /\ tab = "gifts" => RowsOf(session) = GiftRows(session)

DbInv == DbTyped /\ Live /\ NoStrayRows /\ Ordered

LEMMA DbInvInit == Init => DbInv
<1> SUFFICES ASSUME Init PROVE DbInv
  OBVIOUS
<1>1. session = 0 /\ rows = {} /\ pc = "idle"
  BY DEF Init
<1>2. status = [s \in Sessions |-> "none"]
  BY DEF Init
<1> QED
  BY <1>1, <1>2, SessionAssumption
     DEF DbInv, DbTyped, Live, NoStrayRows, Ordered, RowsOf, Sessions, Statuses

\* What the end of a scan does to the database: the session in progress gets
\* its final status unless it is gone, and no row goes that was there.
Ends ==
  /\ pc # "idle" /\ pc' = "idle"
  /\ rows' = rows /\ session' = session
  /\ \/ status' = status /\ status[session] = "DELETED"
     \/ \E st \in {"COMPLETED", "FAILED"} :
          /\ status' = [status EXCEPT ![session] = st]
          /\ status[session] # "DELETED"
          /\ st = "FAILED" => RowsOf(session) = {}

\* A step of the scan that leaves the database alone.
Sweeps ==
  /\ pc # "idle" /\ pc' \notin {"idle", "navigate"}
  /\ tab' = "gifts" => tab = "gifts" \/ pc = "navigate"
  /\ UNCHANGED <<rows, status, session>>

LEMMA CloseEnds ==
  ASSUME pc # "idle", NEW st \in {"COMPLETED", "FAILED"}, NEW n,
         Close(st, n), UNCHANGED <<rows, session>>,
         st = "FAILED" => RowsOf(session) = {}
  PROVE  Ends
BY DEF Close, Ends

LEMMA AbortEnds ==
  ASSUME pc # "idle", NEW expected \in BOOLEAN, Abort(expected),
         UNCHANGED session
  PROVE  Ends
<1>1. CASE UNCHANGED rows /\ \E n : Close("COMPLETED", n)
  BY <1>1, CloseEnds
<1>2. CASE RowsOf(session) = {} /\ \E n : Close("FAILED", n)
           /\ rows' = IF expected THEN rows ELSE rows \ GiftRows(session)
  <2>1. GiftRows(session) = {}
    BY <1>2 DEF GiftRows
  <2>2. rows' = rows
    BY <1>2, <2>1
  <2> QED
    BY <1>2, <2>2, CloseEnds
<1> QED
  BY <1>1, <1>2 DEF Abort, Landed

LEMMA SucceedEnds ==
  ASSUME pc # "idle", Succeed, UNCHANGED session
  PROVE  Ends
BY CloseEnds DEF Succeed

\* Every step of a scan sweeps, reads a crop or ends the scan.
LEMMA ScanStepKinds ==
  ASSUME Ordered, ScanStep
  PROVE  Sweeps \/ ReadCrop \/ Ends
<1> USE DEF game, db, MayShoot, SweepRead, FreshSweep
<1>1. CASE \/ OnGiftsTab \/ OnTriumphalTab \/ CaptureEnds \/ Screenshot
           \/ NoCards \/ KickSeen \/ CaptureThrows \/ Click \/ BatchDone
  BY <1>1 DEF OnGiftsTab, OnTriumphalTab, CaptureEnds, Screenshot, NoCards,
              KickSeen, CaptureThrows, Click, BatchDone, Sweeps
<1>2. CASE NotOnGifts
  BY <1>2, CloseEnds DEF NotOnGifts, Ordered
<1>3. CASE NavigationThrows
  BY <1>3, AbortEnds DEF NavigationThrows
<1>4. CASE SwitchThrows
  BY <1>4, AbortEnds, SucceedEnds DEF SwitchThrows
<1>5. CASE SweepKicked
  BY <1>5, AbortEnds DEF SweepKicked
<1>6. CASE GiftsFailed
  <2>1. RowsOf(session) = {} /\ rows' = rows
    BY <1>6 DEF GiftsFailed, Ordered
  <2> QED
    BY <1>6, <2>1, CloseEnds DEF GiftsFailed
<1>7. CASE GiftsSwept
  <2>1. CASE Triumphal
    BY <1>7, <2>1 DEF GiftsSwept, Sweeps
  <2>2. CASE ~Triumphal
    BY <1>7, <2>2, CloseEnds DEF GiftsSwept
  <2> QED
    BY <2>1, <2>2
<1>8. CASE TriumphalSwept
  BY <1>8, SucceedEnds DEF TriumphalSwept
<1>9. CASE SweepThrows
  BY <1>9, AbortEnds, SucceedEnds DEF SweepThrows
<1>10. CASE ReadCrop
  BY <1>10
<1> QED
  BY <1>1, <1>2, <1>3, <1>4, <1>5, <1>6, <1>7, <1>8, <1>9, <1>10 DEF ScanStep

LEMMA DbInvStep == DbInv /\ [Next]_vars => DbInv'
<1> SUFFICES ASSUME DbInv, [Next]_vars PROVE DbInv'
  OBVIOUS
<1> USE SessionAssumption
    DEF DbInv, DbTyped, Live, NoStrayRows, Ordered, RowsOf, GiftRows, Sessions
<1>1. CASE Begin
  <2>1. session' \in Sessions /\ status[session'] = "none"
    BY <1>1 DEF Begin
  <2>2. RowsOf(session') = {}
    BY <2>1
  <2> QED
    BY <1>1, <2>1, <2>2 DEF Begin, Statuses
<1>2. CASE Sweeps
  BY <1>2 DEF Sweeps
<1>3. CASE Ends
  BY <1>3 DEF Ends, Statuses
<1>4. CASE ReadCrop
  <2>1. /\ pc = "ocr" /\ UNCHANGED <<pc, tab, session, status>>
    BY <1>4 DEF ReadCrop
  <2>2. \A r \in rows' \ rows : /\ r.session = session /\ r.tab = tab
                               /\ status[session] # "DELETED"
    BY <1>4 DEF ReadCrop, Accepted
  <2>3. \A s \in Sessions : status[s] \in {"none", "DELETED"}
                            => RowsOf(s)' = RowsOf(s)
    BY <1>4, <2>1, <2>2 DEF ReadCrop
  <2> QED
    BY <2>1, <2>2, <2>3
<1>5. CASE Kick
  BY <1>5 DEF Kick, db, sweep
<1>6. CASE Restart
  BY <1>6 DEF Restart, Statuses
<1>7. ASSUME NEW s \in Sessions, DeleteSession(s) PROVE DbInv'
  BY <1>7 DEF DeleteSession, Statuses, sweep
<1>8. CASE UNCHANGED vars
  BY <1>8 DEF vars, db, sweep
<1> QED
  BY <1>1, <1>2, <1>3, <1>4, <1>5, <1>6, <1>7, <1>8, ScanStepKinds
     DEF Next

LEMMA DbInvHolds == Spec => []DbInv
BY DbInvInit, DbInvStep, PTL DEF Spec

-----------------------------------------------------------------------------
(* Results.                                                                *)

\* A deleted session stays empty, whatever its scan still does.
THEOREM DeletionIsFinal == Spec => []DeletedStaysEmpty
<1>1. DbInv => DeletedStaysEmpty
  BY DEF DbInv, NoStrayRows, DeletedStaysEmpty
<1> QED
  BY <1>1, DbInvHolds, PTL

\* No exception, kick or empty sweep takes recorded rows away.
THEOREM NothingIsRolledBack == Spec => RowsAreKept
<1>1. DbInv /\ [Next]_vars =>
        [\A r \in rows : r \in rows' \/ status'[r.session] = "DELETED"]_vars
  <2> SUFFICES ASSUME DbInv, Next, NEW r \in rows
               PROVE  r \in rows' \/ status'[r.session] = "DELETED"
    BY DEF vars
  <2>1. CASE ScanStep
    BY <2>1, ScanStepKinds DEF DbInv, Sweeps, Ends, ReadCrop
  <2>2. CASE Begin \/ Kick \/ Restart
    BY <2>2 DEF Begin, Kick, Restart, db
  <2>3. ASSUME NEW s \in Sessions, DeleteSession(s)
        PROVE  r \in rows' \/ status'[r.session] = "DELETED"
    BY <2>3 DEF DeleteSession, RowsOf, DbInv, DbTyped
  <2> QED
    BY <2>1, <2>2, <2>3 DEF Next
<1> QED
  BY <1>1, DbInvHolds, PTL DEF Spec, RowsAreKept

\* A scan that fails its session has landed nothing.
THEOREM FailureHidesNothing == Spec => []FailedMeansNothingLanded
<1>1. Init => FailedMeansNothingLanded
  BY DEF Init, FailedMeansNothingLanded, RowsOf
<1>2. DbInv /\ FailedMeansNothingLanded /\ [Next]_vars
        => FailedMeansNothingLanded'
  <2> SUFFICES ASSUME DbInv, FailedMeansNothingLanded, [Next]_vars
               PROVE  FailedMeansNothingLanded'
    OBVIOUS
  <2> USE DEF FailedMeansNothingLanded, RowsOf
  <2>1. CASE Begin
    BY <2>1 DEF Begin, DbInv, DbTyped
  <2>2. CASE Sweeps
    BY <2>2 DEF Sweeps
  <2>3. CASE Ends
    BY <2>3 DEF Ends, DbInv, DbTyped
  <2>4. CASE ReadCrop
    <3>1. status' = status /\ status[session] \in {"PENDING", "DELETED"}
      BY <2>4 DEF ReadCrop, DbInv, Live
    <3>2. \A r \in rows' \ rows : r.session = session
      BY <2>4 DEF ReadCrop
    <3> QED
      BY <3>1, <3>2
  <2>5. CASE Kick
    BY <2>5 DEF Kick, db
  <2>6. ASSUME NEW s \in Sessions, DeleteSession(s)
        PROVE  FailedMeansNothingLanded'
    BY <2>6 DEF DeleteSession, DbInv, DbTyped
  <2>7. CASE UNCHANGED vars
    BY <2>7 DEF vars, db
  <2>8. CASE Restart
    BY <2>8 DEF Restart
  <2> QED
    BY <2>1, <2>2, <2>3, <2>4, <2>5, <2>6, <2>7, <2>8, ScanStepKinds
       DEF Next, DbInv
<1> QED
  BY <1>1, <1>2, DbInvHolds, PTL DEF Spec
=============================================================================
