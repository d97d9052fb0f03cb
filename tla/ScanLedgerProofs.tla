-------------------------- MODULE ScanLedgerProofs --------------------------
(***************************************************************************)
(* Proofs about what a scan of ScanSession claims and records, for every   *)
(* list of chests, batch size and bound: the types, that an early end of a *)
(* sweep loses nothing, that a completed session reports the rows it has,  *)
(* and that the scan implements the ledger of claims.                      *)
(*                                                                         *)
(* A chest that has been claimed and is not recorded is on one of the      *)
(* crops that wait to be read.                                             *)
(***************************************************************************)
EXTENDS ScanSessionProofs, FiniteSetTheorems, FunctionTheorems, SequenceTheorems

-----------------------------------------------------------------------------
(* Types.                                                                  *)

Crop == [first: Nat, last: Nat, probed: BOOLEAN]

Row == [session: Sessions, tab: Tabs, crop: 1..MaxBatches, chest: Nat]

\* A sweep takes a crop per batch, and begins a batch only below its limits.
WithinLimits ==
  /\ pc = "batch" => Len(crops) + cropNo <= batch
  /\ pc = "clicking" => /\ batch < MaxBatches /\ slow < SlowLimit
                        /\ Len(crops) + cropNo <= batch + 1

\* The types, with what keeps the numbers of a sweep in their bounds.
ScanInv == DbInv /\ TypeOK /\ IsFiniteSet(rows) /\ WithinLimits

LEMMA Numbers ==
  ASSUME TypeOK
  PROVE  /\ Listed \in [Tabs -> Nat] /\ top \in [Tabs -> Nat] /\ tab \in Tabs
         /\ top[tab] \in Nat /\ Listed[tab] \in Nat
         /\ PerBatch \in Nat \ {0} /\ MaxBatches \in Nat \ {0} /\ SlowLimit \in Nat \ {0}
         /\ batch \in Nat /\ clicks \in Nat /\ slow \in Nat /\ cropNo \in Nat
         /\ errors \in Nat /\ inserted \in Nat /\ tally \in Nat
         /\ crops \in Seq(Crop) /\ Len(crops) \in Nat /\ rows \subseteq Row
BY SessionAssumption, LenProperties DEF TypeOK, Crop, Row

LEMMA GiftsCounted ==
  ASSUME IsFiniteSet(rows), NEW s
  PROVE  IsFiniteSet(GiftRows(s)) /\ Cardinality(GiftRows(s)) \in Nat
<1>1. GiftRows(s) \in SUBSET rows
  BY DEF GiftRows, RowsOf
<1> QED
  BY <1>1, FS_Subset, FS_CardinalityType

\* What a sweep's start, and the end of a scan, make of its variables.
FreshTyped ==
  /\ tab' \in Tabs /\ batch' = 0 /\ clicks' = 0 /\ slow' = 0
  /\ crops' = <<>> /\ cropNo' = 0 /\ errors' = 0 /\ kicked' = FALSE /\ inserted' = 0

LEMMA FreshScan ==
  ASSUME ScanInv, DbInv', FreshTyped, pc' \in Pcs, tally' \in Nat,
         UNCHANGED <<game, rows, session>>,
         status' \in [Sessions -> Statuses], found' \in [Sessions -> Nat]
  PROVE  ScanInv'
<1>1. crops' \in Seq(Crop) /\ Len(crops') = 0
  BY EmptySeq DEF FreshTyped
<1>2. 0 \in 0..MaxBatches /\ 0 \in 0..PerBatch /\ 0 \in 0..SlowLimit /\ MaxBatches \in Nat
  BY SessionAssumption
<1>3. {cropNo', errors', inserted', tally'} \subseteq Nat /\ Len(crops') + cropNo' <= MaxBatches
  BY <1>1, <1>2 DEF FreshTyped
<1>4. TypeOK'
  BY <1>1, <1>2, <1>3 DEF ScanInv, FreshTyped, TypeOK, game, Crop
<1>5. WithinLimits'
  BY <1>1, <1>2, SessionAssumption DEF FreshTyped, WithinLimits
<1> QED
  BY <1>4, <1>5 DEF ScanInv

LEMMA CloseTyped ==
  ASSUME ScanInv, pc # "idle", NEW st \in Statuses, NEW n \in Nat, Close(st, n)
  PROVE  /\ FreshTyped /\ pc' \in Pcs /\ tally' \in Nat
         /\ status' \in [Sessions -> Statuses] /\ found' \in [Sessions -> Nat]
<1>1. session \in Sessions
  BY DEF ScanInv, DbInv, Live
<1> QED
  BY <1>1 DEF Close, FreshSweep, FreshTyped, Tabs, Pcs, ScanInv, TypeOK

LEMMA AbortTyped ==
  ASSUME ScanInv, DbInv', pc # "idle", NEW expected \in BOOLEAN, Abort(expected),
         UNCHANGED <<game, session>>
  PROVE  ScanInv'
<1>1. /\ \A counted \in BOOLEAN : Kept(counted) \in Nat
      /\ tally \in Nat
  <2>1. Cardinality(GiftRows(session)) \in Nat /\ tally \in Nat
    BY GiftsCounted DEF ScanInv, TypeOK
  <2> QED
    BY <2>1 DEF Kept
<1>2. found[session] \in Nat
  BY DEF ScanInv, DbInv, Live, TypeOK
<1>3. rows' = rows
  BY AbortEnds DEF Ends
<1>4. \E st \in Statuses, n \in Nat : Close(st, n)
  BY <1>1, <1>2 DEF Abort, Statuses
<1> QED
  BY <1>3, <1>4, CloseTyped, FreshScan

LEMMA SucceedTyped ==
  ASSUME ScanInv, DbInv', pc # "idle", Succeed, UNCHANGED <<game, session>>
  PROVE  ScanInv'
<1>1. tally \in Nat /\ "COMPLETED" \in Statuses
  BY DEF ScanInv, TypeOK, Statuses
<1> QED
  BY <1>1, CloseTyped, FreshScan DEF Succeed

LEMMA EndsTyped ==
  ASSUME ScanInv, DbInv',
         \/ NotOnGifts \/ NavigationThrows \/ SwitchThrows
         \/ SweepKicked \/ GiftsFailed \/ GiftsSwept \/ TriumphalSwept \/ SweepThrows
  PROVE  ScanInv'
<1>1. CASE NavigationThrows \/ SweepKicked
  BY <1>1, AbortTyped DEF NavigationThrows, SweepKicked, SweepRead
<1>2. CASE SwitchThrows \/ TriumphalSwept \/ SweepThrows
  BY <1>2, AbortTyped, SucceedTyped DEF SwitchThrows, TriumphalSwept, SweepThrows, SweepRead
<1>3. CASE NotOnGifts
  <2>1. found[session] \in Nat /\ "FAILED" \in Statuses /\ pc # "idle"
    BY <1>3 DEF NotOnGifts, ScanInv, DbInv, Live, TypeOK, Statuses
  <2> QED
    BY <1>3, <2>1, CloseTyped, FreshScan DEF NotOnGifts
<1>4. CASE GiftsFailed
  <2>1. rows' = rows /\ "FAILED" \in Statuses /\ pc # "idle"
    BY <1>4 DEF GiftsFailed, Statuses, SweepRead
  <2> QED
    BY <1>4, <2>1, CloseTyped, FreshScan DEF GiftsFailed
<1>5. CASE GiftsSwept
  <2>1. tally + inserted \in Nat /\ pc # "idle" /\ "COMPLETED" \in Statuses
    BY <1>5 DEF GiftsSwept, SweepRead, ScanInv, TypeOK, Statuses
  <2>2. CASE Triumphal
    BY <1>5, <2>1, <2>2, FreshScan
       DEF GiftsSwept, FreshSweep, FreshTyped, Tabs, Pcs, db, ScanInv, TypeOK
  <2>3. CASE ~Triumphal
    BY <1>5, <2>1, <2>3, CloseTyped, FreshScan DEF GiftsSwept
  <2> QED
    BY <2>2, <2>3
<1> QED
  BY <1>1, <1>2, <1>3, <1>4, <1>5

LEMMA NextCrop ==
  ASSUME TypeOK, crops # <<>>
  PROVE  /\ Head(crops) \in Crop /\ Tail(crops) \in Seq(Crop) /\ Len(Tail(crops)) = Len(crops) - 1
         /\ Len(crops) \in Nat \ {0} /\ Head(crops) = crops[1]
         /\ \A i \in 1..Len(Tail(crops)) : Tail(crops)[i] = crops[i + 1]
<1>1. crops \in Seq(Crop)
  BY Numbers
<1> QED
  BY <1>1, HeadTailProperties, EmptySeq

LEMMA OneMoreCrop ==
  ASSUME TypeOK, NEW c \in Crop
  PROVE  /\ Append(crops, c) \in Seq(Crop) /\ Len(Append(crops, c)) = Len(crops) + 1
         /\ \A i \in 1..Len(crops) : Append(crops, c)[i] = crops[i]
         /\ Append(crops, c)[Len(crops) + 1] = c
BY Numbers, AppendProperties

LEMMA SweepTyped ==
  ASSUME ScanInv, DbInv',
         \/ OnGiftsTab \/ OnTriumphalTab \/ CaptureEnds \/ Screenshot \/ NoCards
         \/ KickSeen \/ CaptureThrows \/ Click \/ BatchDone
  PROVE  ScanInv'
<1>1. /\ TypeOK /\ WithinLimits /\ IsFiniteSet(rows)
      /\ errors + 1 \in Nat
  BY DEF ScanInv, TypeOK
<1>2. CASE OnGiftsTab \/ OnTriumphalTab
  BY <1>2, FreshScan
     DEF OnGiftsTab, OnTriumphalTab, FreshSweep, FreshTyped, Tabs, Pcs, db, game, ScanInv, TypeOK
<1>3. CASE CaptureEnds
  BY <1>1, <1>3 DEF CaptureEnds, game, db, ScanInv, TypeOK, WithinLimits, Pcs
<1>4. CASE Screenshot
  <2>1. PICK last \in {Visible(top[tab]).last, 0}, probed \in BOOLEAN :
          crops' = Append(crops, [first |-> Visible(top[tab]).first, last |-> last,
                                  probed |-> probed])
    BY <1>4 DEF Screenshot
  <2>2. Visible(top[tab]).first \in Nat /\ Visible(top[tab]).last \in Nat
    <3>1. top[tab] \in 1..Listed[tab] + 1 /\ Listed[tab] \in Nat /\ PerBatch \in Nat \ {0}
      BY <1>1, Numbers DEF TypeOK
    <3>2. top[tab] + PerBatch - 1 \in Nat
      BY <3>1
    <3> QED
      BY <3>1, <3>2 DEF Visible, Lower
  <2>3. crops' \in Seq(Crop) /\ Len(crops') = Len(crops) + 1
    BY <1>1, <2>1, <2>2, OneMoreCrop DEF Crop
  <2>4. /\ pc = "batch" /\ pc' = "clicking" /\ batch < MaxBatches /\ slow < SlowLimit
        /\ clicks' = 0
        /\ UNCHANGED <<game, db, session, tab, batch, slow, cropNo, errors, kicked, inserted,
                       tally>>
    BY <1>1, <1>4, Numbers DEF Screenshot, MayShoot, Stalled
  <2>5. /\ Len(crops) + cropNo <= batch /\ Len(crops) \in Nat /\ cropNo \in Nat /\ batch \in Nat
        /\ PerBatch \in Nat /\ MaxBatches \in Nat
    BY <1>1, <2>4, Numbers DEF WithinLimits
  <2>6. Len(crops') + cropNo' <= MaxBatches /\ WithinLimits'
    BY <2>3, <2>4, <2>5 DEF WithinLimits
  <2>7. TypeOK'
    BY <1>1, <2>3, <2>4, <2>5, <2>6 DEF TypeOK, Crop, game, db, Pcs
  <2> QED
    BY <1>1, <2>4, <2>6, <2>7 DEF ScanInv, db
<1>5. CASE NoCards \/ KickSeen
  BY <1>1, <1>5 DEF NoCards, KickSeen, game, db, ScanInv, TypeOK, WithinLimits, Pcs
<1>6. CASE CaptureThrows
  BY <1>1, <1>6 DEF CaptureThrows, CropsOnThrow, game, db, ScanInv, TypeOK, WithinLimits, Pcs
<1>7. CASE Click
  <2>1. /\ UNCHANGED <<alive, db, session, pc, tab, batch, slow, crops, cropNo, errors, kicked,
                       inserted, tally>>
        /\ clicks' = clicks + 1 /\ clicks < PerBatch
        /\ \/ top' = top
           \/ top[tab] <= Listed[tab] /\ top' = [top EXCEPT ![tab] = @ + 1]
    BY <1>7 DEF Click
  <2>2. clicks' \in 0..PerBatch
    <3>1. clicks \in Nat /\ PerBatch \in Nat
      BY <1>1, Numbers
    <3> QED
      BY <2>1, <3>1
  <2>3. top' \in [Tabs -> Nat] /\ \A t \in Tabs : top'[t] \in 1..Listed[t] + 1
    <3>1. CASE top' = top
      BY <1>1, <3>1 DEF TypeOK
    <3>2. CASE top[tab] <= Listed[tab] /\ top' = [top EXCEPT ![tab] = @ + 1]
      <4>1. /\ top \in [Tabs -> Nat] /\ \A t \in Tabs : top[t] \in 1..Listed[t] + 1
            /\ tab \in Tabs /\ Listed \in [Tabs -> Nat]
        BY <1>1, Numbers DEF TypeOK
      <4>2. top[tab] + 1 \in 1..Listed[tab] + 1
        BY <3>2, <4>1
      <4> QED
        BY <3>2, <4>1, <4>2
    <3> QED
      BY <2>1, <3>1, <3>2
  <2>4. TypeOK'
    BY <1>1, <2>1, <2>2, <2>3 DEF TypeOK, db
  <2> QED
    BY <1>1, <2>1, <2>4 DEF ScanInv, WithinLimits, db
<1>8. CASE BatchDone
  <2>1. /\ pc = "clicking" /\ pc' = "batch" /\ batch' = batch + 1
        /\ slow' \in {0, slow + 1}
        /\ UNCHANGED <<game, db, session, tab, clicks, crops, cropNo, errors, kicked, inserted,
                       tally>>
    BY <1>8 DEF BatchDone
  <2>2. /\ batch < MaxBatches /\ slow < SlowLimit /\ Len(crops) + cropNo <= batch + 1
    BY <1>1, <2>1 DEF WithinLimits
  <2>3. batch' \in 0..MaxBatches /\ slow' \in 0..SlowLimit
    BY <1>1, <2>1, <2>2, Numbers
  <2>4. TypeOK' /\ WithinLimits'
    BY <1>1, <2>1, <2>2, <2>3 DEF TypeOK, WithinLimits, game, db, Pcs
  <2> QED
    BY <1>1, <2>1, <2>4 DEF ScanInv, db
<1> QED
  BY <1>2, <1>3, <1>4, <1>5, <1>6, <1>7, <1>8

-----------------------------------------------------------------------------
(* Reading a crop.                                                         *)

\* The rows that a crop adds.
NewRows(landed) ==
  {[session |-> session, tab |-> tab, crop |-> cropNo + 1, chest |-> c] : c \in landed}

LEMMA NewRowsCounted ==
  ASSUME NEW landed, IsFiniteSet(landed)
  PROVE  IsFiniteSet(NewRows(landed)) /\ Cardinality(NewRows(landed)) = Cardinality(landed)
<1> DEFINE f == [c \in landed |->
                  [session |-> session, tab |-> tab, crop |-> cropNo + 1, chest |-> c]]
<1>1. f \in Bijection(landed, NewRows(landed))
  <2>1. f \in [landed -> NewRows(landed)]
    BY DEF NewRows
  <2>2. \A c, d \in landed : f[c] = f[d] => c = d
    <3>1. \A c \in landed : f[c].chest = c
      OBVIOUS
    <3> QED
      BY <3>1
  <2>3. \A r \in NewRows(landed) : \E c \in landed : f[c] = r
    BY DEF NewRows
  <2> QED
    BY <2>1, <2>2, <2>3, Fun_IsBij
<1> QED
  BY <1>1, FS_Bijection DEF ExistsBijection

\* A crop is read as some of its cards, and those that land are recorded.
LEMMA CropRead ==
  ASSUME TypeOK, ReadCrop
  PROVE  /\ crops # <<>> /\ pc = "ocr" /\ crops' = Tail(crops) /\ cropNo' = cropNo + 1
         /\ UNCHANGED <<game, status, found, session, pc, tab, batch, clicks, slow, kicked, tally>>
         /\ errors' \in {errors, errors + 1}
         /\ \E landed \in SUBSET (Head(crops).first .. Head(crops).last) :
              /\ rows' = rows \cup NewRows(landed)
              /\ inserted' = inserted + Cardinality(landed)
              /\ status[session] = "DELETED" => landed = {}
              /\ "ocr" \notin Faults /\ "database" \notin Faults /\ status[session] # "DELETED"
                   => landed = Head(crops).first .. Head(crops).last
<1> DEFINE cards == Head(crops).first .. Head(crops).last
<1>0. PICK read \in Readings(Head(crops)) :
        \E saved \in {read} \cup IF "database" \in Faults
                                    THEN {{c \in read : c < n} : n \in read} ELSE {} :
          /\ rows' = rows \cup NewRows(Accepted(saved))
          /\ errors' = IF Accepted(saved) = read THEN errors ELSE errors + 1
          /\ inserted' = inserted + Cardinality(Accepted(saved))
  BY DEF ReadCrop, NewRows
<1>1. PICK saved \in {read} \cup IF "database" \in Faults
                                   THEN {{c \in read : c < n} : n \in read} ELSE {} :
        /\ rows' = rows \cup NewRows(Accepted(saved))
        /\ errors' = IF Accepted(saved) = read THEN errors ELSE errors + 1
        /\ inserted' = inserted + Cardinality(Accepted(saved))
  BY <1>0
<1>2. /\ read \subseteq cards /\ ("ocr" \notin Faults => read = cards)
      /\ saved \subseteq read /\ ("database" \notin Faults => saved = read)
  BY <1>1 DEF Readings
<1>3. /\ Accepted(saved) \subseteq saved
      /\ status[session] = "DELETED" => Accepted(saved) = {}
      /\ status[session] # "DELETED" => Accepted(saved) = saved
  BY DEF Accepted
<1> HIDE DEF cards
<1>4. Accepted(saved) \subseteq cards
  BY <1>2, <1>3
<1>5. "ocr" \notin Faults /\ "database" \notin Faults /\ status[session] # "DELETED"
        => Accepted(saved) = cards
  BY <1>2, <1>3
<1>6. /\ crops # <<>> /\ pc = "ocr" /\ crops' = Tail(crops) /\ cropNo' = cropNo + 1
      /\ UNCHANGED <<game, status, found, session, pc, tab, batch, clicks, slow, kicked, tally>>
  BY DEF ReadCrop
<1> QED
  BY <1>1, <1>3, <1>4, <1>5, <1>6 DEF cards

LEMMA ReadCropTyped ==
  ASSUME ScanInv, DbInv', ReadCrop
  PROVE  ScanInv'
<1>1. TypeOK /\ session \in Sessions /\ pc = "ocr" /\ IsFiniteSet(rows)
  BY CropRead DEF ScanInv, DbInv, Live
<1>2. PICK landed \in SUBSET (Head(crops).first .. Head(crops).last) :
        rows' = rows \cup NewRows(landed) /\ inserted' = inserted + Cardinality(landed)
  BY <1>1, CropRead
<1>3. /\ Head(crops) \in Crop /\ crops' \in Seq(Crop) /\ Len(crops') = Len(crops) - 1
      /\ Len(crops) \in Nat \ {0} /\ cropNo' = cropNo + 1 /\ errors' \in {errors, errors + 1}
      /\ UNCHANGED <<game, status, found, session, pc, tab, batch, clicks, slow, kicked, tally>>
  BY <1>1, CropRead, NextCrop
<1>4. Head(crops).first \in Nat /\ Head(crops).last \in Nat
  BY <1>3 DEF Crop
<1>5. IsFiniteSet(landed) /\ Cardinality(landed) \in Nat /\ landed \subseteq Nat
  <2> DEFINE cards == Head(crops).first .. Head(crops).last
  <2>1. IsFiniteSet(cards)
    BY <1>4, FS_Interval
  <2>2. cards \subseteq Nat
    BY <1>4
  <2> HIDE DEF cards
  <2>3. landed \in SUBSET cards
    BY <1>2 DEF cards
  <2> QED
    BY <2>1, <2>2, <2>3, FS_Subset, FS_CardinalityType
<1>6. cropNo + 1 \in 1..MaxBatches
  <2>1. Len(crops) + cropNo <= MaxBatches /\ cropNo \in Nat /\ MaxBatches \in Nat
    BY <1>1, Numbers DEF TypeOK
  <2> QED
    BY <1>3, <2>1
<1>7. NewRows(landed) \subseteq Row
  <2>1. tab \in Tabs
    BY <1>1 DEF TypeOK
  <2> QED
    BY <1>1, <1>5, <1>6, <2>1 DEF NewRows, Row
<1>8. IsFiniteSet(rows')
  BY <1>1, <1>2, <1>5, NewRowsCounted, FS_Union
<1>9. /\ {cropNo', errors', inserted', tally'} \subseteq Nat
      /\ Len(crops') + cropNo' <= MaxBatches
      /\ rows' \subseteq Row
  <2>1. /\ Len(crops) + cropNo <= MaxBatches /\ cropNo \in Nat /\ MaxBatches \in Nat
        /\ errors \in Nat /\ inserted \in Nat /\ tally \in Nat /\ rows \subseteq Row
    BY <1>1, Numbers DEF TypeOK
  <2>2. cropNo' \in Nat /\ errors' \in Nat /\ inserted' \in Nat /\ tally' \in Nat
    BY <1>2, <1>3, <1>5, <2>1
  <2>3. Len(crops') + cropNo' <= MaxBatches
    BY <1>3, <2>1
  <2> QED
    BY <1>2, <1>7, <2>1, <2>2, <2>3
<1>10. TypeOK'
  BY <1>1, <1>3, <1>9 DEF TypeOK, Crop, Row, game
<1>11. WithinLimits'
  BY <1>1, <1>3 DEF WithinLimits
<1> QED
  BY <1>8, <1>10, <1>11 DEF ScanInv

LEMMA ScanInvInit == Init => ScanInv
<1> SUFFICES ASSUME Init PROVE ScanInv
  OBVIOUS
<1>1. DbInv /\ IsFiniteSet(rows)
  BY DbInvInit, FS_EmptySet DEF Init
<1>2. crops \in Seq(Crop) /\ Len(crops) = 0
  BY EmptySeq DEF Init
<1>3. TypeOK
  <2>1. top \in [Tabs -> Nat] /\ \A t \in Tabs : top[t] \in 1..Listed[t] + 1
    BY SessionAssumption DEF Init
  <2>2. {cropNo, errors, inserted, tally} \subseteq Nat /\ Len(crops) + cropNo <= MaxBatches
    BY <1>2, SessionAssumption DEF Init
  <2>3. /\ batch \in 0..MaxBatches /\ clicks \in 0..PerBatch /\ slow \in 0..SlowLimit
        /\ session \in 0..MaxSessions
    BY SessionAssumption DEF Init
  <2> QED
    BY <1>2, <2>1, <2>2, <2>3 DEF Init, TypeOK, Crop, Pcs, Tabs, Statuses
<1> QED
  BY <1>1, <1>3 DEF ScanInv, WithinLimits, Init

LEMMA ScanInvStep == ScanInv /\ [Next]_vars => ScanInv'
<1> SUFFICES ASSUME ScanInv, [Next]_vars PROVE ScanInv'
  OBVIOUS
<1>1. DbInv' /\ TypeOK /\ IsFiniteSet(rows)
  BY DbInvStep DEF ScanInv
<1>2. CASE ScanStep
  BY <1>1, <1>2, EndsTyped, SweepTyped, ReadCropTyped DEF ScanStep
<1>3. CASE Begin
  <2>1. session' \in 0..MaxSessions
    BY <1>1, <1>3, SessionAssumption DEF Begin, TypeOK
  <2>2. TypeOK'
    BY <1>1, <1>3, <2>1 DEF Begin, TypeOK, sweep, Pcs, Statuses
  <2> QED
    BY <1>1, <1>3, <2>2 DEF Begin, ScanInv, WithinLimits
<1>4. CASE Kick
  BY <1>1, <1>4 DEF Kick, TypeOK, ScanInv, WithinLimits, db, sweep
<1>5. CASE Restart
  <2>1. /\ FreshTyped /\ pc' \in Pcs /\ tally' \in Nat
        /\ UNCHANGED <<game, rows, session>> /\ found' \in [Sessions -> Nat]
        /\ status' \in [Sessions -> Statuses]
    BY <1>1, <1>5 DEF Restart, FreshSweep, FreshTyped, Tabs, Pcs, TypeOK, Statuses
  <2> QED
    BY <1>1, <2>1, FreshScan
<1>6. ASSUME NEW s \in Sessions, DeleteSession(s) PROVE ScanInv'
  <2>1. rows' \subseteq rows /\ status' \in [Sessions -> Statuses]
    BY <1>1, <1>6 DEF DeleteSession, TypeOK, Statuses
  <2>2. TypeOK' /\ IsFiniteSet(rows')
    BY <1>1, <1>6, <2>1, FS_Subset DEF DeleteSession, TypeOK, game, sweep
  <2> QED
    BY <1>1, <1>6, <2>2 DEF DeleteSession, ScanInv, WithinLimits, sweep
<1>7. CASE UNCHANGED vars
  BY <1>1, <1>7 DEF vars, game, db, sweep, TypeOK, ScanInv, WithinLimits
<1> QED
  BY <1>2, <1>3, <1>4, <1>5, <1>6, <1>7 DEF Next

LEMMA ScanInvHolds == Spec => []ScanInv
BY ScanInvInit, ScanInvStep, PTL DEF Spec

\* The state of a scan keeps its types and bounds, whatever goes wrong.
THEOREM ScanTypesCorrect == Spec => []TypeOK
<1>1. ScanInv => TypeOK
  BY DEF ScanInv
<1> QED
  BY <1>1, ScanInvHolds, PTL

-----------------------------------------------------------------------------
(* However a sweep ends, what it has claimed is read.                      *)

\* What ends a sweep early, and loses nothing that was captured.
Harmless == {"ocr", "database", "delete", "restart"} \cap Faults = {}

Sweeping == pc \in {"batch", "clicking", "ocr"}

\* The chest is on a crop that has not been read.
Waits(t, c) ==
  Sweeping /\ t = tab /\ \E i \in 1..Len(crops) : c \in crops[i].first .. crops[i].last

Recorded(t, c) == \E r \in rows : r.tab = t /\ r.chest = c

\* Clicks open what the last crop shows.
Aimed ==
  pc = "clicking" /\ alive =>
    /\ Len(crops) > 0
    /\ crops[Len(crops)].first <= top[tab]
    /\ top[tab] <= crops[Len(crops)].first + clicks
    /\ crops[Len(crops)].last = Visible(crops[Len(crops)].first).last

\* What has been claimed is recorded or waits.
Covered == \A t \in Tabs : \A c \in 1..(top[t] - 1) : Recorded(t, c) \/ Waits(t, c)

NoneDeleted == \A s \in Sessions : status[s] # "DELETED"

CoverInv == ScanInv /\ Aimed /\ Covered /\ NoneDeleted

LEMMA CoverInit == Init => CoverInv
<1> SUFFICES ASSUME Init PROVE CoverInv
  OBVIOUS
<1>1. ScanInv
  BY ScanInvInit
<1>2. Aimed /\ Covered /\ NoneDeleted
  BY DEF Init, Aimed, Covered, NoneDeleted
<1> QED
  BY <1>1, <1>2 DEF CoverInv

\* At the end of a scan, and between its tabs, nothing waits.
LEMMA CoverBetween ==
  ASSUME CoverInv, ScanInv', UNCHANGED <<top, rows>>,
         ~Sweeping \/ crops = <<>>, ~Sweeping' \/ pc' = "batch", NoneDeleted'
  PROVE  CoverInv'
<1>1. \A t \in Tabs : \A c \in 1..(top[t] - 1) : Recorded(t, c)
  <2>1. crops = <<>> => 1..Len(crops) = {}
    BY EmptySeq
  <2> QED
    BY <2>1 DEF CoverInv, Covered, Waits
<1>2. Covered' /\ Aimed'
  BY <1>1 DEF Covered, Recorded, Aimed, Sweeping
<1> QED
  BY <1>2 DEF CoverInv

LEMMA CoverEnds ==
  ASSUME CoverInv, ScanInv', Ends, UNCHANGED game, ~Sweeping \/ crops = <<>>
  PROVE  CoverInv'
<1>1. NoneDeleted'
  BY DEF Ends, CoverInv, NoneDeleted, ScanInv, TypeOK
<1> QED
  BY <1>1, CoverBetween DEF Ends, Sweeping, game

\* The crops stay, and nothing is opened.
LEMMA CoverStays ==
  ASSUME CoverInv, ScanInv', Sweeping, Sweeping', pc' # "clicking",
         UNCHANGED <<top, rows, status, tab, crops>>
  PROVE  CoverInv'
BY DEF CoverInv, Aimed, Covered, Recorded, Waits, NoneDeleted

LEMMA CoverScreenshot ==
  ASSUME CoverInv, ScanInv', Screenshot
  PROVE  CoverInv'
<1>1. PICK probed \in BOOLEAN :
        crops' = Append(crops, [first |-> Visible(top[tab]).first,
                                last |-> IF alive THEN Visible(top[tab]).last ELSE 0,
                                probed |-> probed])
  BY DEF Screenshot
<1> DEFINE c == [first |-> Visible(top[tab]).first,
                 last |-> IF alive THEN Visible(top[tab]).last ELSE 0, probed |-> probed]
<1>2. /\ TypeOK /\ Covered /\ NoneDeleted /\ crops' = Append(crops, c)
      /\ pc = "batch" /\ pc' = "clicking" /\ clicks' = 0
      /\ UNCHANGED <<game, db, tab>>
  BY <1>1 DEF CoverInv, ScanInv, Screenshot, MayShoot
<1>3. top[tab] \in Nat /\ c.first = top[tab] /\ (alive => c.last = Visible(top[tab]).last)
  BY <1>2, Numbers DEF Visible
<1>4. c \in Crop
  <2>1. Visible(top[tab]).last \in Nat
    <3>1. top[tab] \in 1..Listed[tab] + 1 /\ Listed[tab] \in Nat /\ PerBatch \in Nat \ {0}
      BY <1>2, Numbers DEF TypeOK
    <3>2. top[tab] + PerBatch - 1 \in Nat
      BY <3>1
    <3> QED
      BY <3>1, <3>2 DEF Visible, Lower
  <2> QED
    BY <1>3, <2>1 DEF Crop
<1> HIDE DEF c
<1>5. /\ Len(crops') = Len(crops) + 1 /\ crops'[Len(crops) + 1] = c
      /\ \A i \in 1..Len(crops) : crops'[i] = crops[i]
      /\ Len(crops) \in Nat
  BY <1>2, <1>4, OneMoreCrop, Numbers
<1>6. Aimed'
  <2>1. ASSUME alive
        PROVE  /\ Len(crops') > 0 /\ crops'[Len(crops')] = c
               /\ c.first <= top[tab] /\ top[tab] <= c.first + 0
               /\ c.last = Visible(c.first).last
    BY <1>3, <1>5, <2>1
  <2> QED
    BY <1>2, <2>1 DEF Aimed, Visible, game
<1>7. Covered'
  BY <1>2, <1>5 DEF Covered, Recorded, Waits, Sweeping, game, db
<1> QED
  BY <1>2, <1>6, <1>7 DEF CoverInv, NoneDeleted, db

LEMMA CoverClick ==
  ASSUME CoverInv, ScanInv', Click
  PROVE  CoverInv'
<1>1. /\ TypeOK /\ Covered /\ NoneDeleted /\ Aimed /\ clicks < PerBatch /\ pc = "clicking"
      /\ UNCHANGED <<alive, db, pc, tab, crops>> /\ clicks' = clicks + 1
  BY DEF Click, CoverInv, ScanInv
<1>2. /\ top[tab] \in Nat /\ clicks \in Nat /\ PerBatch \in Nat /\ Listed[tab] \in Nat
      /\ Len(crops) \in Nat /\ tab \in Tabs /\ top \in [Tabs -> Nat]
      /\ \A i \in 1..Len(crops) : crops[i] \in Crop
  BY <1>1, Numbers, LenProperties
<1>3. CASE top' = top
  <2>1. Aimed'
    <3>1. SUFFICES ASSUME alive
                   PROVE  crops[Len(crops)].first \in Nat
      BY <1>1, <1>2, <1>3, <3>1 DEF Aimed, Visible
    <3> QED
      BY <1>1, <1>2, <3>1 DEF Aimed, Crop
  <2> QED
    BY <1>1, <1>3, <2>1 DEF CoverInv, Covered, Recorded, Waits, NoneDeleted, Sweeping, db
<1>4. CASE alive /\ top[tab] <= Listed[tab] /\ top' = [top EXCEPT ![tab] = @ + 1]
  <2> DEFINE last == crops[Len(crops)]
  <2>1. /\ Len(crops) \in 1..Len(crops) /\ last.first \in Nat
        /\ last.first <= top[tab] /\ top[tab] <= last.first + clicks
        /\ last.last = Visible(last.first).last
    BY <1>1, <1>2, <1>4 DEF Aimed, Crop
  <2>2. top[tab] \in last.first .. last.last
    <3>1. top[tab] <= last.first + PerBatch - 1
      BY <1>1, <1>2, <2>1
    <3> QED
      BY <1>2, <1>4, <2>1, <3>1 DEF Visible, Lower
  <2>3. top'[tab] = top[tab] + 1 /\ \A t \in Tabs : t # tab => top'[t] = top[t]
    BY <1>2, <1>4
  <2>4. Aimed'
    BY <1>1, <1>2, <2>1, <2>3 DEF Aimed, Visible
  <2>5. Covered'
    <3>1. SUFFICES ASSUME NEW t \in Tabs, NEW c \in 1..(top'[t] - 1)
                   PROVE  Recorded(t, c)' \/ Waits(t, c)'
      BY DEF Covered
    <3>2. CASE c \in 1..(top[t] - 1)
      BY <1>1, <3>2 DEF Covered, Recorded, Waits, Sweeping, db
    <3>3. CASE t = tab /\ c = top[tab]
      BY <1>1, <2>1, <2>2, <3>3 DEF Waits, Sweeping
    <3> QED
      BY <1>2, <2>3, <3>1, <3>2, <3>3
  <2> QED
    BY <1>1, <2>4, <2>5 DEF CoverInv, NoneDeleted, db
<1> QED
  BY <1>3, <1>4 DEF Click

LEMMA CoverRead ==
  ASSUME Harmless, CoverInv, ScanInv', ReadCrop
  PROVE  CoverInv'
<1>1. TypeOK /\ Covered /\ status[session] # "DELETED" /\ NoneDeleted
  BY CropRead DEF CoverInv, ScanInv, DbInv, Live, NoneDeleted
<1>2. /\ crops # <<>> /\ pc = "ocr" /\ crops' = Tail(crops)
      /\ UNCHANGED <<game, status, pc, tab>>
      /\ rows' = rows \cup NewRows(Head(crops).first .. Head(crops).last)
  BY <1>1, CropRead DEF Harmless
<1>3. /\ Len(Tail(crops)) = Len(crops) - 1 /\ Len(crops) \in Nat \ {0} /\ Head(crops) = crops[1]
      /\ \A i \in 1..Len(Tail(crops)) : Tail(crops)[i] = crops[i + 1]
  BY <1>1, <1>2, NextCrop
<1>4. Covered'
  <2>1. SUFFICES ASSUME NEW t \in Tabs, NEW c \in 1..(top[t] - 1)
                 PROVE  Recorded(t, c)' \/ Waits(t, c)'
    BY <1>2 DEF Covered, game
  <2>2. CASE Recorded(t, c)
    BY <1>2, <2>2 DEF Recorded
  <2>3. CASE Waits(t, c)
    <3>1. PICK i \in 1..Len(crops) : c \in crops[i].first .. crops[i].last
      BY <2>3 DEF Waits
    <3>2. t = tab
      BY <2>3 DEF Waits
    <3>3. CASE i = 1
      <4>1. [session |-> session, tab |-> tab, crop |-> cropNo + 1, chest |-> c] \in rows'
        BY <1>2, <1>3, <3>1, <3>3 DEF NewRows
      <4> QED
        BY <3>2, <4>1 DEF Recorded
    <3>4. CASE i # 1
      <4>1. i - 1 \in 1..Len(Tail(crops)) /\ Tail(crops)[i - 1] = crops[i]
        BY <1>3, <3>4
      <4> QED
        BY <1>2, <3>1, <3>2, <4>1 DEF Waits, Sweeping
    <3> QED
      BY <3>3, <3>4
  <2> QED
    BY <1>1, <2>2, <2>3 DEF Covered
<1>5. Aimed' /\ NoneDeleted'
  BY <1>1, <1>2 DEF Aimed, NoneDeleted
<1> QED
  BY <1>4, <1>5 DEF CoverInv

LEMMA CoverStep ==
  ASSUME Harmless PROVE CoverInv /\ [Next]_vars => CoverInv'
<1> SUFFICES ASSUME CoverInv, [Next]_vars PROVE CoverInv'
  OBVIOUS
<1>1. ScanInv' /\ ScanInv
  BY ScanInvStep DEF CoverInv
<1>2. CASE \/ NotOnGifts \/ NavigationThrows \/ SwitchThrows \/ SweepKicked \/ GiftsFailed
           \/ TriumphalSwept \/ SweepThrows
  <2>1. ~Sweeping \/ crops = <<>>
    BY <1>2 DEF NotOnGifts, NavigationThrows, SwitchThrows, SweepKicked, GiftsFailed,
                TriumphalSwept, SweepThrows, SweepRead, Sweeping
  <2>2. Ends
    <3>1. Ordered
      BY <1>1 DEF ScanInv, DbInv
    <3>2. CASE NotOnGifts
      BY <3>1, <3>2, CloseEnds DEF NotOnGifts, Ordered
    <3>3. CASE NavigationThrows \/ SweepKicked
      BY <3>3, AbortEnds DEF NavigationThrows, SweepKicked, SweepRead
    <3>4. CASE SwitchThrows \/ TriumphalSwept \/ SweepThrows
      BY <3>4, AbortEnds, SucceedEnds DEF SwitchThrows, TriumphalSwept, SweepThrows, SweepRead
    <3>5. CASE GiftsFailed
      <4>1. RowsOf(session) = {} /\ rows' = rows
        BY <3>1, <3>5 DEF GiftsFailed, Ordered, SweepRead
      <4> QED
        BY <3>5, <4>1, CloseEnds DEF GiftsFailed, SweepRead
    <3> QED
      BY <1>2, <3>2, <3>3, <3>4, <3>5
  <2>3. UNCHANGED game
    BY <1>2 DEF NotOnGifts, NavigationThrows, SwitchThrows, SweepKicked, GiftsFailed,
                TriumphalSwept, SweepThrows
  <2> QED
    BY <1>1, <2>1, <2>2, <2>3, CoverEnds
<1>3. CASE GiftsSwept
  <2>1. crops = <<>> /\ pc = "ocr" /\ UNCHANGED <<game, session>>
    BY <1>3 DEF GiftsSwept, SweepRead
  <2>2. CASE Triumphal
    BY <1>1, <1>3, <2>1, <2>2, CoverBetween
       DEF GiftsSwept, Sweeping, game, db, CoverInv, NoneDeleted
  <2>3. CASE ~Triumphal
    <3>1. Ends
      BY <1>3, <2>1, <2>3, CloseEnds DEF GiftsSwept
    <3> QED
      BY <1>1, <2>1, <3>1, CoverEnds
  <2> QED
    BY <2>2, <2>3
<1>4. CASE OnGiftsTab \/ OnTriumphalTab
  BY <1>1, <1>4, CoverBetween
     DEF OnGiftsTab, OnTriumphalTab, Sweeping, game, db, CoverInv, NoneDeleted
<1>5. CASE CaptureEnds \/ NoCards \/ KickSeen \/ CaptureThrows \/ BatchDone
  BY <1>1, <1>5, CoverStays
     DEF CaptureEnds, NoCards, KickSeen, CaptureThrows, BatchDone, MayShoot, CropsOnThrow,
         Sweeping, game, db
<1>6. CASE Screenshot \/ Click \/ ReadCrop
  BY <1>1, <1>6, CoverScreenshot, CoverClick, CoverRead
<1>7. CASE Begin
  <2>1. NoneDeleted'
    BY <1>1, <1>7 DEF Begin, CoverInv, NoneDeleted, ScanInv, TypeOK
  <2> QED
    BY <1>1, <1>7, <2>1, CoverBetween DEF Begin, Sweeping
<1>8. CASE Kick
  BY <1>1, <1>8
     DEF Kick, CoverInv, Aimed, Covered, Recorded, Waits, NoneDeleted, Sweeping, db, sweep
<1>9. CASE Restart \/ \E s \in Sessions : DeleteSession(s)
  BY <1>9 DEF Restart, DeleteSession, Harmless
<1>10. CASE UNCHANGED vars
  <2>1. UNCHANGED <<top, alive, rows, status, pc, tab, clicks, crops>>
    BY <1>10 DEF vars, game, db, sweep
  <2>2. Covered' <=> Covered
    BY <2>1 DEF Covered, Recorded, Waits, Sweeping
  <2>3. (Aimed' <=> Aimed) /\ (NoneDeleted' <=> NoneDeleted)
    BY <2>1 DEF Aimed, NoneDeleted, Visible
  <2> QED
    BY <1>1, <2>2, <2>3 DEF CoverInv
<1> QED
  BY <1>2, <1>3, <1>4, <1>5, <1>6, <1>7, <1>8, <1>9, <1>10 DEF Next, ScanStep

\* If crops are read in full, rows are recorded, nobody deletes a session and the
\* process lives, then whatever else ends a sweep early (a kick, a stall, a dying
\* browser), every chest claimed is recorded once the scan is over.
THEOREM EarlyEndsLoseNothing == ASSUME Harmless PROVE Spec => []ClaimedIsRecorded
<1>1. CoverInv => ClaimedIsRecorded
  <2> SUFFICES ASSUME CoverInv, pc = "idle", NEW c \in Claimed PROVE Copies(c) # {}
    BY DEF ClaimedIsRecorded
  <2>1. PICK t \in Tabs : c \in {t} \X (1..Listed[t])
    BY DEF Claimed, Chests
  <2>2. c[1] = t /\ c[2] \in Nat /\ c[2] >= 1 /\ c[2] < top[t] /\ top[t] \in Nat
    BY <2>1, SessionAssumption DEF Claimed, CoverInv, ScanInv, TypeOK
  <2>3. c[2] \in 1..(top[t] - 1)
    BY <2>2
  <2>4. Recorded(t, c[2])
    BY <2>3 DEF CoverInv, Covered, Waits, Sweeping
  <2> QED
    BY <2>2, <2>4 DEF Recorded, Copies
<1>2. Init => CoverInv
  BY CoverInit
<1>3. CoverInv /\ [Next]_vars => CoverInv'
  BY CoverStep
<1> QED
  BY <1>1, <1>2, <1>3, PTL DEF Spec

-----------------------------------------------------------------------------
(* A completed session reports what it has recorded.                       *)

\* The gift rows of a scan are those its sweep and its tally have counted.
Tallied ==
  /\ pc = "idle" => tally = 0 /\ inserted = 0 /\ tab = "gifts"
  /\ pc \in {"navigate", "switch"} => inserted = 0 /\ tab = "gifts"
  /\ pc # "idle" /\ status[session] # "DELETED" =>
       Cardinality(GiftRows(session)) = IF tab = "gifts" THEN tally + inserted ELSE tally

\* A crop is read once, so its rows are new ones.
CropsAhead ==
  pc # "idle" /\ tab = "gifts" /\ pc # "switch" => \A r \in GiftRows(session) : r.crop <= cropNo

CountInv == ScanInv /\ Tallied /\ CropsAhead /\ FoundIsRecorded

LEMMA CountInit == Init => CountInv
<1> SUFFICES ASSUME Init PROVE CountInv
  OBVIOUS
<1>1. Tallied /\ CropsAhead /\ FoundIsRecorded
  BY DEF Init, Tallied, CropsAhead, FoundIsRecorded
<1> QED
  BY <1>1, ScanInvInit DEF CountInv

\* A scan that ends reports its rows, or fails and reports nothing.
LEMMA ReportEnds ==
  ASSUME CountInv, ScanInv', pc # "idle", NEW st \in {"COMPLETED", "FAILED"}, NEW n \in Nat,
         Close(st, n), UNCHANGED <<rows, session>>,
         st = "COMPLETED" /\ status[session] # "DELETED" => n = Cardinality(GiftRows(session))
  PROVE  CountInv'
<1>1. /\ status \in [Sessions -> Statuses] /\ found \in [Sessions -> Nat] /\ session \in Sessions
      /\ \A s \in Sessions : GiftRows(s)' = GiftRows(s)
  BY DEF CountInv, ScanInv, DbInv, Live, TypeOK, GiftRows, RowsOf
<1>2. FoundIsRecorded'
  <2>1. CASE status[session] = "DELETED"
    BY <1>1, <2>1 DEF CountInv, FoundIsRecorded, Close
  <2>2. CASE status[session] # "DELETED"
    <3>1. status' = [status EXCEPT ![session] = st] /\ found' = [found EXCEPT ![session] = n]
      BY <2>2 DEF Close
    <3> QED
      BY <1>1, <2>2, <3>1 DEF CountInv, FoundIsRecorded
  <2> QED
    BY <2>1, <2>2
<1>3. Tallied' /\ CropsAhead'
  BY DEF Close, FreshSweep, Tallied, CropsAhead
<1> QED
  BY <1>2, <1>3 DEF CountInv

LEMMA ReportAbort ==
  ASSUME "count" \notin Faults, CountInv, ScanInv', pc # "idle", NEW expected \in BOOLEAN,
         Abort(expected), UNCHANGED session
  PROVE  CountInv'
<1>1. rows' = rows
  BY AbortEnds DEF Ends
<1>2. /\ Cardinality(GiftRows(session)) \in Nat /\ tally \in Nat /\ inserted \in Nat
      /\ found[session] \in Nat
  BY GiftsCounted DEF CountInv, ScanInv, DbInv, Live, TypeOK
<1>3. CASE Close("COMPLETED", Kept(TRUE))
  <2>1. Kept(TRUE) \in Nat
    BY <1>2 DEF Kept
  <2>2. status[session] # "DELETED" => Kept(TRUE) = Cardinality(GiftRows(session))
    BY <1>2 DEF Kept, CountInv, Tallied
  <2> QED
    BY <1>1, <1>3, <2>1, <2>2, ReportEnds
<1>4. CASE \E n \in Nat : Close("FAILED", n)
  BY <1>1, <1>4, ReportEnds
<1> QED
  BY <1>2, <1>3, <1>4 DEF Abort

LEMMA ReportSuccess ==
  ASSUME CountInv, ScanInv', pc = "switch" \/ tab = "triumphal", pc # "idle", Succeed,
         UNCHANGED session
  PROVE  CountInv'
<1>1. /\ tally \in Nat
      /\ status[session] # "DELETED" => tally = Cardinality(GiftRows(session))
  <2>1. tally \in Nat /\ Tallied
    BY DEF CountInv, ScanInv, TypeOK
  <2>2. tab = "gifts" => inserted = 0
    BY <2>1 DEF Tallied
  <2>3. tally + 0 = tally
    BY <2>1
  <2> QED
    BY <2>1, <2>2, <2>3 DEF Tallied
<1> QED
  BY <1>1, ReportEnds DEF Succeed

LEMMA CountEnds ==
  ASSUME "count" \notin Faults, CountInv, ScanInv',
         \/ NotOnGifts \/ NavigationThrows \/ SwitchThrows \/ SweepKicked \/ GiftsFailed
         \/ GiftsSwept \/ TriumphalSwept \/ SweepThrows
  PROVE  CountInv'
<1>1. /\ found[session] \in Nat \/ pc = "idle"
      /\ tally \in Nat /\ inserted \in Nat /\ Tallied
  BY DEF CountInv, ScanInv, DbInv, Live, TypeOK
<1>2. CASE NavigationThrows \/ SweepKicked
  BY <1>2, ReportAbort DEF NavigationThrows, SweepKicked, SweepRead
<1>3. CASE SwitchThrows \/ TriumphalSwept \/ SweepThrows
  BY <1>3, ReportAbort, ReportSuccess DEF SwitchThrows, TriumphalSwept, SweepThrows, SweepRead
<1>4. CASE NotOnGifts
  <2>1. pc # "idle" /\ found[session] \in Nat
    BY <1>1, <1>4 DEF NotOnGifts
  <2> QED
    BY <1>4, <2>1, ReportEnds DEF NotOnGifts
<1>5. CASE GiftsFailed
  <2>1. rows' = rows /\ pc # "idle"
    BY <1>5 DEF GiftsFailed, SweepRead
  <2> QED
    BY <1>5, <2>1, ReportEnds DEF GiftsFailed
<1>6. CASE GiftsSwept
  <2>1. /\ pc = "ocr" /\ tab = "gifts" /\ UNCHANGED <<game, session>> /\ tally + inserted \in Nat
        /\ status[session] # "DELETED" => tally + inserted = Cardinality(GiftRows(session))
    BY <1>1, <1>6 DEF GiftsSwept, SweepRead, Tallied
  <2>2. CASE Triumphal
    <3>1. /\ pc' = "switch" /\ tally' = tally + inserted /\ inserted' = 0 /\ tab' = "gifts"
          /\ UNCHANGED <<db, session>>
      BY <1>6, <2>2 DEF GiftsSwept, FreshSweep
    <3>2. Tallied' /\ CropsAhead' /\ FoundIsRecorded'
      BY <2>1, <3>1 DEF Tallied, CropsAhead, FoundIsRecorded, CountInv, GiftRows, RowsOf, db
    <3> QED
      BY <3>2 DEF CountInv
  <2>3. CASE ~Triumphal
    BY <1>6, <2>1, <2>3, ReportEnds DEF GiftsSwept
  <2> QED
    BY <2>2, <2>3
<1> QED
  BY <1>2, <1>3, <1>4, <1>5, <1>6

LEMMA CountRead ==
  ASSUME CountInv, ScanInv', ReadCrop
  PROVE  CountInv'
<1>1. /\ TypeOK /\ IsFiniteSet(rows) /\ session \in Sessions /\ pc = "ocr" /\ Tallied /\ CropsAhead
      /\ status[session] \in {"PENDING", "DELETED"} /\ FoundIsRecorded
  BY CropRead DEF CountInv, ScanInv, DbInv, Live
<1>2. PICK landed \in SUBSET (Head(crops).first .. Head(crops).last) :
        /\ rows' = rows \cup NewRows(landed) /\ inserted' = inserted + Cardinality(landed)
        /\ status[session] = "DELETED" => landed = {}
  BY <1>1, CropRead
<1>3. /\ crops # <<>> /\ cropNo' = cropNo + 1
      /\ UNCHANGED <<status, found, session, pc, tab, tally>>
  BY <1>1, CropRead
<1>4. IsFiniteSet(landed) /\ Cardinality(landed) \in Nat
  <2>1. Head(crops).first \in Nat /\ Head(crops).last \in Nat
    BY <1>1, <1>3, NextCrop DEF Crop
  <2>2. IsFiniteSet(Head(crops).first .. Head(crops).last)
    BY <2>1, FS_Interval
  <2> QED
    BY <2>2, FS_Subset, FS_CardinalityType
<1>5. cropNo \in Nat /\ tally \in Nat /\ inserted \in Nat
  BY <1>1, Numbers
<1>6. \A s \in Sessions : s # session => GiftRows(s)' = GiftRows(s)
  BY <1>2 DEF GiftRows, RowsOf, NewRows
<1>7. FoundIsRecorded'
  BY <1>1, <1>3, <1>6 DEF FoundIsRecorded
<1>8. CASE tab = "gifts"
  <2>1. GiftRows(session)' = GiftRows(session) \cup NewRows(landed)
    <3>1. \A r \in NewRows(landed) : r.session = session /\ r.tab = "gifts"
      BY <1>8 DEF NewRows
    <3>2. session' = session /\ rows' = rows \cup NewRows(landed)
      BY <1>2, <1>3
    <3> QED
      BY <3>1, <3>2 DEF GiftRows, RowsOf
  <2>2. GiftRows(session) \cap NewRows(landed) = {}
    <3>1. ASSUME NEW r \in GiftRows(session), r \in NewRows(landed) PROVE FALSE
      <4>1. r.crop <= cropNo /\ r.crop = cropNo + 1
        BY <1>1, <1>8, <3>1 DEF CropsAhead, NewRows
      <4> QED
        BY <1>5, <4>1
    <3> QED
      BY <3>1
  <2>3. /\ IsFiniteSet(GiftRows(session)) /\ Cardinality(GiftRows(session)) \in Nat
        /\ IsFiniteSet(NewRows(landed)) /\ Cardinality(NewRows(landed)) = Cardinality(landed)
    BY <1>1, <1>4, GiftsCounted, NewRowsCounted
  <2>4. Cardinality(GiftRows(session))' = Cardinality(GiftRows(session)) + Cardinality(landed)
    <3>1. /\ Cardinality(GiftRows(session) \cup NewRows(landed))
              = Cardinality(GiftRows(session)) + Cardinality(NewRows(landed))
                - Cardinality(GiftRows(session) \cap NewRows(landed))
      BY <2>3, FS_Union
    <3>2. Cardinality({}) = 0
      BY FS_EmptySet
    <3>3. Cardinality(GiftRows(session) \cap NewRows(landed)) = 0
      BY <2>2, <3>2
    <3>4. Cardinality(GiftRows(session))' = Cardinality(GiftRows(session) \cup NewRows(landed))
      BY <2>1
    <3> QED
      BY <2>3, <3>1, <3>3, <3>4, <1>4
  <2>5. Tallied'
    BY <1>1, <1>2, <1>3, <1>4, <1>5, <1>8, <2>3, <2>4 DEF Tallied
  <2>6. CropsAhead'
    <3>1. ASSUME NEW r \in GiftRows(session)' PROVE r.crop <= cropNo + 1
      <4>1. CASE r \in NewRows(landed)
        BY <1>5, <4>1 DEF NewRows
      <4>2. CASE r \in GiftRows(session)
        <5>1. r.crop <= cropNo /\ r.crop \in Nat
          BY <1>1, <1>8, <4>2, SessionAssumption DEF CropsAhead, GiftRows, RowsOf, TypeOK
        <5> QED
          BY <1>5, <5>1
      <4> QED
        BY <2>1, <4>1, <4>2
    <3> QED
      BY <1>3, <3>1 DEF CropsAhead
  <2> QED
    BY <1>7, <2>5, <2>6 DEF CountInv
<1>9. CASE tab # "gifts"
  <2>1. GiftRows(session)' = GiftRows(session)
    BY <1>2, <1>3, <1>9 DEF GiftRows, RowsOf, NewRows
  <2> QED
    BY <1>1, <1>3, <1>7, <1>9, <2>1 DEF CountInv, Tallied, CropsAhead
<1> QED
  BY <1>8, <1>9

\* What leaves the rows and the numbers of a scan alone.
LEMMA CountStays ==
  ASSUME CountInv, ScanInv',
         UNCHANGED <<rows, status, found, session, tab, cropNo, inserted, tally>>,
         \/ pc' = pc
         \/ pc \in {"batch", "clicking", "ocr"} /\ pc' \in {"batch", "clicking", "ocr"}
  PROVE  CountInv'
<1>1. \A s \in Sessions \cup {session} : GiftRows(s)' = GiftRows(s)
  BY DEF GiftRows, RowsOf
<1>2. Tallied' /\ CropsAhead' /\ FoundIsRecorded'
  BY <1>1 DEF CountInv, Tallied, CropsAhead, FoundIsRecorded
<1> QED
  BY <1>2 DEF CountInv

LEMMA CountStep ==
  ASSUME "count" \notin Faults PROVE CountInv /\ [Next]_vars => CountInv'
<1> SUFFICES ASSUME CountInv, [Next]_vars PROVE CountInv'
  OBVIOUS
<1>1. ScanInv' /\ ScanInv /\ Tallied /\ CropsAhead /\ FoundIsRecorded
  BY ScanInvStep DEF CountInv
<1>2. CASE \/ NotOnGifts \/ NavigationThrows \/ SwitchThrows \/ SweepKicked \/ GiftsFailed
           \/ GiftsSwept \/ TriumphalSwept \/ SweepThrows
  BY <1>1, <1>2, CountEnds
<1>3. CASE OnGiftsTab \/ OnTriumphalTab
  <2>1. /\ UNCHANGED <<rows, status, found, session, tally>> /\ pc' = "batch" /\ inserted' = 0
        /\ cropNo' = 0 /\ pc \in {"navigate", "switch"}
        /\ tab' = "gifts" => pc = "navigate"
    BY <1>3 DEF OnGiftsTab, OnTriumphalTab, FreshSweep, db
  <2>2. \A s \in Sessions \cup {session} : GiftRows(s)' = GiftRows(s)
    BY <2>1 DEF GiftRows, RowsOf
  <2>3. pc = "navigate" => GiftRows(session) = {}
    BY <1>1 DEF ScanInv, DbInv, Ordered, GiftRows
  <2>4. tally \in Nat
    BY <1>1 DEF ScanInv, TypeOK
  <2>5. Tallied' /\ CropsAhead' /\ FoundIsRecorded'
    BY <1>1, <2>1, <2>2, <2>3, <2>4 DEF Tallied, CropsAhead, FoundIsRecorded
  <2> QED
    BY <1>1, <2>5 DEF CountInv
<1>4. CASE \/ CaptureEnds \/ Screenshot \/ NoCards \/ KickSeen \/ CaptureThrows \/ Click
           \/ BatchDone \/ Kick \/ UNCHANGED vars
  BY <1>1, <1>4, CountStays
     DEF CaptureEnds, Screenshot, NoCards, KickSeen, CaptureThrows, Click, BatchDone, Kick,
         MayShoot, vars, game, db, sweep
<1>5. CASE ReadCrop
  BY <1>1, <1>5, CountRead
<1>6. CASE Begin
  <2>1. /\ pc = "idle" /\ pc' = "navigate" /\ session' \in Sessions /\ status[session'] = "none"
        /\ status' = [status EXCEPT ![session'] = "PENDING"] /\ status \in [Sessions -> Statuses]
        /\ UNCHANGED <<rows, found, tab, cropNo, inserted, tally>>
    BY <1>1, <1>6, SessionAssumption DEF Begin, sweep, ScanInv, DbInv, Live, TypeOK, Sessions
  <2>2. RowsOf(session') = {} /\ \A s \in Sessions : GiftRows(s)' = GiftRows(s)
    BY <1>1, <2>1 DEF ScanInv, DbInv, NoStrayRows, GiftRows, RowsOf
  <2>3. GiftRows(session)' = {} /\ Cardinality({}) = 0
    BY <2>1, <2>2, FS_EmptySet DEF GiftRows, RowsOf
  <2>4. Tallied' /\ CropsAhead'
    BY <1>1, <2>1, <2>3 DEF Tallied, CropsAhead
  <2>5. FoundIsRecorded'
    BY <1>1, <2>1, <2>2 DEF FoundIsRecorded
  <2> QED
    BY <1>1, <2>4, <2>5 DEF CountInv
<1>7. CASE Restart
  <2>1. \A s \in Sessions : GiftRows(s)' = GiftRows(s)
    BY <1>7 DEF Restart, GiftRows, RowsOf
  <2>2. Tallied' /\ CropsAhead' /\ FoundIsRecorded'
    BY <1>1, <1>7, <2>1 DEF Restart, FreshSweep, Tallied, CropsAhead, FoundIsRecorded
  <2> QED
    BY <1>1, <2>2 DEF CountInv
<1>8. ASSUME NEW s \in Sessions, DeleteSession(s) PROVE CountInv'
  <2>1. /\ status' = [status EXCEPT ![s] = "DELETED"] /\ status \in [Sessions -> Statuses]
        /\ rows' = rows \ RowsOf(s) /\ UNCHANGED <<found, session, pc, sweep, tally>>
    BY <1>1, <1>8 DEF DeleteSession, ScanInv, TypeOK
  <2>2. /\ \A x \in Sessions : x # s => GiftRows(x)' = GiftRows(x)
        /\ session # s => GiftRows(session)' = GiftRows(session)
        /\ GiftRows(session)' \subseteq GiftRows(session)
    BY <2>1 DEF GiftRows, RowsOf
  <2>3. Tallied' /\ CropsAhead'
    BY <1>1, <2>1, <2>2 DEF Tallied, CropsAhead, sweep, ScanInv, DbInv, Live
  <2>4. FoundIsRecorded'
    BY <1>1, <2>1, <2>2 DEF FoundIsRecorded
  <2> QED
    BY <1>1, <2>3, <2>4 DEF CountInv
<1> QED
  BY <1>2, <1>3, <1>4, <1>5, <1>6, <1>7, <1>8 DEF Next, ScanStep

\* If the recorded rows can be counted, chests_found of a completed session is the
\* number of its rows on the Gifts tab, however the scan ended.
THEOREM FoundMatchesRows == ASSUME "count" \notin Faults PROVE Spec => []FoundIsRecorded
<1>1. CountInv => FoundIsRecorded
  BY DEF CountInv
<1>2. Init => CountInv
  BY CountInit
<1>3. CountInv /\ [Next]_vars => CountInv'
  BY CountStep
<1> QED
  BY <1>1, <1>2, <1>3, PTL DEF Spec

-----------------------------------------------------------------------------
(* The ledger of claims.                                                   *)

\* What goes wrong without losing a claim or reading it twice: no click is lost, every
\* crop is read and recorded, nobody else logs in or deletes, and the process lives.
Lossless == Faults \subseteq {"navigation", "screenshot", "stall", "probe", "count"}

Waiting == Sweeping /\ Len(crops) > 0

\* The first chest of a tab that is not recorded yet.
NextChest(t) == IF t = tab /\ Waiting THEN crops[1].first ELSE top[t]

\* A chest below it has one row, and no other chest has any.
OnceEach ==
  \A c \in Chests : IF c[2] < NextChest(c[1]) THEN \E r : Copies(c) = {r} ELSE Copies(c) = {}

\* A crop shows the cards from the top one.
Shown(crop) == crop.first \in 1..Listed[tab] + 1 /\ crop.last = Visible(crop.first).last

\* The crops that wait follow each other, up to the chest that is opened next.
Chained ==
  Sweeping =>
    /\ \A i \in 1..Len(crops) : Shown(crops[i])
    /\ \A i \in 1..Len(crops) : i > 1 => crops[i].first = crops[i - 1].last + 1
    /\ \A i \in 1..Len(crops) : i < Len(crops) \/ pc # "clicking" => crops[i].last < top[tab]
    /\ Len(crops) > 0 /\ pc # "clicking" => top[tab] = crops[Len(crops)].last + 1
    /\ pc = "clicking" =>
         /\ Len(crops) > 0
         /\ top[tab] = Lower(crops[Len(crops)].first + clicks, crops[Len(crops)].last + 1)

LedgerInv == CoverInv /\ alive /\ OnceEach /\ Chained

LEMMA ShownCards ==
  ASSUME TypeOK, NEW crop \in Crop, Shown(crop)
  PROVE  /\ crop.first \in Nat \ {0} /\ crop.last \in Nat
         /\ crop.first <= crop.last + 1 /\ crop.last <= Listed[tab]
         /\ crop.last <= crop.first + PerBatch - 1
         /\ crop.last = crop.first + PerBatch - 1 \/ crop.last = Listed[tab]
<1>1. Listed[tab] \in Nat /\ PerBatch \in Nat \ {0} /\ crop.first \in 1..Listed[tab] + 1
  BY Numbers DEF Shown
<1>2. crop.last = Lower(crop.first + PerBatch - 1, Listed[tab])
  BY DEF Shown, Visible
<1>3. crop.first + PerBatch - 1 \in Nat
  BY <1>1
<1> QED
  BY <1>1, <1>2, <1>3 DEF Lower

LEMMA LedgerInvInit == Init => LedgerInv
<1> SUFFICES ASSUME Init PROVE LedgerInv
  OBVIOUS
<1>1. CoverInv /\ alive /\ Chained
  BY CoverInit DEF Init, Chained, Sweeping
<1>2. OnceEach
  <2>1. SUFFICES ASSUME NEW c \in Chests
                 PROVE  ~(c[2] < NextChest(c[1])) /\ Copies(c) = {}
    BY DEF OnceEach
  <2>2. PICK t \in Tabs : c \in {t} \X (1..Listed[t])
    BY <2>1 DEF Chests
  <2>3. c[1] = t /\ c[2] >= 1 /\ NextChest(t) = 1 /\ c[2] \in Nat
    BY <2>2, SessionAssumption DEF Init, NextChest, Waiting, Sweeping
  <2> QED
    BY <2>3 DEF Init, Copies
<1> QED
  BY <1>1, <1>2 DEF LedgerInv

\* Nothing is opened or recorded, and the chests that wait are the same.
LEMMA OnceEachStays ==
  ASSUME OnceEach, UNCHANGED <<top, rows>>, \A t \in Tabs : NextChest(t)' = NextChest(t)
  PROVE  OnceEach'
<1>1. \A c \in Chests : c[1] \in Tabs
  BY DEF Chests
<1>2. \A c \in Chests : Copies(c)' = Copies(c)
  BY DEF Copies
<1> QED
  BY <1>1, <1>2 DEF OnceEach

\* Between two sweeps nothing waits.
LEMMA LedgerBetween ==
  ASSUME LedgerInv, CoverInv', UNCHANGED <<top, rows, alive>>,
         ~Sweeping \/ crops = <<>>, ~Sweeping' \/ (pc' = "batch" /\ crops' = <<>>)
  PROVE  LedgerInv'
<1>1. Len(<<>>) = 0
  BY EmptySeq
<1>2. ~Waiting /\ ~Waiting'
  BY <1>1 DEF Waiting
<1>3. Chained'
  BY <1>1 DEF Chained
<1>4. OnceEach'
  BY <1>2, OnceEachStays DEF LedgerInv, NextChest
<1> QED
  BY <1>3, <1>4 DEF LedgerInv

\* The crops stay, and nothing is opened.
LEMMA LedgerStays ==
  ASSUME LedgerInv, CoverInv', pc = "batch" /\ pc' = "ocr",
         UNCHANGED <<top, rows, alive, tab, crops>>
  PROVE  LedgerInv'
<1>1. Sweeping /\ Sweeping'
  BY DEF Sweeping
<1>2. Chained'
  BY <1>1 DEF LedgerInv, Chained, Shown, Visible
<1>3. OnceEach'
  BY <1>1, OnceEachStays DEF LedgerInv, NextChest, Waiting
<1> QED
  BY <1>2, <1>3 DEF LedgerInv

LEMMA LedgerScreenshot ==
  ASSUME LedgerInv, CoverInv', Screenshot
  PROVE  LedgerInv' /\ UNCHANGED <<top, rows>>
<1>1. PICK probed \in BOOLEAN :
        crops' = Append(crops, [first |-> Visible(top[tab]).first,
                                last |-> Visible(top[tab]).last, probed |-> probed])
  BY DEF Screenshot, LedgerInv
<1> DEFINE c == [first |-> Visible(top[tab]).first, last |-> Visible(top[tab]).last,
                 probed |-> probed]
<1>2. /\ TypeOK /\ Chained /\ OnceEach /\ alive /\ crops' = Append(crops, c)
      /\ pc = "batch" /\ pc' = "clicking" /\ clicks' = 0 /\ UNCHANGED <<top, rows, alive, tab>>
  BY <1>1 DEF LedgerInv, CoverInv, ScanInv, Screenshot, MayShoot, game, db
<1>3. top[tab] \in 1..Listed[tab] + 1 /\ c.first = top[tab] /\ c.last = Visible(top[tab]).last
  BY <1>2, Numbers DEF Visible, TypeOK
<1>4. c \in Crop
  <2>1. Listed[tab] \in Nat /\ PerBatch \in Nat \ {0} /\ top[tab] \in Nat
    BY <1>2, Numbers
  <2>2. top[tab] + PerBatch - 1 \in Nat
    BY <1>3, <2>1
  <2>3. Visible(top[tab]).last \in Nat
    BY <2>1, <2>2 DEF Visible, Lower
  <2> QED
    BY <1>3, <2>1, <2>3 DEF Crop
<1> HIDE DEF c
<1>5. Shown(c)
  BY <1>3 DEF Shown
<1>6. c.first \in Nat /\ c.last \in Nat /\ c.first <= c.last + 1
  BY <1>2, <1>4, <1>5, ShownCards
<1>7. /\ Len(crops') = Len(crops) + 1 /\ crops'[Len(crops) + 1] = c
      /\ \A i \in 1..Len(crops) : crops'[i] = crops[i]
      /\ Len(crops) \in Nat
  BY <1>2, <1>4, OneMoreCrop, Numbers
<1>8. Sweeping /\ Sweeping' /\ pc # "clicking"
  BY <1>2 DEF Sweeping
<1>9. Chained'
  <2>1. ASSUME NEW i \in 1..Len(crops')
        PROVE  Shown(crops[i])' /\ (i > 1 => crops'[i].first = crops'[i - 1].last + 1)
    <3>1. CASE i = Len(crops) + 1
      <4>1. crops'[i] = c /\ Shown(crops[i])'
        BY <1>2, <1>5, <1>7, <3>1 DEF Shown, Visible
      <4>2. i > 1 => i - 1 \in 1..Len(crops) /\ i - 1 = Len(crops)
        BY <1>7, <3>1
      <4>3. i > 1 => top[tab] = crops[Len(crops)].last + 1
        BY <1>2, <1>7, <1>8, <3>1 DEF Chained
      <4> QED
        BY <1>3, <1>7, <4>1, <4>2, <4>3
    <3>2. CASE i # Len(crops) + 1
      <4>1. i \in 1..Len(crops) /\ (i > 1 => i - 1 \in 1..Len(crops))
        BY <1>7, <3>2
      <4> QED
        BY <1>2, <1>7, <1>8, <4>1 DEF Chained, Shown, Visible
    <3> QED
      BY <3>1, <3>2
  <2>2. top'[tab'] = Lower(c.first + clicks', c.last + 1)
    BY <1>2, <1>3, <1>6 DEF Lower
  <2>3. ASSUME NEW i \in 1..Len(crops'), i < Len(crops') PROVE crops'[i].last < top'[tab']
    <3>1. i \in 1..Len(crops)
      BY <1>7, <2>3
    <3> QED
      BY <1>2, <1>7, <1>8, <3>1 DEF Chained
  <2> QED
    BY <1>2, <1>7, <2>1, <2>2, <2>3 DEF Chained
<1>10. OnceEach'
  <2>1. \A t \in Tabs : NextChest(t)' = NextChest(t)
    <3>1. CASE Len(crops) = 0
      BY <1>2, <1>3, <1>7, <1>8, <3>1 DEF NextChest, Waiting
    <3>2. CASE Len(crops) # 0
      <4>1. 1 \in 1..Len(crops)
        BY <1>7, <3>2
      <4> QED
        BY <1>2, <1>7, <1>8, <4>1 DEF NextChest, Waiting
    <3> QED
      BY <3>1, <3>2
  <2> QED
    BY <1>2, <2>1, OnceEachStays
<1> QED
  BY <1>2, <1>9, <1>10 DEF LedgerInv

\* A click opens the top chest, or nothing if the list is empty.
LEMMA LedgerClick ==
  ASSUME Lossless, LedgerInv, CoverInv', Click
  PROVE  /\ LedgerInv' /\ UNCHANGED <<rows, tab>> /\ tab \in Tabs
         /\ \/ top' = top
            \/ top[tab] <= Listed[tab] /\ top' = [top EXCEPT ![tab] = @ + 1]
<1>1. /\ TypeOK /\ Chained /\ OnceEach /\ alive /\ pc = "clicking" /\ clicks < PerBatch
      /\ clicks' = clicks + 1 /\ UNCHANGED <<alive, rows, pc, tab, crops>>
      /\ \/ top[tab] <= Listed[tab] /\ top' = [top EXCEPT ![tab] = @ + 1]
         \/ top[tab] > Listed[tab] /\ top' = top
  BY DEF LedgerInv, CoverInv, ScanInv, Click, Lossless, db
<1> DEFINE c == crops[Len(crops)]
<1>2. /\ top[tab] \in Nat /\ top[tab] \in 1..Listed[tab] + 1 /\ clicks \in Nat
      /\ PerBatch \in Nat \ {0} /\ Listed[tab] \in Nat /\ tab \in Tabs /\ top \in [Tabs -> Nat]
      /\ Len(crops) \in Nat
      /\ \A i \in 1..Len(crops) : crops[i] \in Crop
  BY <1>1, Numbers, LenProperties DEF TypeOK
<1>3. /\ Sweeping /\ Sweeping' /\ Len(crops) > 0
      /\ top[tab] = Lower(c.first + clicks, c.last + 1)
  BY <1>1 DEF Sweeping, Chained
<1>4. Len(crops) \in 1..Len(crops)
  BY <1>2, <1>3
<1>5. /\ c.first \in Nat \ {0} /\ c.last \in Nat /\ c.first <= c.last + 1 /\ c.last <= Listed[tab]
      /\ c.last = c.first + PerBatch - 1 \/ c.last = Listed[tab]
  BY <1>1, <1>2, <1>3, <1>4, ShownCards DEF Chained
<1> HIDE DEF c
<1>6. top'[tab] = Lower(c.first + (clicks + 1), c.last + 1)
  <2>1. CASE top[tab] <= Listed[tab]
    <3>1. top'[tab] = top[tab] + 1
      BY <1>1, <1>2, <2>1
    <3>2. top[tab] = c.first + clicks /\ top[tab] <= c.last
      BY <1>1, <1>2, <1>3, <1>5, <2>1 DEF Lower
    <3> QED
      BY <1>2, <1>5, <3>1, <3>2 DEF Lower
  <2>2. CASE top[tab] > Listed[tab]
    <3>1. top' = top
      BY <1>1, <1>2, <2>2
    <3>2. top[tab] = c.last + 1 /\ top[tab] <= c.first + clicks
      BY <1>2, <1>3, <1>5, <2>2 DEF Lower
    <3> QED
      BY <1>2, <1>5, <3>1, <3>2 DEF Lower
  <2> QED
    BY <1>2, <2>1, <2>2
<1>7. Chained'
  <2>1. ASSUME NEW i \in 1..Len(crops), i < Len(crops) PROVE crops[i].last < top'[tab]
    <3>1. top'[tab] = top[tab] \/ top'[tab] = top[tab] + 1
      BY <1>1, <1>2
    <3>2. crops[i].last \in Nat
      BY <1>2 DEF Crop
    <3>3. crops[i].last < top[tab]
      BY <1>1, <1>3, <2>1 DEF Chained
    <3> QED
      BY <1>2, <3>1, <3>2, <3>3
  <2> QED
    BY <1>1, <1>3, <1>6, <2>1 DEF Chained, Shown, Visible, c
<1>8. OnceEach'
  <2>1. \A t \in Tabs : NextChest(t)' = NextChest(t)
    BY <1>1, <1>2, <1>3 DEF NextChest, Waiting
  <2>2. \A x \in Chests : x[1] \in Tabs /\ Copies(x)' = Copies(x)
    BY <1>1 DEF Copies, Chests
  <2> QED
    BY <1>1, <2>1, <2>2 DEF OnceEach
<1> QED
  BY <1>1, <1>2, <1>7, <1>8 DEF LedgerInv

LEMMA LedgerBatchDone ==
  ASSUME LedgerInv, CoverInv', BatchDone
  PROVE  LedgerInv' /\ UNCHANGED <<top, rows>>
<1>1. /\ TypeOK /\ Chained /\ OnceEach /\ alive /\ pc = "clicking" /\ clicks = PerBatch
      /\ pc' = "batch" /\ UNCHANGED <<alive, rows, tab, crops, top>>
  BY DEF LedgerInv, CoverInv, ScanInv, BatchDone, game, db
<1> DEFINE c == crops[Len(crops)]
<1>2. /\ PerBatch \in Nat \ {0} /\ Listed[tab] \in Nat /\ Len(crops) \in Nat
      /\ \A i \in 1..Len(crops) : crops[i] \in Crop
  BY <1>1, Numbers, LenProperties
<1>3. /\ Sweeping /\ Sweeping' /\ Len(crops) > 0
      /\ top[tab] = Lower(c.first + clicks, c.last + 1)
  BY <1>1 DEF Sweeping, Chained
<1>4. Len(crops) \in 1..Len(crops)
  BY <1>2, <1>3
<1>5. c.first \in Nat \ {0} /\ c.last \in Nat /\ c.last <= c.first + PerBatch - 1
  BY <1>1, <1>2, <1>3, <1>4, ShownCards DEF Chained
<1> HIDE DEF c
<1>6. top[tab] = c.last + 1
  BY <1>1, <1>2, <1>3, <1>5 DEF Lower
<1>7. Chained'
  <2>1. \A i \in 1..Len(crops) : crops[i].last < top[tab]
    <3>1. ASSUME NEW i \in 1..Len(crops) PROVE crops[i].last < top[tab]
      <4>1. CASE i < Len(crops)
        BY <1>1, <1>3, <4>1 DEF Chained
      <4>2. CASE i = Len(crops)
        <5>1. c.last < top[tab]
          BY <1>5, <1>6
        <5> QED
          BY <4>2, <5>1 DEF c
      <4> QED
        BY <1>2, <4>1, <4>2
    <3> QED
      BY <3>1
  <2> QED
    BY <1>1, <1>3, <1>6, <2>1 DEF Chained, Shown, Visible, c
<1>8. OnceEach'
  BY <1>1, <1>3, OnceEachStays DEF NextChest, Waiting
<1> QED
  BY <1>1, <1>7, <1>8 DEF LedgerInv

\* A crop records the chests it shows, which are the next ones that wait.
LEMMA LedgerRead ==
  ASSUME Lossless, LedgerInv, CoverInv', ReadCrop
  PROVE  /\ LedgerInv' /\ top' = top
         /\ \E S \in SUBSET Chests :
              /\ \A c \in S : c[2] < top[c[1]] /\ Copies(c) = {} /\ \E r : Copies(c)' = {r}
              /\ \A c \in Chests \ S : Copies(c)' = Copies(c)
<1>1. /\ TypeOK /\ Chained /\ OnceEach /\ alive /\ pc = "ocr" /\ status[session] # "DELETED"
      /\ "ocr" \notin Faults /\ "database" \notin Faults
  BY CropRead DEF LedgerInv, CoverInv, ScanInv, DbInv, Live, NoneDeleted, Lossless
<1>2. /\ crops # <<>> /\ crops' = Tail(crops) /\ UNCHANGED <<game, pc, tab>>
      /\ rows' = rows \cup NewRows(Head(crops).first .. Head(crops).last)
  BY <1>1, CropRead
<1> DEFINE first == crops[1].first
           last  == crops[1].last
<1>3. /\ Len(Tail(crops)) = Len(crops) - 1 /\ Len(crops) \in Nat \ {0} /\ Head(crops) = crops[1]
      /\ crops[1] \in Crop /\ \A i \in 1..Len(Tail(crops)) : Tail(crops)[i] = crops[i + 1]
      /\ \A i \in 1..Len(crops) : crops[i] \in Crop
      /\ tab \in Tabs /\ Listed[tab] \in Nat /\ Listed \in [Tabs -> Nat] /\ top \in [Tabs -> Nat]
      /\ PerBatch \in Nat \ {0}
  BY <1>1, <1>2, NextCrop, Numbers, LenProperties
<1>4. Waiting /\ Sweeping /\ Sweeping' /\ 1 \in 1..Len(crops)
  BY <1>1, <1>2, <1>3 DEF Waiting, Sweeping
<1>5. first \in Nat \ {0} /\ last \in Nat /\ first <= last + 1 /\ last <= Listed[tab]
  BY <1>1, <1>3, <1>4, ShownCards DEF Chained
<1>6. Chained'
  <2>1. ASSUME NEW i \in 1..Len(crops')
        PROVE  Shown(crops[i])' /\ (i > 1 => crops'[i].first = crops'[i - 1].last + 1)
    <3>1. i + 1 \in 1..Len(crops) /\ crops'[i] = crops[i + 1] /\ i \in 1..Len(Tail(crops))
      BY <1>2, <1>3
    <3>2. Shown(crops[i + 1]) /\ crops[i + 1].first = crops[i].last + 1
      BY <1>1, <1>3, <1>4, <3>1 DEF Chained
    <3>3. i > 1 => i - 1 \in 1..Len(Tail(crops)) /\ (i - 1) + 1 = i
      BY <1>3, <3>1
    <3>4. i > 1 => crops'[i - 1] = crops[i]
      BY <1>2, <1>3, <3>3
    <3> QED
      BY <1>2, <3>1, <3>2, <3>4 DEF Shown, Visible
  <2>2. Len(crops') > 0 => crops'[Len(crops')] = crops[Len(crops)]
    <3>1. Len(crops') > 0 => Len(crops') \in 1..Len(Tail(crops)) /\ Len(crops') + 1 = Len(crops)
      BY <1>2, <1>3
    <3> QED
      BY <1>2, <1>3, <3>1
  <2>3. Len(crops) > 0 => top[tab] = crops[Len(crops)].last + 1
    BY <1>1, <1>4 DEF Chained
  <2>4. ASSUME NEW i \in 1..Len(crops') PROVE crops'[i].last < top[tab]
    <3>1. i + 1 \in 1..Len(crops) /\ crops'[i] = crops[i + 1]
      BY <1>2, <1>3
    <3> QED
      BY <1>1, <1>4, <3>1 DEF Chained
  <2>5. pc' # "clicking" /\ top' = top /\ tab' = tab
    BY <1>1, <1>2 DEF game
  <2>6. Len(crops') > 0 => top[tab] = crops'[Len(crops')].last + 1
    BY <1>3, <2>2, <2>3
  <2> QED
    BY <2>1, <2>4, <2>5, <2>6 DEF Chained
<1>7. /\ \A t \in Tabs : t # tab => NextChest(t)' = NextChest(t)
      /\ \A t \in Tabs : t = tab => NextChest(t) = first /\ NextChest(t)' = last + 1
  <2>1. \A t \in Tabs : t # tab => NextChest(t)' = NextChest(t)
    BY <1>2 DEF NextChest, game
  <2>2. \A t \in Tabs : t = tab => NextChest(t) = first
    BY <1>4 DEF NextChest
  <2>3. CASE Len(crops) = 1
    <3>1. Len(crops') = 0 /\ top' = top /\ tab' = tab
      BY <1>2, <1>3, <2>3 DEF game
    <3>2. top[tab] = last + 1
      BY <1>1, <1>4, <2>3 DEF Chained
    <3> QED
      BY <2>1, <2>2, <3>1, <3>2 DEF NextChest, Waiting
  <2>4. CASE Len(crops) # 1
    <3>1. /\ 1 \in 1..Len(Tail(crops)) /\ 2 \in 1..Len(crops) /\ Len(Tail(crops)) > 0
          /\ 1 + 1 = 2 /\ 2 - 1 = 1 /\ 2 > 1
      BY <1>3, <2>4
    <3>2. Tail(crops)[1] = crops[2] /\ crops[2].first = last + 1
      BY <1>1, <1>3, <1>4, <3>1 DEF Chained
    <3> QED
      BY <1>2, <1>4, <2>1, <2>2, <3>1, <3>2 DEF NextChest, Waiting
  <2> QED
    BY <2>1, <2>2, <2>3, <2>4
<1>8. last < top[tab]
  BY <1>1, <1>4 DEF Chained
<1> DEFINE cards == first..last
           S     == {<<tab, n>> : n \in cards}
           row(n) == [session |-> session, tab |-> tab, crop |-> cropNo + 1, chest |-> n]
<1>9. S \in SUBSET Chests
  <2>1. ASSUME NEW n \in cards PROVE <<tab, n>> \in Chests
    <3>1. n \in 1..Listed[tab]
      <4>1. n \in Int /\ first <= n /\ n <= last
        BY <1>5, <2>1
      <4> HIDE DEF first, last
      <4> QED
        BY <1>3, <1>5, <4>1
    <3> QED
      BY <1>3, <3>1 DEF Chests
  <2> QED
    BY <2>1
<1>10. \A c \in Chests : c[1] \in Tabs /\ c[2] \in Nat /\ c = <<c[1], c[2]>>
  BY <1>3 DEF Chests
<1>11. NewRows(cards) = {row(n) : n \in cards} /\ rows' = rows \cup NewRows(cards)
  BY <1>2, <1>3 DEF NewRows
<1>12. \A c \in S : c[1] = tab /\ c[2] \in cards /\ c[2] < top[tab] /\ c[2] >= first
                    /\ c[2] < last + 1
  BY <1>3, <1>5, <1>8
<1>13. \A c \in S : Copies(c) = {}
  <2>1. \A c \in S : c \in Chests /\ ~(c[2] < NextChest(c[1]))
    BY <1>5, <1>7, <1>9, <1>10, <1>12
  <2> QED
    BY <1>1, <2>1 DEF OnceEach
<1>14. ASSUME NEW c \in S PROVE Copies(c)' = {row(c[2])}
  <2>1. Copies(c) = {} /\ c[1] = tab /\ c[2] \in cards
    BY <1>12, <1>13
  <2> HIDE DEF cards
  <2>2. Copies(c)' = Copies(c) \cup {r \in NewRows(cards) : r.tab = c[1] /\ r.chest = c[2]}
    BY <1>11 DEF Copies
  <2>3. {r \in NewRows(cards) : r.tab = c[1] /\ r.chest = c[2]} = {row(c[2])}
    BY <1>11, <2>1
  <2> QED
    BY <2>1, <2>2, <2>3
<1>15. ASSUME NEW c \in Chests \ S PROVE Copies(c)' = Copies(c)
  <2>1. ~(c[1] = tab /\ c[2] \in cards)
    BY <1>10
  <2> HIDE DEF cards
  <2>2. Copies(c)' = Copies(c) \cup {r \in NewRows(cards) : r.tab = c[1] /\ r.chest = c[2]}
    BY <1>11 DEF Copies
  <2>3. {r \in NewRows(cards) : r.tab = c[1] /\ r.chest = c[2]} = {}
    BY <1>11, <2>1
  <2> QED
    BY <2>2, <2>3
<1> HIDE DEF row
<1>16. OnceEach'
  <2>1. SUFFICES ASSUME NEW c \in Chests
                 PROVE  IF c[2] < NextChest(c[1])' THEN \E r : Copies(c)' = {r}
                                                   ELSE Copies(c)' = {}
    BY DEF OnceEach
  <2>2. CASE c \in S
    <3>1. c[2] < NextChest(c[1])'
      BY <1>7, <1>9, <1>10, <1>12, <2>2
    <3> QED
      BY <1>14, <2>2, <3>1
  <2>3. CASE c \notin S
    <3>1. c[1] = tab => c[2] < first \/ c[2] >= last + 1
      BY <1>5, <1>10, <2>3
    <3>2. c[1] = tab => (c[2] < first <=> c[2] < last + 1)
      BY <1>5, <1>10, <3>1
    <3>3. c[2] < NextChest(c[1])' <=> c[2] < NextChest(c[1])
      <4>1. CASE c[1] = tab
        BY <1>7, <1>10, <3>2, <4>1
      <4>2. CASE c[1] # tab
        <5>1. NextChest(c[1])' = NextChest(c[1])
          BY <1>7, <1>10, <4>2
        <5> QED
          BY <5>1
      <4> QED
        BY <4>1, <4>2
    <3> QED
      BY <1>1, <1>15, <2>3, <3>3 DEF OnceEach
  <2> QED
    BY <2>2, <2>3
<1>17. \A c \in S : c[2] < top[c[1]] /\ Copies(c) = {} /\ \E r : Copies(c)' = {r}
  BY <1>12, <1>13, <1>14
<1>18. \A c \in Chests \ S : Copies(c)' = Copies(c)
  BY <1>15
<1>19. top' = top /\ alive'
  BY <1>1, <1>2 DEF game
<1> HIDE DEF S
<1> QED
  BY <1>6, <1>9, <1>16, <1>17, <1>18, <1>19 DEF LedgerInv

\* Claims as a set: a chest is claimed when it is above the top of its tab.
LEMMA SameLedger ==
  ASSUME UNCHANGED <<top, rows>>
  PROVE  UNCHANGED Ledger!vars
BY DEF Ledger!vars, Claimed, Copies

LEMMA CountedOnce ==
  ASSUME NEW S, \E r : S = {r}
  PROVE  Cardinality(S) = 1
<1>1. PICK r : S = {r}
  OBVIOUS
<1> QED
  BY <1>1, FS_Singleton

\* A click claims one chest or none.
LEMMA LedgerClaims ==
  ASSUME Lossless, LedgerInv, CoverInv', Click
  PROVE  [Ledger!Next]_(Ledger!vars)
<1>1. /\ UNCHANGED <<rows, tab>> /\ tab \in Tabs
      /\ \/ top' = top
         \/ top[tab] <= Listed[tab] /\ top' = [top EXCEPT ![tab] = @ + 1]
  BY LedgerClick
<1>2. CASE top' = top
  BY <1>1, <1>2, SameLedger
<1>3. CASE top[tab] <= Listed[tab] /\ top' = [top EXCEPT ![tab] = @ + 1]
  <2> DEFINE c == <<tab, top[tab]>>
  <2>1. /\ top \in [Tabs -> Nat] /\ Listed \in [Tabs -> Nat]
        /\ \A t \in Tabs : top[t] \in 1..Listed[t] + 1
    BY Numbers DEF LedgerInv, CoverInv, ScanInv, TypeOK
  <2>2. c \in Chests /\ ~(c[2] < top[c[1]])
    <3>1. top[tab] \in 1..Listed[tab]
      BY <1>1, <1>3, <2>1
    <3> QED
      BY <1>1, <2>1, <3>1 DEF Chests
  <2>3. c \notin Claimed
    BY <2>2 DEF Claimed
  <2>4. Claimed' = Claimed \cup {c}
    <3>1. ASSUME NEW x \in Chests PROVE x[2] < top'[x[1]] <=> x[2] < top[x[1]] \/ x = c
      <4>1. PICK t \in Tabs : x \in {t} \X (1..Listed[t])
        BY DEF Chests
      <4>2. x[1] = t /\ x[2] \in Nat /\ x = <<x[1], x[2]>> /\ top[t] \in Nat
        BY <2>1, <4>1
      <4>3. CASE t = tab
        <5>1. top'[x[1]] = top[tab] + 1
          BY <1>1, <1>3, <2>1, <4>2, <4>3
        <5>2. x = c <=> x[2] = top[tab]
          BY <4>2, <4>3
        <5> HIDE DEF c
        <5> QED
          BY <4>2, <4>3, <5>1, <5>2
      <4>4. CASE t # tab
        BY <1>1, <1>3, <2>1, <4>2, <4>4
      <4> QED
        BY <4>3, <4>4
    <3> QED
      BY <2>2, <3>1 DEF Claimed
  <2>5. UNCHANGED [x \in Chests |-> Cardinality(Copies(x))]
    BY <1>1 DEF Copies
  <2> QED
    BY <2>2, <2>3, <2>4, <2>5 DEF Ledger!Next, Ledger!Claim
<1> QED
  BY <1>1, <1>2, <1>3

\* A crop records claims, each for the first time.
LEMMA LedgerRecords ==
  ASSUME Lossless, LedgerInv, CoverInv', ReadCrop
  PROVE  Ledger!Next
<1>1. top' = top
  BY LedgerRead
<1>2. PICK S \in SUBSET Chests :
        /\ \A c \in S : c[2] < top[c[1]] /\ Copies(c) = {} /\ \E r : Copies(c)' = {r}
        /\ \A c \in Chests \ S : Copies(c)' = Copies(c)
  BY LedgerRead
<1> DEFINE copies == [c \in Chests |-> Cardinality(Copies(c))]
<1>3. \A c \in S : c \in Claimed /\ copies[c] = 0
  BY <1>2, FS_EmptySet DEF Claimed
<1>4. \A c \in S : Cardinality(Copies(c)') = 1
  BY <1>2, CountedOnce
<1>5. copies' = [c \in Chests |-> IF c \in S THEN 1 ELSE copies[c]]
  BY <1>2, <1>4
<1>6. UNCHANGED Claimed
  BY <1>1 DEF Claimed
<1> QED
  BY <1>3, <1>5, <1>6 DEF Ledger!Next, Ledger!Record

\* Every other step leaves the ledger alone.
LEMMA LedgerStep ==
  ASSUME Lossless
  PROVE  LedgerInv /\ [Next]_vars => LedgerInv' /\ [Ledger!Next]_(Ledger!vars)
<1> SUFFICES ASSUME LedgerInv, [Next]_vars
             PROVE  LedgerInv' /\ [Ledger!Next]_(Ledger!vars)
  OBVIOUS
<1>1. CoverInv /\ CoverInv' /\ ScanInv /\ Harmless
  BY CoverStep DEF LedgerInv, Lossless, Harmless, CoverInv
<1>2. CASE \/ NotOnGifts \/ NavigationThrows \/ SwitchThrows \/ SweepKicked \/ GiftsFailed
           \/ GiftsSwept \/ TriumphalSwept \/ SweepThrows \/ OnGiftsTab \/ OnTriumphalTab
  <2>1. ~Sweeping \/ crops = <<>>
    BY <1>2 DEF NotOnGifts, NavigationThrows, SwitchThrows, SweepKicked, GiftsFailed, GiftsSwept,
                TriumphalSwept, SweepThrows, OnGiftsTab, OnTriumphalTab, SweepRead, Sweeping
  <2>2. UNCHANGED game
    BY <1>2 DEF NotOnGifts, NavigationThrows, SwitchThrows, SweepKicked, GiftsFailed, GiftsSwept,
                TriumphalSwept, SweepThrows, OnGiftsTab, OnTriumphalTab
  <2>3. rows' = rows /\ (~Sweeping' \/ (pc' = "batch" /\ crops' = <<>>))
    <3>1. CASE OnGiftsTab \/ OnTriumphalTab
      BY <3>1 DEF OnGiftsTab, OnTriumphalTab, FreshSweep, db
    <3>2. CASE GiftsSwept /\ Triumphal
      BY <3>2 DEF GiftsSwept, Sweeping, db
    <3>3. CASE ~(OnGiftsTab \/ OnTriumphalTab \/ (GiftsSwept /\ Triumphal))
      <4>1. Ordered
        BY <1>1 DEF ScanInv, DbInv
      <4>2. Ends
        <5>1. CASE NotOnGifts
          BY <4>1, <5>1, CloseEnds DEF NotOnGifts, Ordered
        <5>2. CASE NavigationThrows \/ SweepKicked
          BY <5>2, AbortEnds DEF NavigationThrows, SweepKicked, SweepRead
        <5>3. CASE SwitchThrows \/ TriumphalSwept \/ SweepThrows
          BY <5>3, AbortEnds, SucceedEnds
             DEF SwitchThrows, TriumphalSwept, SweepThrows, SweepRead
        <5>4. CASE GiftsFailed
          <6>1. RowsOf(session) = {} /\ rows' = rows
            BY <4>1, <5>4 DEF GiftsFailed, Ordered, SweepRead
          <6> QED
            BY <5>4, <6>1, CloseEnds DEF GiftsFailed, SweepRead
        <5>5. CASE GiftsSwept /\ ~Triumphal
          BY <5>5, CloseEnds DEF GiftsSwept, SweepRead
        <5> QED
          BY <1>2, <3>3, <5>1, <5>2, <5>3, <5>4, <5>5
      <4> QED
        BY <4>2 DEF Ends, Sweeping
    <3> QED
      BY <3>1, <3>2, <3>3
  <2> QED
    BY <1>1, <2>1, <2>2, <2>3, LedgerBetween, SameLedger DEF game
<1>3. CASE CaptureEnds \/ NoCards \/ KickSeen \/ CaptureThrows
  <2>1. ~(pc = "clicking" /\ "input" \in Faults)
    BY DEF Lossless
  <2>2. pc = "batch" /\ pc' = "ocr" /\ UNCHANGED <<top, rows, alive, tab, crops>>
    BY <1>3, <2>1
       DEF CaptureEnds, NoCards, KickSeen, CaptureThrows, MayShoot, CropsOnThrow, game, db
  <2> QED
    BY <1>1, <2>2, LedgerStays, SameLedger
<1>4. CASE Screenshot \/ BatchDone
  BY <1>1, <1>4, LedgerScreenshot, LedgerBatchDone, SameLedger
<1>5. CASE Click
  BY <1>1, <1>5, LedgerClick, LedgerClaims
<1>6. CASE ReadCrop
  BY <1>1, <1>6, LedgerRead, LedgerRecords
<1>7. CASE Begin
  <2>1. ~Sweeping /\ ~Sweeping' /\ UNCHANGED <<top, rows>> /\ alive'
    BY <1>7 DEF Begin, Sweeping
  <2> QED
    BY <1>1, <2>1, LedgerBetween, SameLedger DEF LedgerInv
<1>8. CASE Kick \/ Restart \/ \E s \in Sessions : DeleteSession(s)
  BY <1>8 DEF Kick, Restart, DeleteSession, Lossless
<1>9. CASE UNCHANGED vars
  <2>1. UNCHANGED <<top, alive, rows, pc, tab, clicks, crops>>
    BY <1>9 DEF vars, game, db, sweep
  <2>2. Chained' <=> Chained
    BY <2>1 DEF Chained, Sweeping, Shown, Visible
  <2>3. OnceEach'
    BY <2>1, OnceEachStays DEF LedgerInv, NextChest, Waiting, Sweeping
  <2> QED
    BY <1>1, <2>1, <2>2, <2>3, SameLedger DEF LedgerInv
<1> QED
  BY <1>2, <1>3, <1>4, <1>5, <1>6, <1>7, <1>8, <1>9 DEF Next, ScanStep

LEMMA LedgerInit == Init => Ledger!Init
<1> SUFFICES ASSUME Init PROVE Ledger!Init
  OBVIOUS
<1>1. Claimed = {}
  <2>1. ASSUME NEW c \in Chests PROVE ~(c[2] < top[c[1]])
    <3>1. PICK t \in Tabs : c \in {t} \X (1..Listed[t])
      BY DEF Chests
    <3> QED
      BY <3>1, SessionAssumption DEF Init
  <2> QED
    BY <2>1 DEF Claimed
<1>2. \A c \in Chests : Cardinality(Copies(c)) = 0
  BY FS_EmptySet DEF Init, Copies
<1> QED
  BY <1>1, <1>2 DEF Ledger!Init

\* As long as nothing goes wrong that loses a claim or reads it twice, a scan keeps the
\* ledger: no chest is recorded before it is claimed, more than once, or taken back.
\* That each claim is recorded in the end is left to the run.
THEOREM ScanKeepsLedger ==
  ASSUME Lossless PROVE Spec => Ledger!Init /\ [][Ledger!Next]_(Ledger!vars)
<1>1. Init => LedgerInv /\ Ledger!Init
  BY LedgerInvInit, LedgerInit
<1>2. LedgerInv /\ [Next]_vars => LedgerInv' /\ [Ledger!Next]_(Ledger!vars)
  BY LedgerStep
<1> QED
  BY <1>1, <1>2, PTL DEF Spec
=============================================================================
