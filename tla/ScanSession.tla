---------------------------- MODULE ScanSession ----------------------------
(***************************************************************************)
(* One scan after the other, from the session row to its final status:     *)
(* executeScan (scheduler/loop.ts), the pipelined sweep of the Gifts and   *)
(* Triumphal tabs (scheduler/scan-pipeline.ts) and the finalizers          *)
(* (scheduler/scan-finalize.ts).                                           *)
(*                                                                         *)
(* A tab lists its chests 1..Listed[tab], the top one first.  A click on   *)
(* Open claims the top chest and the others move up, so what has been      *)
(* claimed is a prefix, and the tab is the number of its top chest.  A     *)
(* batch is a screenshot of the PerBatch topmost cards (a crop) followed   *)
(* by PerBatch clicks; only after the last batch are the crops read and    *)
(* their chests recorded.                                                  *)
(*                                                                         *)
(* Names, points, timestamps and the debug crops are left out.             *)
(***************************************************************************)
EXTENDS Integers, Sequences, FiniteSets

CONSTANTS
  Listed,       \* [Tabs -> Nat]: the chests each tab lists
  PerBatch,     \* CLICKS_PER_BATCH, and the cards a crop shows
  MaxBatches,   \* MAX_BATCHES
  SlowLimit,    \* SLOW_BATCH_LIMIT
  MaxSessions,  \* bound on the scans started
  Triumphal,    \* isUiPositionSet('triumphalTab')
  Faults        \* what may go wrong, a subset of AllFaults

Tabs == {"gifts", "triumphal"}

AllFaults ==
  { "navigation",  \* the Gifts tab is not reached, or a tab switch throws
    "screenshot",  \* a screenshot throws: the browser is dying
    "input",       \* a click throws: the browser is dying
    "stall",       \* batches crawl, the time budget runs out, an OOM kill
    "probe",       \* the probe OCR throws; the crop is read again later
    "ocr",         \* a crop is not read, or only some of its cards are
    "database",    \* recording a card, or the summary of a sweep, throws
    "count",       \* counting the recorded rows throws
    "missed",      \* a click lands while the list slides and opens nothing
    "kick",        \* another login takes over the game session
    "delete",      \* DELETE /api/sessions/:id
    "restart" }    \* the process is restarted

ASSUME SessionAssumption ==
  /\ Listed \in [Tabs -> Nat]
  /\ PerBatch \in Nat \ {0} /\ MaxBatches \in Nat \ {0}
  /\ SlowLimit \in Nat \ {0}
  /\ MaxSessions \in Nat \ {0}
  /\ Triumphal \in BOOLEAN
  /\ Faults \subseteq AllFaults

VARIABLES
  top,      \* game: [Tabs -> number of the top chest]
  alive,    \* game: the session has not been kicked
  rows,     \* database: chest rows, as [session, tab, crop, chest]
  status,   \* database: [session -> status of its scan_sessions row]
  found,    \* database: [session -> chests_found]
  session,  \* the scan in progress, or the last one
  pc,
  tab,      \* the tab being swept
  batch,    \* batches taken in this sweep
  clicks,   \* clicks made in this batch
  slow,     \* consecutiveSlowBatches
  crops,    \* crops not yet read, as [first, last, probed]
  cropNo,   \* crops read in this sweep
  errors,   \* errors of this sweep
  kicked,   \* sessionKickReason is set
  inserted, \* newChests of this sweep
  tally     \* newChests of the scan, the gifts sweeps that have returned

game  == <<top, alive>>
db    == <<rows, status, found>>
sweep == <<tab, batch, clicks, slow, crops, cropNo, errors, kicked,
           inserted>>
vars  == <<game, db, session, pc, sweep, tally>>

Pcs == {"idle", "navigate", "batch", "clicking", "ocr", "switch"}

Sessions == 1..MaxSessions

\* INTERRUPTED: FAILED, with the error phase 'Interrupted mid-scan'.
Statuses == {"none", "PENDING", "COMPLETED", "FAILED", "INTERRUPTED",
             "DELETED"}

Lower(a, b) == IF a < b THEN a ELSE b

\* Cards on screen when the top chest of the tab is n.
Visible(n) == [first |-> n, last |-> Lower(n + PerBatch - 1, Listed[tab])]

RowsOf(s) == {r \in rows : r.session = s}

GiftRows(s) == {r \in RowsOf(s) : r.tab = "gifts"}

Init ==
  /\ top = [t \in Tabs |-> 1] /\ alive = TRUE
  /\ rows = {}
  /\ status = [s \in Sessions |-> "none"] /\ found = [s \in Sessions |-> 0]
  /\ session = 0 /\ pc = "idle"
  /\ tab = "gifts" /\ batch = 0 /\ clicks = 0 /\ slow = 0
  /\ crops = <<>> /\ cropNo = 0 /\ errors = 0 /\ kicked = FALSE
  /\ inserted = 0 /\ tally = 0

-----------------------------------------------------------------------------
(* Fragments.                                                              *)

\* The variables of a sweep, at its start and once it is over.
FreshSweep(t) ==
  /\ tab' = t
  /\ batch' = 0 /\ clicks' = 0 /\ slow' = 0
  /\ crops' = <<>> /\ cropNo' = 0 /\ errors' = 0 /\ kicked' = FALSE
  /\ inserted' = 0

\* updateSession: matches no row once the session has been deleted.
Close(st, n) ==
  /\ IF status[session] = "DELETED"
       THEN UNCHANGED <<status, found>>
       ELSE /\ status' = [status EXCEPT ![session] = st]
            /\ found' = [found EXCEPT ![session] = n]
  /\ pc' = "idle" /\ tally' = 0 /\ FreshSweep("gifts")

\* finalizeScanSuccess
Succeed == Close("COMPLETED", tally) /\ UNCHANGED rows

\* Fault: the rollback trusts the tally of the sweeps that have returned.
LandedByTally == tally > 0

\* Fault: the triumphal table is not counted.
LandedGifts == GiftRows(session) # {}

\* persistedChestCount: both tables are counted.
Landed == RowsOf(session) # {}

\* Fault: the tally is reported.
KeptByTally(counted) == tally

\* The chests_found of an aborted scan.
Kept(counted) ==
  LET gifts == IF counted THEN Cardinality(GiftRows(session)) ELSE 0
  IN  IF gifts > tally THEN gifts ELSE tally

\* finalizeScanFailure, for an abort the game announces (maintenance, a kick)
\* and for any other exception: rows are deleted only when none was counted.
\* A count that fails reads as "rows may exist".
Abort(expected) ==
  \E counted \in {TRUE} \cup IF "count" \in Faults THEN {FALSE} ELSE {} :
    \/ /\ Landed \/ ~counted
       /\ Close("COMPLETED", Kept(counted))
       /\ UNCHANGED rows
    \/ /\ ~Landed /\ counted
       /\ Close("FAILED", IF expected THEN 0 ELSE found[session])
       /\ rows' = IF expected THEN rows ELSE rows \ GiftRows(session)

-----------------------------------------------------------------------------
(* executeScan.                                                            *)

\* createSession
Begin ==
  /\ pc = "idle" /\ session < MaxSessions
  /\ session' = session + 1
  /\ status' = [status EXCEPT ![session'] = "PENDING"]
  /\ pc' = "navigate"
  /\ alive' = TRUE
  /\ UNCHANGED <<top, rows, found, sweep, tally>>

OnGiftsTab ==
  /\ pc = "navigate" /\ alive
  /\ FreshSweep("gifts") /\ pc' = "batch"
  /\ UNCHANGED <<game, db, session, tally>>

\* The Gifts tab is not found.
NotOnGifts ==
  /\ pc = "navigate" /\ "navigation" \in Faults
  /\ Close("FAILED", found[session])
  /\ UNCHANGED <<game, rows, session>>

\* Navigation throws: maintenance or a kick (expected), or anything else.
NavigationThrows ==
  /\ pc = "navigate" /\ ("navigation" \in Faults \/ ~alive)
  /\ \E expected \in BOOLEAN : Abort(expected)
  /\ UNCHANGED <<game, session>>

\* The triumphal tab is open.
OnTriumphalTab ==
  /\ pc = "switch" /\ alive
  /\ FreshSweep("triumphal") /\ pc' = "batch"
  /\ UNCHANGED <<game, db, session, tally>>

\* Only maintenance or a kick outlives the switch: any other exception is a
\* warning on a scan that succeeded.
SwitchThrows ==
  /\ pc = "switch" /\ ("navigation" \in Faults \/ ~alive)
  /\ Abort(TRUE) \/ Succeed
  /\ UNCHANGED <<game, session>>

-----------------------------------------------------------------------------
(* The capture phase.                                                      *)

\* Fault: the guard lets one more slow batch through.
StalledLate == slow > SlowLimit

Stalled == slow >= SlowLimit

\* The cap on batches, or the stall guard: consecutive slow batches, the time
\* budget, an OOM kill.
CaptureEnds ==
  /\ pc = "batch"
  /\ \/ batch = MaxBatches /\ UNCHANGED errors
     \/ /\ batch < MaxBatches
        /\ Stalled \/ "stall" \in Faults
        /\ errors' = errors + 1
  /\ pc' = "ocr"
  /\ UNCHANGED <<game, db, session, tab, batch, clicks, slow, crops, cropNo,
                 kicked, inserted, tally>>

MayShoot == pc = "batch" /\ batch < MaxBatches /\ ~Stalled

\* A screenshot with cards on it, as far as the probe can tell: when the probe
\* throws, the crop is kept to be read later, whatever it shows.
Screenshot ==
  /\ MayShoot
  /\ \E probed \in {TRUE} \cup IF "probe" \in Faults THEN {FALSE} ELSE {} :
       /\ probed => alive /\ top[tab] <= Listed[tab]
       /\ crops' = Append(crops, [first |-> Visible(top[tab]).first,
                                  last |-> IF alive THEN Visible(top[tab]).last
                                                    ELSE 0,
                                  probed |-> probed])
  /\ clicks' = 0
  /\ pc' = "clicking"
  /\ UNCHANGED <<game, db, session, tab, batch, slow, cropNo, errors, kicked, inserted,
                 tally>>

\* The probe finds no cards: the list is empty, or the page shows something
\* else, or the cards were not read.  The crop is dropped.
NoCards ==
  /\ MayShoot
  /\ (alive /\ top[tab] > Listed[tab]) \/ "ocr" \in Faults
  /\ pc' = "ocr"
  /\ UNCHANGED <<game, db, session, tab, batch, clicks, slow, crops, cropNo,
                 errors, kicked, inserted, tally>>

\* The probe reads the "Connection lost" dialog: its crop is dropped, and the
\* kick is reported once the crops before it are read.
KickSeen ==
  /\ MayShoot /\ ~alive
  /\ kicked' = TRUE
  /\ pc' = "ocr"
  /\ UNCHANGED <<game, db, session, tab, batch, clicks, slow, crops, cropNo,
                 errors, inserted, tally>>

\* Fault: an exception throws away the crops of the sweep.
CropsOnThrowNone == <<>>

CropsOnThrow == crops

\* A screenshot or a click throws: the capture phase ends with the crops so
\* far, the one of this batch included.
CaptureThrows ==
  /\ \/ MayShoot /\ "screenshot" \in Faults
     \/ pc = "clicking" /\ "input" \in Faults
  /\ crops' = CropsOnThrow
  /\ errors' = errors + 1
  /\ pc' = "ocr"
  /\ UNCHANGED <<game, db, session, tab, batch, clicks, slow, cropNo, kicked, inserted,
                 tally>>

\* Fault: a click is repeated until it has opened a chest.
ClickUntilOpened ==
  /\ pc = "clicking" /\ clicks < PerBatch
  /\ \/ /\ alive /\ top[tab] <= Listed[tab]
        /\ top' = [top EXCEPT ![tab] = @ + 1] /\ clicks' = clicks + 1
     \/ /\ ~alive \/ top[tab] > Listed[tab] \/ "missed" \in Faults
        /\ UNCHANGED <<top, clicks>>
  /\ UNCHANGED <<alive, db, session, pc, tab, batch, slow, crops, cropNo,
                 errors, kicked, inserted, tally>>

\* A click opens the top chest, if the game is there to take it.
Click ==
  /\ pc = "clicking" /\ clicks < PerBatch
  /\ \/ /\ alive /\ top[tab] <= Listed[tab]
        /\ top' = [top EXCEPT ![tab] = @ + 1]
     \/ /\ ~alive \/ top[tab] > Listed[tab] \/ "missed" \in Faults
        /\ UNCHANGED top
  /\ clicks' = clicks + 1
  /\ UNCHANGED <<alive, db, session, pc, tab, batch, slow, crops, cropNo,
                 errors, kicked, inserted, tally>>

BatchDone ==
  /\ pc = "clicking" /\ clicks = PerBatch
  /\ batch' = batch + 1
  /\ \/ slow' = 0
     \/ "stall" \in Faults /\ slow' = slow + 1
  /\ pc' = "batch"
  /\ UNCHANGED <<game, db, session, tab, clicks, crops, cropNo, errors,
                 kicked, inserted, tally>>

-----------------------------------------------------------------------------
(* The OCR phase.                                                          *)

\* The chests a crop is read as.
Readings(crop) ==
  LET cards == crop.first .. crop.last
  IN  IF "ocr" \in Faults
        THEN {read \in SUBSET cards : crop.probed => read # {}}
        ELSE {cards}

\* Fault: foreign keys are not enforced.
AcceptedUnchecked(cards) == cards

\* The database refuses rows whose session is gone.
Accepted(cards) == IF status[session] = "DELETED" THEN {} ELSE cards

\* One crop: its cards are recorded from the top, until one throws (and on a
\* session that is gone the first one does).
ReadCrop ==
  /\ pc = "ocr" /\ crops # <<>>
  /\ \E read \in Readings(Head(crops)) :
     \E saved \in {read} \cup
                  IF "database" \in Faults
                    THEN {{c \in read : c < n} : n \in read}
                    ELSE {} :
       LET landed == Accepted(saved)
       IN  /\ rows' = rows \cup {[session |-> session, tab |-> tab,
                                  crop |-> cropNo + 1, chest |-> c] :
                                   c \in landed}
           /\ errors' = IF landed = read THEN errors ELSE errors + 1
           /\ inserted' = inserted + Cardinality(landed)
  /\ crops' = Tail(crops) /\ cropNo' = cropNo + 1
  /\ UNCHANGED <<game, status, found, session, pc, tab, batch, clicks, slow,
                 kicked, tally>>

SweepRead == pc = "ocr" /\ crops = <<>>

\* The kick is reported: executeScan ends in the kicked branch.
SweepKicked ==
  /\ SweepRead /\ kicked
  /\ Abort(TRUE)
  /\ UNCHANGED <<game, session>>

\* The gifts sweep had errors and nothing landed: a wash.
GiftsFailed ==
  /\ SweepRead /\ ~kicked /\ tab = "gifts"
  /\ errors > 0 /\ GiftRows(session) = {}
  /\ rows' = rows \ GiftRows(session)
  /\ Close("FAILED", 0)
  /\ UNCHANGED <<game, session>>

\* On to the triumphal tab, or to the end.
GiftsSwept ==
  /\ SweepRead /\ ~kicked /\ tab = "gifts"
  /\ errors = 0 \/ GiftRows(session) # {}
  /\ IF Triumphal
       THEN /\ pc' = "switch" /\ tally' = tally + inserted
            /\ FreshSweep("gifts")
            /\ UNCHANGED db
       ELSE Close("COMPLETED", tally + inserted) /\ UNCHANGED rows
  /\ UNCHANGED <<game, session>>

TriumphalSwept ==
  /\ SweepRead /\ ~kicked /\ tab = "triumphal"
  /\ Succeed
  /\ UNCHANGED <<game, session>>

\* The summary at the end of a sweep throws: on the gifts tab the scan is
\* aborted, on the triumphal tab that is a warning.
SweepThrows ==
  /\ SweepRead /\ "database" \in Faults
  /\ \/ tab = "gifts" /\ Abort(FALSE)
     \/ tab = "triumphal" /\ Succeed
  /\ UNCHANGED <<game, session>>

-----------------------------------------------------------------------------
(* The environment.                                                        *)

\* Another login takes over: from here on clicks open nothing.
Kick ==
  /\ "kick" \in Faults /\ alive /\ pc # "idle"
  /\ alive' = FALSE
  /\ UNCHANGED <<top, db, session, pc, sweep, tally>>

\* DELETE /api/sessions/:id, which does not ask whether the scan is running.
DeleteSession(s) ==
  /\ "delete" \in Faults /\ status[s] \notin {"none", "DELETED"}
  /\ rows' = rows \ RowsOf(s)
  /\ status' = [status EXCEPT ![s] = "DELETED"]
  /\ UNCHANGED <<game, found, session, pc, sweep, tally>>

\* A crash or a redeploy.  Booting fails the session that was left PENDING,
\* whatever it has recorded; its crops, in memory only, are lost.
Restart ==
  /\ "restart" \in Faults /\ pc # "idle"
  /\ status' = [s \in Sessions |-> IF status[s] = "PENDING" THEN "INTERRUPTED"
                                                            ELSE status[s]]
  /\ pc' = "idle" /\ tally' = 0 /\ FreshSweep("gifts")
  /\ UNCHANGED <<game, rows, found, session>>

-----------------------------------------------------------------------------
ScanStep ==
  \/ OnGiftsTab \/ NotOnGifts \/ NavigationThrows
  \/ OnTriumphalTab \/ SwitchThrows
  \/ CaptureEnds \/ Screenshot \/ NoCards \/ KickSeen \/ CaptureThrows
  \/ Click \/ BatchDone
  \/ ReadCrop \/ SweepKicked \/ GiftsFailed \/ GiftsSwept \/ TriumphalSwept
  \/ SweepThrows

Next ==
  \/ Begin \/ ScanStep
  \/ Kick \/ Restart
  \/ \E s \in Sessions : DeleteSession(s)

Spec == Init /\ [][Next]_vars

\* The scan's awaits all end (Playwright calls carry timeouts, OCR is
\* synchronous).
FairSpec == Spec /\ WF_vars(ScanStep)

-----------------------------------------------------------------------------
(* Properties.                                                             *)

Chests == UNION {{t} \X (1..Listed[t]) : t \in Tabs}

TypeOK ==
  /\ top \in [Tabs -> Nat] /\ \A t \in Tabs : top[t] \in 1..Listed[t] + 1
  /\ alive \in BOOLEAN /\ kicked \in BOOLEAN
  /\ rows \subseteq [session: Sessions, tab: Tabs, crop: 1..MaxBatches,
                     chest: Nat]
  /\ status \in [Sessions -> Statuses] /\ found \in [Sessions -> Nat]
  /\ session \in 0..MaxSessions /\ pc \in Pcs /\ tab \in Tabs
  /\ batch \in 0..MaxBatches /\ clicks \in 0..PerBatch
  /\ slow \in 0..SlowLimit
  /\ crops \in Seq([first: Nat, last: Nat, probed: BOOLEAN])
  /\ Len(crops) + cropNo <= MaxBatches
  /\ {cropNo, errors, inserted, tally} \subseteq Nat

\* A scan fails its session only when it landed nothing, on either tab: chests
\* that were claimed are never hidden behind a failed scan (scan-finalize.ts,
\* executeScan).  Booting after a crash does not ask.
FailedMeansNothingLanded ==
  \A s \in Sessions : status[s] = "FAILED" => RowsOf(s) = {}

\* Recorded rows are never rolled back: only deleting their session removes
\* them.
RowsAreKept ==
  [][\A r \in rows : r \in rows' \/ status'[r.session] = "DELETED"]_vars

\* chests_found of a completed session is what it recorded on the Gifts tab,
\* also when the scan was aborted with its tally still inside the sweep.
FoundIsRecorded ==
  \A s \in Sessions :
    status[s] = "COMPLETED" => found[s] = Cardinality(GiftRows(s))

\* Deleting a session that is still running leaves no rows of it behind: the
\* sweep that goes on cannot add any.
DeletedStaysEmpty ==
  \A s \in Sessions : status[s] = "DELETED" => RowsOf(s) = {}

Claimed == {c \in Chests : c[2] < top[c[1]]}

Copies(c) == {r \in rows : r.tab = c[1] /\ r.chest = c[2]}

\* However a sweep ends early (a stall, a kick, a dying browser, the cap),
\* every chest claimed before that is recorded once the scan is over.
ClaimedIsRecorded == pc = "idle" => \A c \in Claimed : Copies(c) # {}

\* The ledger of claims is kept: once claimed a chest is recorded, exactly
\* once and for good.
Ledger == INSTANCE ClaimLedger WITH
            claimed <- Claimed,
            copies  <- [c \in Chests |-> Cardinality(Copies(c))]

LedgerKept == Ledger!Spec

\* Every scan ends: no session of a live process stays PENDING.
ScansEnd == [](pc # "idle" => <>(pc = "idle"))
=============================================================================
