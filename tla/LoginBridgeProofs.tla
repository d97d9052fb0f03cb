------------------------- MODULE LoginBridgeProofs -------------------------
(***************************************************************************)
(* Proofs about LoginBridge, for any number of clans, concurrent requests  *)
(* and browsers: the types, and that the scan loop runs once the bridge is *)
(* at rest.                                                                *)
(***************************************************************************)
EXTENDS LoginBridge, TLAPS

-----------------------------------------------------------------------------
(* Requests.                                                               *)

LEMMA NoneTyped ==
  /\ NoRequest \in RequestRecord
  /\ NoRequest.pc = "idle"
  /\ 0 \in 0..NClans
BY BridgeAssumption DEF NoRequest, RequestRecord, Pcs

\* Putting a record into a slot keeps the others.
LEMMA PutTyped ==
  ASSUME TypeOK, NEW r \in Requests, NEW rec \in RequestRecord, Put(r, rec)
  PROVE  /\ request' \in [Requests -> RequestRecord]
         /\ request'[r] = rec
         /\ \A q \in Requests \ {r} : request'[q] = request[q]
BY DEF TypeOK, Put

LEMMA AwaitTyped ==
  ASSUME TypeOK, NEW r \in Requests, NEW at \in Pcs, Await(r, at)
  PROVE  /\ request' \in [Requests -> RequestRecord]
         /\ request'[r].pc = at
         /\ \A q \in Requests \ {r} : request'[q] = request[q]
<1>1. [request[r] EXCEPT !.pc = at] \in RequestRecord
      /\ [request[r] EXCEPT !.pc = at].pc = at
  BY DEF TypeOK, RequestRecord
<1> QED
  BY <1>1, PutTyped DEF Await

LEMMA FinishTyped ==
  ASSUME TypeOK, NEW r \in Requests, Finish(r)
  PROVE  /\ request' \in [Requests -> RequestRecord]
         /\ request'[r] = NoRequest
         /\ \A q \in Requests \ {r} : request'[q] = request[q]
BY NoneTyped, PutTyped DEF Finish

LEMMA LaunchTyped ==
  ASSUME TypeOK, NEW r \in Requests, NEW c \in 0..NClans, Launch(r, c)
  PROVE  /\ request' \in [Requests -> RequestRecord]
         /\ request'[r] # NoRequest
         /\ starting' = TRUE /\ browserGone' = FALSE
         /\ activeClanId' \in 0..NClans
<1>1. [pc |-> "launching", clan |-> c, page |-> None] \in RequestRecord
  BY BridgeAssumption DEF RequestRecord, Pcs, Clans
<1> QED
  BY <1>1, PutTyped, BridgeAssumption DEF Launch, NoRequest, Clans

-----------------------------------------------------------------------------
(* Types.                                                                  *)

\* The parts of the type that a teardown and a release touch.
ProcsTyped ==
  /\ browser \in [Browsers -> 0..NClans]
  /\ wedged \subseteq {b \in Browsers : browser[b] # 0}
  /\ clientCall \in Browsers \cup {None}

HeldTyped ==
  /\ {context, pendingContext, watched, closing} \subseteq Browsers \cup {None}
  /\ activeClanId \in 0..NClans
  /\ tearingDown \in BOOLEAN /\ (closing # None => tearingDown)
  /\ maxSessionTimer \in BOOLEAN /\ idleTimer \in BOOLEAN /\ attached \in BOOLEAN

FlagsTyped ==
  /\ running \in BOOLEAN /\ scanInProgress \in BOOLEAN
  /\ starting \in BOOLEAN /\ browserGone \in BOOLEAN
  /\ saved \in [Clans -> 0..NClans]

RequestsTyped == request \in [Requests -> RequestRecord]

LEMMA TypeParts ==
  ASSUME ProcsTyped', HeldTyped', FlagsTyped', RequestsTyped'
  PROVE  TypeOK'
BY DEF TypeOK, ProcsTyped, HeldTyped, FlagsTyped, RequestsTyped

LEMMA FlagsOf == TypeOK => FlagsTyped
BY DEF TypeOK, FlagsTyped

LEMMA ClearTyped ==
  ASSUME TypeOK, ClearState
  PROVE  HeldTyped'
<1>1. context' = None /\ pendingContext' = None /\ watched' = None
      /\ closing' \in Browsers \cup {None}
  BY DEF TypeOK, ClearState
<1>2. {context', pendingContext', watched', closing'} \subseteq Browsers \cup {None}
  BY <1>1
<1>3. activeClanId' \in 0..NClans
  BY BridgeAssumption DEF ClearState
<1>4. /\ tearingDown' \in BOOLEAN /\ (closing' # None => tearingDown')
      /\ maxSessionTimer' \in BOOLEAN /\ idleTimer' \in BOOLEAN /\ attached' \in BOOLEAN
  BY DEF ClearState
<1> QED
  BY <1>2, <1>3, <1>4 DEF HeldTyped

LEMMA ReleaseBrowserTyped ==
  ASSUME TypeOK, ReleaseBrowser
  PROVE  ProcsTyped'
BY BridgeAssumption DEF TypeOK, ReleaseBrowser, ProcsTyped

LEMMA HeldKept ==
  ASSUME TypeOK, UNCHANGED <<held, teardown, timers>>
  PROVE  HeldTyped'
BY DEF TypeOK, held, teardown, timers, HeldTyped

LEMMA ProcsKept == ASSUME TypeOK, UNCHANGED procs PROVE ProcsTyped'
BY DEF TypeOK, procs, ProcsTyped

\* The latch goes with the browser it was set for.
LEMMA ReleaseTyped ==
  ASSUME TypeOK, Release
  PROVE  /\ ProcsTyped' /\ tearingDown' = FALSE /\ closing' = None
BY ReleaseBrowserTyped DEF Release

LEMMA BegunTyped ==
  ASSUME TypeOK, BeginTeardown
  PROVE  HeldTyped' /\ tearingDown' = TRUE
BY ClearTyped DEF BeginTeardown, ClearState

LEMMA GoneTyped ==
  ASSUME TypeOK, HandleBrowserGone
  PROVE  HeldTyped' /\ browserGone' \in BOOLEAN
<1>1. CASE tearingDown \/ browserGone
  BY <1>1, HeldKept DEF HandleBrowserGone, TypeOK
<1>2. CASE ~(tearingDown \/ browserGone)
  BY <1>2, HeldKept, BegunTyped DEF HandleBrowserGone, TypeOK
<1> QED
  BY <1>1, <1>2

-----------------------------------------------------------------------------
(* Requests to start.                                                      *)

\* What becomes of a start that does not wait, whatever running is.
LEMMA OutcomeTyped ==
  ASSUME TypeOK, NEW r \in Requests, NEW c \in 0..NClans, NEW was \in BOOLEAN,
         \/ (RefuseStart(r, was) \/ StartThrows(r)) /\ UNCHANGED bridge
         \/ (StartLaunches(r, c) \/ StartOverDead(r, c))
            /\ UNCHANGED <<context, pendingContext, watched>>
  PROVE  /\ RequestsTyped' /\ running' \in BOOLEAN /\ starting' \in BOOLEAN
         /\ browserGone' \in BOOLEAN /\ activeClanId' \in 0..NClans
         /\ {context', pendingContext', watched'} \subseteq Browsers \cup {None}
<1>1. CASE (RefuseStart(r, was) \/ StartThrows(r)) /\ UNCHANGED bridge
  BY <1>1, FinishTyped DEF RefuseStart, StartThrows, bridge, held, TypeOK, RequestsTyped
<1>2. CASE (StartLaunches(r, c) \/ StartOverDead(r, c))
            /\ UNCHANGED <<context, pendingContext, watched>>
  BY <1>2, LaunchTyped DEF StartLaunches, StartOverDead, TypeOK, RequestsTyped
<1> QED
  BY <1>1, <1>2

LEMMA StartTyped ==
  ASSUME TypeOK, NEW r \in Requests, NEW c \in Clans, Start(r, c)
  PROVE  TypeOK'
<1>1. UNCHANGED <<scanInProgress, procs, saved>>
  BY DEF Start
<1>2. CASE /\ BeginTeardown
           /\ Put(r, [pc |-> "cancelling", clan |-> c, page |-> None])
           /\ UNCHANGED <<running, starting, browserGone>>
  <2>1. [pc |-> "cancelling", clan |-> c, page |-> None] \in RequestRecord
    BY BridgeAssumption DEF RequestRecord, Pcs, Waiting, Clans
  <2> QED
    BY <1>1, <1>2, <2>1, PutTyped, BegunTyped, ProcsKept, TypeParts, FlagsOf
       DEF FlagsTyped, RequestsTyped
<1>3. CASE LET was == running \/ context # None
           IN  \/ (RefuseStart(r, was) \/ StartThrows(r))
                  /\ UNCHANGED <<bridge, teardown, timers>>
               \/ /\ StartLaunches(r, c) \/ StartOverDead(r, c)
                  /\ UNCHANGED <<teardown, context, pendingContext, watched, timers>>
  <2>1. /\ RequestsTyped' /\ running' \in BOOLEAN /\ starting' \in BOOLEAN
        /\ browserGone' \in BOOLEAN /\ activeClanId' \in 0..NClans
        /\ {context', pendingContext', watched'} \subseteq Browsers \cup {None}
    BY <1>3, OutcomeTyped, c \in 0..NClans DEF Clans
  <2>2. UNCHANGED <<teardown, timers>>
    BY <1>3
  <2>3. HeldTyped'
    BY <2>1, <2>2 DEF TypeOK, HeldTyped, teardown, timers
  <2> QED
    BY <1>1, <2>1, <2>3, ProcsKept, TypeParts, FlagsOf DEF FlagsTyped
<1> QED
  BY <1>2, <1>3 DEF Start

LEMMA StartCancelledTyped ==
  ASSUME TypeOK, NEW r \in Requests, StartCancelled(r)
  PROVE  TypeOK'
<1>1. UNCHANGED <<scanInProgress, saved>>
  BY DEF StartCancelled
<1>2. request[r].clan \in 0..NClans
  BY DEF TypeOK, RequestRecord
<1>3. CASE /\ Release
           /\ RefuseStart(r, TRUE) \/ StartThrows(r)
           /\ UNCHANGED <<bridge, timers>>
  <2>1. RequestsTyped' /\ running' \in BOOLEAN
    BY <1>3, FinishTyped DEF RefuseStart, StartThrows, RequestsTyped
  <2>2. HeldTyped' /\ starting' \in BOOLEAN /\ browserGone' \in BOOLEAN
    BY <1>3, ReleaseTyped DEF TypeOK, HeldTyped, bridge, held, timers
  <2> QED
    BY <1>1, <1>3, <2>1, <2>2, ReleaseTyped, TypeParts, FlagsOf DEF FlagsTyped
<1>4. CASE /\ Release
           /\ StartLaunches(r, request[r].clan)
           /\ UNCHANGED <<context, pendingContext, watched, timers>>
  <2>1. /\ RequestsTyped' /\ running' \in BOOLEAN /\ starting' \in BOOLEAN
        /\ browserGone' \in BOOLEAN /\ activeClanId' \in 0..NClans
    BY <1>2, <1>4, LaunchTyped DEF StartLaunches, RequestsTyped
  <2>2. HeldTyped'
    BY <1>4, <2>1, ReleaseTyped DEF TypeOK, HeldTyped, timers
  <2> QED
    BY <1>1, <1>4, <2>1, <2>2, ReleaseTyped, TypeParts, FlagsOf DEF FlagsTyped
<1>5. CASE ReleaseBrowser /\ StartReclaims(r)
  <2>1. RequestsTyped' /\ running' = FALSE /\ UNCHANGED <<starting, browserGone>>
    BY <1>5, AwaitTyped DEF StartReclaims, RequestsTyped, Pcs, Waiting
  <2> QED
    BY <1>1, <1>5, <2>1, ReleaseBrowserTyped, ClearTyped, TypeParts, FlagsOf
       DEF StartReclaims, FlagsTyped
<1> QED
  BY <1>3, <1>4, <1>5 DEF StartCancelled

LEMMA StartReclaimedTyped ==
  ASSUME TypeOK, NEW r \in Requests, StartReclaimed(r)
  PROVE  TypeOK'
<1>1. request[r].clan \in 0..NClans
  BY DEF TypeOK, RequestRecord
<1>2. /\ RequestsTyped' /\ starting' = TRUE /\ browserGone' = FALSE
      /\ activeClanId' \in 0..NClans
  BY <1>1, LaunchTyped DEF StartReclaimed, RequestsTyped
<1>3. HeldTyped'
  BY <1>2, ReleaseTyped DEF StartReclaimed, TypeOK, HeldTyped, timers
<1> QED
  BY <1>2, <1>3, ReleaseTyped, TypeParts, FlagsOf
     DEF StartReclaimed, FlagsTyped, TeardownHook

LEMMA LaunchedTyped ==
  ASSUME TypeOK, NEW r \in Requests, Launched(r)
  PROVE  TypeOK'
<1>1. PICK b \in Browsers :
        /\ browser[b] = 0
        /\ browser' = [browser EXCEPT ![b] = request[r].clan]
        /\ pendingContext' = b /\ watched' = b
        /\ Put(r, [request[r] EXCEPT !.pc = "loading", !.page = b])
  BY DEF Launched
<1>2. [request[r] EXCEPT !.pc = "loading", !.page = b] \in RequestRecord
      /\ request[r].clan \in 0..NClans
  BY DEF TypeOK, RequestRecord, Pcs
<1>3. RequestsTyped'
  BY <1>1, <1>2, PutTyped DEF RequestsTyped
<1>4. ProcsTyped'
  BY <1>1, <1>2 DEF TypeOK, Launched, ProcsTyped
<1>5. HeldTyped'
  BY <1>1 DEF TypeOK, Launched, HeldTyped, teardown, timers
<1>6. FlagsTyped'
  BY DEF TypeOK, Launched, FlagsTyped, loop
<1> QED
  BY <1>3, <1>4, <1>5, <1>6, TypeParts

LEMMA AcceptedTyped ==
  ASSUME TypeOK, NEW r \in Requests, Accepted(r)
  PROVE  TypeOK' /\ context' # None
<1>1. request[r].page \in Browsers
  BY DEF TypeOK, RequestRecord, Accepted, Runs
<1>2. RequestsTyped' /\ ProcsTyped'
  BY FinishTyped, ProcsKept DEF Accepted, RequestsTyped
<1>3. HeldTyped' /\ context' # None
  BY <1>1, BridgeAssumption DEF TypeOK, Accepted, HeldTyped, teardown, Cap
<1>4. FlagsTyped'
  BY DEF TypeOK, Accepted, FlagsTyped, loop
<1> QED
  BY <1>2, <1>3, <1>4, TypeParts

LEMMA StartFailsTyped ==
  ASSUME TypeOK, NEW r \in Requests, StartFails(r)
  PROVE  TypeOK'
<1>1. UNCHANGED <<scanInProgress, procs, browserGone, saved>>
  BY DEF StartFails
<1>2. CASE BeginTeardown /\ Await(r, "failing") /\ UNCHANGED <<running, starting>>
  <2>1. RequestsTyped'
    BY <1>2, AwaitTyped DEF RequestsTyped, Pcs, Waiting
  <2> QED
    BY <1>1, <1>2, <2>1, BegunTyped, ProcsKept, TypeParts, FlagsOf DEF FlagsTyped
<1>3. CASE /\ starting' = FALSE /\ running' = TRUE /\ Finish(r)
           /\ UNCHANGED <<teardown, held, timers>>
  BY <1>1, <1>3, FinishTyped, HeldKept, ProcsKept, TypeParts, FlagsOf
     DEF FlagsTyped, RequestsTyped
<1> QED
  BY <1>2, <1>3 DEF StartFails

\* What a request has waited for is over, and nothing else is touched.
LEMMA OverTyped ==
  ASSUME TypeOK, Release, UNCHANGED <<held, timers>>
  PROVE  ProcsTyped' /\ HeldTyped' /\ tearingDown' = FALSE
BY ReleaseTyped DEF TypeOK, HeldTyped, held, timers

LEMMA FailedOrEndedTyped ==
  ASSUME TypeOK, NEW r \in Requests, StartFailed(r) \/ Ended(r)
  PROVE  TypeOK' /\ running' = TRUE
<1>1. RequestsTyped'
  BY FinishTyped DEF StartFailed, Ended, RequestsTyped
<1>2. UNCHANGED <<held, timers>> /\ Release
  BY DEF StartFailed, Ended, bridge
<1> QED
  BY <1>1, <1>2, OverTyped, TypeParts, FlagsOf DEF StartFailed, Ended, bridge, FlagsTyped

-----------------------------------------------------------------------------
(* Requests to save and to cancel.                                         *)

LEMMA EndTyped ==
  ASSUME TypeOK, NEW r \in Requests, EndSession(r), saved' \in [Clans -> 0..NClans]
  PROVE  TypeOK' /\ (running' = TRUE \/ tearingDown' = TRUE)
<1>1. UNCHANGED <<scanInProgress, procs, starting, browserGone>>
  BY DEF EndSession
<1>2. CASE BeginTeardown /\ Await(r, "ending") /\ UNCHANGED running
  <2>1. RequestsTyped'
    BY <1>2, AwaitTyped DEF RequestsTyped, Pcs, Waiting
  <2> QED
    BY <1>1, <1>2, <2>1, BegunTyped, ProcsKept, TypeParts, FlagsOf DEF FlagsTyped
<1>3. CASE running' = TRUE /\ Finish(r) /\ UNCHANGED <<teardown, held, timers>>
  BY <1>1, <1>3, FinishTyped, HeldKept, ProcsKept, TypeParts, FlagsOf
     DEF FlagsTyped, RequestsTyped
<1> QED
  BY <1>2, <1>3 DEF EndSession

LEMMA SaveTyped ==
  ASSUME TypeOK, NEW r \in Requests,
         Save(r) \/ SaveReads(r) \/ SaveWrites(r) \/ SaveFails(r) \/ SaveThrows(r)
  PROVE  TypeOK'
<1>1. CASE Save(r)
  <2>1. [pc |-> "settling", page |-> None,
         clan |-> IF activeClanId = 0 THEN 1 ELSE activeClanId] \in RequestRecord
    BY BridgeAssumption DEF TypeOK, RequestRecord, Pcs
  <2> QED
    BY <1>1, <2>1, PutTyped, HeldKept, ProcsKept, TypeParts, FlagsOf
       DEF Save, RequestsTyped, FlagsTyped, bridge, loop
<1>2. CASE SaveReads(r)
  <2>1. [request[r] EXCEPT !.pc = "reading", !.page = context] \in RequestRecord
    BY DEF TypeOK, RequestRecord, Pcs
  <2> QED
    BY <1>2, <2>1, PutTyped, HeldKept, ProcsKept, TypeParts, FlagsOf
       DEF SaveReads, RequestsTyped, FlagsTyped, bridge, loop
<1>3. CASE SaveWrites(r)
  <2>1. saved' \in [Clans -> 0..NClans]
    BY <1>3 DEF TypeOK, SaveWrites, RequestRecord, Runs
  <2> QED
    BY <1>3, <2>1, EndTyped DEF SaveWrites
<1>4. CASE SaveFails(r)
  BY <1>4, EndTyped DEF SaveFails, TypeOK
<1>5. CASE SaveThrows(r)
  BY <1>5, FinishTyped, HeldKept, ProcsKept, TypeParts, FlagsOf
     DEF SaveThrows, RequestsTyped, FlagsTyped, bridge
<1> QED
  BY <1>1, <1>2, <1>3, <1>4, <1>5

LEMMA CancelTyped ==
  ASSUME TypeOK, NEW r \in Requests, Cancel(r)
  PROVE  TypeOK' /\ (running' = TRUE \/ tearingDown' = TRUE)
<1>1. CASE EndSession(r)
  BY <1>1, EndTyped DEF Cancel, TypeOK
<1>2. CASE ~EndSession(r)
  BY <1>2, HeldKept, ProcsKept, TypeParts, FlagsOf
     DEF Cancel, TypeOK, RequestsTyped, FlagsTyped, bridge
<1> QED
  BY <1>1, <1>2

-----------------------------------------------------------------------------
(* Teardowns nobody waits for, the socket, the browsers and the scans.     *)

LEMMA ReleasedTyped ==
  ASSUME TypeOK, Released
  PROVE  TypeOK' /\ running' = TRUE
BY OverTyped, TypeParts, FlagsOf
   DEF Released, TeardownHook, bridge, FlagsTyped, RequestsTyped, TypeOK

LEMMA TimersTyped ==
  ASSUME TypeOK, MaxSessionTimerFires \/ IdleTimerFires
  PROVE  TypeOK' /\ tearingDown' = TRUE
<1>1. BeginTeardown /\ UNCHANGED <<loop, procs, starting, browserGone, request, saved>>
  BY DEF MaxSessionTimerFires, IdleTimerFires
<1> QED
  BY <1>1, BegunTyped, ProcsKept, TypeParts, FlagsOf
     DEF FlagsTyped, RequestsTyped, TypeOK, loop

\* The steps of the environment leave the loop's pause, the requests and the start
\* alone, and the session too, unless they begin a teardown.
Calm ==
  /\ UNCHANGED <<running, request, starting, saved>>
  /\ (UNCHANGED context /\ UNCHANGED tearingDown) \/ tearingDown' = TRUE

LEMMA SocketTyped ==
  ASSUME TypeOK, AttachSocket \/ RelayInput \/ CallAnswered \/ StreamFails \/ SocketCloses
  PROVE  TypeOK' /\ Calm
<1>1. UNCHANGED <<running, scanInProgress, browser, wedged, bridge, teardown, request, saved>>
  BY DEF AttachSocket, RelayInput, CallAnswered, StreamFails, SocketCloses, loop, procs
<1>2. Calm
  BY <1>1 DEF Calm, bridge, held, teardown
<1>3. /\ clientCall' \in Browsers \cup {None}
      /\ maxSessionTimer' \in BOOLEAN /\ idleTimer' \in BOOLEAN /\ attached' \in BOOLEAN
  BY DEF TypeOK, AttachSocket, RelayInput, CallAnswered, StreamFails, SocketCloses,
         timers, procs
<1>4. ProcsTyped' /\ HeldTyped'
  BY <1>1, <1>3 DEF TypeOK, ProcsTyped, HeldTyped, bridge, held, teardown
<1> QED
  BY <1>1, <1>2, <1>4, TypeParts, FlagsOf DEF TypeOK, FlagsTyped, RequestsTyped, bridge

LEMMA GoneCalm ==
  ASSUME TypeOK, HandleBrowserGone
  PROVE  (UNCHANGED context /\ UNCHANGED tearingDown) \/ tearingDown' = TRUE
BY BegunTyped DEF HandleBrowserGone, held, teardown

LEMMA BrowsersTyped ==
  ASSUME TypeOK, CallLost \/ \E b \in Browsers : BrowserDies(b) \/ BrowserWedges(b)
  PROVE  TypeOK' /\ Calm
<1>1. CASE CallLost
  <2>1. ProcsTyped'
    BY <1>1 DEF TypeOK, CallLost, ProcsTyped
  <2> QED
    BY <1>1, <2>1, GoneTyped, GoneCalm, TypeParts, FlagsOf
       DEF CallLost, Calm, TypeOK, FlagsTyped, RequestsTyped, loop
<1>2. ASSUME NEW b \in Browsers, BrowserDies(b)
      PROVE  TypeOK' /\ Calm
  <2>1. ProcsTyped'
    BY <1>2, BridgeAssumption DEF TypeOK, BrowserDies, ProcsTyped
  <2>2. /\ HeldTyped' /\ browserGone' \in BOOLEAN
        /\ (UNCHANGED context /\ UNCHANGED tearingDown) \/ tearingDown' = TRUE
    <3>1. CASE watched = b
      BY <1>2, <3>1, GoneTyped, GoneCalm DEF BrowserDies
    <3>2. CASE watched # b
      BY <1>2, <3>2, HeldKept DEF BrowserDies, TypeOK, held, teardown
    <3> QED
      BY <3>1, <3>2
  <2> QED
    BY <1>2, <2>1, <2>2, TypeParts, FlagsOf
       DEF BrowserDies, Calm, TypeOK, FlagsTyped, RequestsTyped, loop
<1>3. ASSUME NEW b \in Browsers, BrowserWedges(b)
      PROVE  TypeOK' /\ Calm
  <2>1. ProcsTyped'
    BY <1>3 DEF TypeOK, BrowserWedges, Runs, ProcsTyped
  <2> QED
    BY <1>3, <2>1, HeldKept, TypeParts, FlagsOf
       DEF BrowserWedges, Calm, TypeOK, FlagsTyped, RequestsTyped, loop, bridge, held,
           teardown
<1> QED
  BY <1>1, <1>2, <1>3

LEMMA ScansTyped ==
  ASSUME TypeOK, ScanBegins \/ ScanEnds
  PROVE  TypeOK' /\ Calm
<1>1. UNCHANGED <<running, procs, bridge, teardown, timers, request, saved>>
      /\ scanInProgress' \in BOOLEAN
  BY DEF ScanBegins, ScanEnds
<1> QED
  BY <1>1, HeldKept, ProcsKept, TypeParts, FlagsOf
     DEF Calm, TypeOK, FlagsTyped, RequestsTyped, bridge, held, teardown

-----------------------------------------------------------------------------
(* The theorems.                                                           *)

LEMMA BridgeInit == Init => TypeOK /\ NeverLeftPaused
BY NoneTyped, BridgeAssumption DEF Init, TypeOK, NeverLeftPaused

LEMMA BridgeTyped == TypeOK /\ [Next]_vars => TypeOK'
<1> SUFFICES ASSUME TypeOK, [Next]_vars PROVE TypeOK'
  OBVIOUS
<1>1. ASSUME NEW r \in Requests, Arrival(r)
      PROVE  TypeOK'
  BY <1>1, SaveTyped, CancelTyped, StartTyped DEF Arrival
<1>2. ASSUME NEW r \in Requests, RequestStep(r)
      PROVE  TypeOK'
  <2>1. CASE Loaded(r)
    <3>1. RequestsTyped'
      BY <2>1, AwaitTyped DEF Loaded, RequestsTyped, Pcs
    <3> QED
      BY <2>1, <3>1, HeldKept, ProcsKept, TypeParts, FlagsOf
         DEF Loaded, FlagsTyped, loop, bridge
  <2> QED
    BY <1>2, <2>1, StartCancelledTyped, StartReclaimedTyped, LaunchedTyped, AcceptedTyped,
       StartFailsTyped, FailedOrEndedTyped, SaveTyped DEF RequestStep
<1>3. CASE Released \/ Timers
  BY <1>3, ReleasedTyped, TimersTyped DEF Timers
<1>4. CASE Environment
  BY <1>4, SocketTyped, BrowsersTyped, ScansTyped DEF Environment
<1>5. CASE UNCHANGED vars
  BY <1>5, HeldKept, ProcsKept, TypeParts, FlagsOf
     DEF vars, TypeOK, FlagsTyped, RequestsTyped, loop, bridge
<1> QED
  BY <1>1, <1>2, <1>3, <1>4, <1>5 DEF Next

\* The variables of the bridge keep their types: what a teardown is releasing is only
\* there while its latch is set, and only a running browser is wedged.
THEOREM BridgeTypesCorrect == Spec => []TypeOK
<1>1. Init => TypeOK
  BY BridgeInit
<1> QED
  BY <1>1, BridgeTyped, PTL DEF Spec

\* A step that leaves the loop paused leaves the bridge busy.  It is busy in itself, by
\* a session, a start or a teardown, or with a request.
LEMMA Busy ==
  ASSUME context' # None \/ starting' = TRUE \/ tearingDown' = TRUE
         \/ \E r \in Requests : request'[r] # NoRequest
  PROVE  NeverLeftPaused'
BY DEF NeverLeftPaused, AtRest

LEMMA StartPauses ==
  ASSUME TypeOK, NeverLeftPaused, NEW r \in Requests, NEW c \in Clans, Start(r, c)
  PROVE  NeverLeftPaused'
<1>1. CASE /\ BeginTeardown
           /\ Put(r, [pc |-> "cancelling", clan |-> c, page |-> None])
           /\ UNCHANGED <<running, starting, browserGone>>
  BY <1>1, BegunTyped, Busy
<1>2. CASE /\ RefuseStart(r, running \/ context # None)
           /\ UNCHANGED <<bridge, teardown, timers>>
  <2>1. CASE running \/ context # None
    BY <1>2, <2>1 DEF RefuseStart, NeverLeftPaused
  <2>2. CASE ~(running \/ context # None)
    <3>1. ~AtRest /\ context = None
      BY <2>2 DEF NeverLeftPaused
    <3>2. /\ request[r] = NoRequest
          /\ \A q \in Requests \ {r} : request'[q] = request[q]
      BY <1>2, FinishTyped DEF Start, RefuseStart
    <3> QED
      BY <1>2, <3>1, <3>2, Busy DEF AtRest, TypeOK, bridge, teardown
  <2> QED
    BY <2>1, <2>2
<1>3. CASE StartThrows(r)
  BY <1>3 DEF StartThrows, NeverLeftPaused
<1>4. CASE StartLaunches(r, c) \/ StartOverDead(r, c)
  BY <1>4, Busy DEF StartLaunches, StartOverDead, Launch
<1> QED
  BY <1>1, <1>2, <1>3, <1>4 DEF Start

LEMMA RequestPauses ==
  ASSUME TypeOK, NEW r \in Requests, RequestStep(r)
  PROVE  NeverLeftPaused'
<1>1. CASE StartCancelled(r)
  <2>1. CASE RefuseStart(r, TRUE) \/ StartThrows(r)
    BY <2>1 DEF RefuseStart, StartThrows, NeverLeftPaused
  <2>2. CASE StartLaunches(r, request[r].clan)
    BY <2>2, Busy DEF StartLaunches, Launch
  <2>3. CASE StartReclaims(r)
    BY <2>3, Busy DEF StartReclaims, ClearState
  <2> QED
    BY <1>1, <2>1, <2>2, <2>3 DEF StartCancelled
<1>2. CASE StartReclaimed(r)
  BY <1>2, Busy DEF StartReclaimed, Launch
<1>3. CASE Launched(r) \/ Loaded(r) \/ SaveReads(r)
  <2>1. PICK at \in {"loading", "probing", "reading"} : request'[r].pc = at
    <3>1. CASE Launched(r)
      BY <3>1 DEF Launched, Put, TypeOK, RequestRecord
    <3>2. CASE Loaded(r)
      BY <3>2, AwaitTyped DEF Loaded, Pcs
    <3>3. CASE SaveReads(r)
      BY <3>3 DEF SaveReads, Put, TypeOK, RequestRecord
    <3> QED
      BY <1>3, <3>1, <3>2, <3>3
  <2> QED
    BY <2>1, Busy, NoneTyped
<1>4. CASE Accepted(r)
  BY <1>4, AcceptedTyped, Busy
<1>5. CASE StartFails(r)
  BY <1>5, BegunTyped, Busy DEF StartFails, NeverLeftPaused
<1>6. CASE StartFailed(r) \/ Ended(r) \/ SaveThrows(r)
  BY <1>6 DEF StartFailed, Ended, SaveThrows, NeverLeftPaused
<1>7. CASE SaveWrites(r) \/ SaveFails(r)
  BY <1>7, BegunTyped, Busy DEF SaveWrites, SaveFails, EndSession, NeverLeftPaused
<1> QED
  BY <1>1, <1>2, <1>3, <1>4, <1>5, <1>6, <1>7, RequestStep(r) DEF RequestStep

LEMMA BridgePauses == TypeOK /\ NeverLeftPaused /\ [Next]_vars => NeverLeftPaused'
<1> SUFFICES ASSUME TypeOK, NeverLeftPaused, [Next]_vars PROVE NeverLeftPaused'
  OBVIOUS
<1>1. ASSUME NEW r \in Requests, Arrival(r)
      PROVE  NeverLeftPaused'
  <2>1. CASE Save(r)
    <3>1. request'[r].pc = "settling"
      BY <2>1 DEF Save, Put, TypeOK
    <3> QED
      BY <3>1, Busy, NoneTyped
  <2>2. CASE Cancel(r)
    BY <2>2, CancelTyped, Busy DEF NeverLeftPaused
  <2> QED
    BY <1>1, <2>1, <2>2, StartPauses DEF Arrival
<1>2. ASSUME NEW r \in Requests, RequestStep(r)
      PROVE  NeverLeftPaused'
  BY <1>2, RequestPauses
<1>3. CASE Released \/ Timers
  BY <1>3, ReleasedTyped, TimersTyped, Busy DEF Timers, NeverLeftPaused
<1>4. CASE Environment
  <2>1. Calm
    BY <1>4, SocketTyped, BrowsersTyped, ScansTyped DEF Environment
  <2> QED
    BY <2>1, Busy DEF Calm, NeverLeftPaused, AtRest
<1>5. CASE UNCHANGED vars
  BY <1>5 DEF vars, loop, bridge, held, teardown, NeverLeftPaused, AtRest
<1> QED
  BY <1>1, <1>2, <1>3, <1>4, <1>5 DEF Next

\* The loop that a login session has paused runs again once the bridge is at rest,
\* whoever ended the session, in whatever order releases, failures and new starts
\* overlap.
THEOREM PauseEnds == Spec => []NeverLeftPaused
<1>1. Init => TypeOK /\ NeverLeftPaused
  BY BridgeInit
<1>2. TypeOK /\ NeverLeftPaused /\ [Next]_vars => (TypeOK /\ NeverLeftPaused)'
  BY BridgeTyped, BridgePauses
<1> QED
  BY <1>1, <1>2, PTL DEF Spec
=============================================================================
