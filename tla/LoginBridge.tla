---------------------------- MODULE LoginBridge ----------------------------
(***************************************************************************)
(* The in-app login bridge (web/login-bridge.ts) with the routes that      *)
(* drive it (web/routes/api.ts) and the scan loop as far as they touch it. *)
(*                                                                         *)
(* An admin starts a session: the scan loop is paused, a Chromium is       *)
(* launched on the clan's login profile and, once it has answered a probe, *)
(* becomes the session.  A save copies its cookies to the clan's           *)
(* storage-state.json, which the scanner signs in with.  A session ends by *)
(* save, cancel, the death of its browser or a timer; whichever it is, the *)
(* teardown frees the bridge at once, releases the browser in the          *)
(* background and then resumes the scan loop.                              *)
(*                                                                         *)
(* As in ScanLoop, code between two awaits is one step.  A request is an   *)
(* HTTP request being served; its pc names the await it is suspended at.   *)
(* The GPU detour of a launch, the stream's quality and Xvfb are left out. *)
(***************************************************************************)
EXTENDS Integers, FiniteSets

CONSTANTS
  NClans,    \* clan ids are 1..NClans
  Requests,  \* slots for concurrent requests
  Browsers,  \* Chromium processes of the bridge
  None       \* no browser

Clans == 1..NClans

ASSUME BridgeAssumption ==
  /\ NClans \in Nat \ {0}
  /\ Browsers # {} /\ None \notin Browsers

VARIABLES
  running,         \* scan loop: not paused
  scanInProgress,  \* scan loop: a scan holds the lock
  browser,         \* [Browsers -> clan of its profile, 0 when not running]
  wedged,          \* browsers that run and answer nothing
  starting,
  context,         \* the session's browser
  pendingContext,  \* a browser launched and not yet accepted
  watched,         \* the browser whose death events carry the current
                   \*   launchGeneration
  activeClanId,    \* 0 for null
  browserGone,
  tearingDown,
  closing,         \* the browser the teardown is releasing
  maxSessionTimer, idleTimer,  \* armed
  attached,        \* a client's socket is attached
  clientCall,      \* the browser a call made for the client (setting up the
                   \*   stream, relaying its input) is waiting for
  request,
  saved            \* disk: [Clans -> the clan whose login profile the
                   \*   cookies in its storage-state.json come from]

loop     == <<running, scanInProgress>>
procs    == <<browser, wedged, clientCall>>
held     == <<context, pendingContext, watched, activeClanId>>
bridge   == <<starting, held, browserGone>>
teardown == <<tearingDown, closing>>
timers   == <<maxSessionTimer, idleTimer, attached>>
vars     == <<loop, procs, bridge, teardown, timers, request, saved>>

\* Awaits of a request; at those of Waiting it waits for the teardown it began.
Waiting == {"cancelling", "reclaiming", "failing", "ending"}

Pcs == {"idle", "launching", "loading", "probing", "settling", "reading"}
         \cup Waiting

\* page: the browser the request holds; clan: the clan it is for.
RequestRecord == [pc: Pcs, clan: 0..NClans, page: Browsers \cup {None}]

NoRequest == [pc |-> "idle", clan |-> 0, page |-> None]

Init ==
  /\ running = TRUE /\ scanInProgress = FALSE
  /\ browser = [b \in Browsers |-> 0] /\ wedged = {}
  /\ starting = FALSE /\ context = None /\ pendingContext = None
  /\ watched = None /\ activeClanId = 0 /\ browserGone = FALSE
  /\ tearingDown = FALSE /\ closing = None
  /\ maxSessionTimer = FALSE /\ idleTimer = FALSE
  /\ attached = FALSE /\ clientCall = None
  /\ request = [r \in Requests |-> NoRequest]
  /\ saved = [c \in Clans |-> 0]

Runs(b) == b # None /\ browser[b] # 0

Put(r, rec) == request' = [request EXCEPT ![r] = rec]

Await(r, at) == Put(r, [request[r] EXCEPT !.pc = at])

Finish(r) == Put(r, NoRequest)

-----------------------------------------------------------------------------
(* teardown(): the state first, then the release.                          *)

\* The first half: everything that makes the bridge look occupied is cleared
\* before anything is awaited.
ClearState ==
  /\ tearingDown' = TRUE
  /\ closing' = IF context # None THEN context ELSE pendingContext
  /\ context' = None /\ pendingContext' = None /\ watched' = None
  /\ activeClanId' = 0
  /\ maxSessionTimer' = FALSE /\ idleTimer' = FALSE /\ attached' = FALSE

BeginTeardown == ~tearingDown /\ ClearState

\* Fault: the release waits for the browser to close, without a deadline.
ReleaseUnbounded == closing \notin wedged

\* Every step of the release carries a deadline.
ReleaseEnds == TRUE

\* The release: the browser closes, failing the calls that wait for it; or it
\* is killed after the deadline, and they fail after that.
ReleaseBrowser ==
  /\ tearingDown /\ ReleaseEnds
  /\ browser' = [b \in Browsers |-> IF b = closing THEN 0 ELSE browser[b]]
  /\ wedged' = wedged \ {closing}
  /\ clientCall' = IF clientCall = closing /\ closing \notin wedged
                     THEN None ELSE clientCall

\* Fault: the latch goes while the browser is still held.
ReleaseLatchFirst ==
  ReleaseBrowser /\ tearingDown' = FALSE /\ UNCHANGED closing

\* In the end the latch is cleared.
Release == ReleaseBrowser /\ tearingDown' = FALSE /\ closing' = None

\* Fault: only the routes resume the scan loop.
NoTeardownHook == running

\* The teardown hook resumes the scan loop; running when it is over.
TeardownHook == TRUE

\* A teardown that no request waits for is over.
Released ==
  /\ \A r \in Requests : request[r].pc \notin Waiting
  /\ Release
  /\ running' = TeardownHook
  /\ UNCHANGED <<scanInProgress, bridge, timers, request, saved>>

-----------------------------------------------------------------------------
(* POST /admin/login-session/start                                         *)

Dead(b) == browserGone \/ browser[b] = 0

\* bridge.start() from its guards to its first await, after the route has
\* paused the loop.  was is what running is when the route gets here.
Launch(r, c) ==
  /\ starting' = TRUE /\ activeClanId' = c /\ browserGone' = FALSE
  /\ Put(r, [pc |-> "launching", clan |-> c, page |-> None])

\* A scan is running: 409, and nothing changes.
RefuseStart(r, was) ==
  /\ scanInProgress
  /\ running' = was
  /\ Finish(r)

\* A session is active or starting: start() throws and the route resumes the
\* loop it has just paused.
StartThrows(r) ==
  /\ ~scanInProgress
  /\ starting \/ (context # None /\ ~Dead(context))
  /\ running' = TRUE
  /\ Finish(r)

StartLaunches(r, c) ==
  /\ ~scanInProgress /\ ~starting /\ context = None
  /\ running' = FALSE
  /\ Launch(r, c)

\* The session there is has a dead browser, which start() tears down.
HoldsDeadBrowser ==
  ~scanInProgress /\ ~starting /\ context # None /\ Dead(context)

\* start() waits for the teardown of the dead browser.
StartReclaims(r) ==
  /\ HoldsDeadBrowser
  /\ running' = FALSE
  /\ ClearState
  /\ Await(r, "reclaiming")
  /\ UNCHANGED <<starting, browserGone>>

\* Another teardown is running: start() does not wait, and keeps what it has.
StartOverDead(r, c) ==
  /\ HoldsDeadBrowser
  /\ running' = FALSE
  /\ Launch(r, c)

\* The request comes in.  A session that is active is cancelled first, and the
\* loop resumed; the cancel returns at once while another teardown is running.
Start(r, c) ==
  /\ request[r] = NoRequest
  /\ UNCHANGED <<scanInProgress, procs, saved>>
  /\ \/ /\ context # None
        /\ BeginTeardown
        /\ Put(r, [pc |-> "cancelling", clan |-> c, page |-> None])
        /\ UNCHANGED <<running, starting, browserGone>>
     \/ /\ context = None \/ tearingDown
        /\ LET was == running \/ context # None
           IN  \/ (RefuseStart(r, was) \/ StartThrows(r))
                  /\ UNCHANGED <<bridge, teardown, timers>>
               \/ /\ StartLaunches(r, c) \/ StartOverDead(r, c)
                  /\ UNCHANGED <<teardown, context, pendingContext, watched,
                                 timers>>

\* The session that was active has been released; another may be active now.
StartCancelled(r) ==
  /\ request[r].pc = "cancelling"
  /\ UNCHANGED <<scanInProgress, saved>>
  /\ \/ /\ Release
        /\ RefuseStart(r, TRUE) \/ StartThrows(r)
        /\ UNCHANGED <<bridge, timers>>
     \/ /\ Release
        /\ StartLaunches(r, request[r].clan)
        /\ UNCHANGED <<context, pendingContext, watched, timers>>
     \/ /\ ReleaseBrowser
        /\ StartReclaims(r)

\* The dead browser has been released; start() goes on without looking again.
StartReclaimed(r) ==
  /\ request[r].pc = "reclaiming"
  /\ Release
  /\ running' = TeardownHook
  /\ Launch(r, request[r].clan)
  /\ UNCHANGED <<scanInProgress, context, pendingContext, watched, timers,
                 saved>>

\* The launch, on a profile no other Chromium has open.
Launched(r) ==
  /\ request[r].pc = "launching"
  /\ \A b \in Browsers : browser[b] # request[r].clan
  /\ \E b \in Browsers :
       /\ browser[b] = 0
       /\ \A q \in Requests : request[q].page # b
       /\ b \notin {context, pendingContext, closing}
       /\ browser' = [browser EXCEPT ![b] = request[r].clan]
       /\ pendingContext' = b /\ watched' = b
       /\ Put(r, [request[r] EXCEPT !.pc = "loading", !.page = b])
  /\ UNCHANGED <<loop, wedged, clientCall, starting, context, activeClanId,
                 browserGone, teardown, timers, saved>>

\* The launchGeneration is still the one of this browser.
StillCurrent(b) == watched = b

\* The game has loaded, or has not: the session is only refused when it has
\* been torn down, or its browser is gone.
Loaded(r) ==
  /\ request[r].pc = "loading"
  /\ StillCurrent(request[r].page)
  /\ ~browserGone /\ Runs(request[r].page)
  /\ Await(r, "probing")
  /\ UNCHANGED <<loop, procs, bridge, teardown, timers, saved>>

\* Fault: a session nobody attaches to has no cap.
CapWhenAttached == attached

\* An accepted session is capped from the start.
Cap == TRUE

\* The browser has answered the probe: it is the session.
Accepted(r) ==
  /\ request[r].pc = "probing"
  /\ Runs(request[r].page) /\ request[r].page \notin wedged
  /\ context' = request[r].page /\ pendingContext' = None
  /\ maxSessionTimer' = Cap
  /\ starting' = FALSE
  /\ Finish(r)
  /\ UNCHANGED <<loop, procs, watched, activeClanId, browserGone, teardown,
                 idleTimer, attached, saved>>

\* Any await of start() throws: it tears down, and the route resumes the loop.
StartFails(r) ==
  /\ request[r].pc \in {"launching", "loading", "probing"}
  /\ UNCHANGED <<scanInProgress, procs, browserGone, saved>>
  /\ \/ /\ BeginTeardown
        /\ Await(r, "failing")
        /\ UNCHANGED <<running, starting>>
     \/ /\ tearingDown
        /\ starting' = FALSE /\ running' = TRUE
        /\ Finish(r)
        /\ UNCHANGED <<teardown, held, timers>>

StartFailed(r) ==
  /\ request[r].pc = "failing"
  /\ Release
  /\ starting' = FALSE /\ running' = TRUE
  /\ Finish(r)
  /\ UNCHANGED <<scanInProgress, held, browserGone, timers, saved>>

-----------------------------------------------------------------------------
(* POST /admin/login-session/save and /cancel                              *)

\* save() takes the clan of the session, and waits for its cookies to settle.
Save(r) ==
  /\ request[r] = NoRequest /\ context # None
  /\ Put(r, [pc |-> "settling", page |-> None,
             clan |-> IF activeClanId = 0 THEN 1 ELSE activeClanId])
  /\ UNCHANGED <<loop, procs, bridge, teardown, timers, saved>>

\* It then reads the cookies of the session there is.
SaveReads(r) ==
  /\ request[r].pc = "settling" /\ context # None
  /\ Put(r, [request[r] EXCEPT !.pc = "reading", !.page = context])
  /\ UNCHANGED <<loop, procs, bridge, teardown, timers, saved>>

\* Either way the save ends with a teardown and the loop resumed.
EndSession(r) ==
  /\ UNCHANGED <<scanInProgress, procs, starting, browserGone>>
  /\ \/ /\ BeginTeardown
        /\ Await(r, "ending")
        /\ UNCHANGED running
     \/ /\ tearingDown
        /\ running' = TRUE
        /\ Finish(r)
        /\ UNCHANGED <<teardown, held, timers>>

SaveWrites(r) ==
  /\ request[r].pc = "reading"
  /\ Runs(request[r].page) /\ request[r].page \notin wedged
  /\ saved' = [saved EXCEPT ![request[r].clan] = browser[request[r].page]]
  /\ EndSession(r)

\* No session left to read, or its browser does not answer in time.
SaveFails(r) ==
  /\ \/ request[r].pc = "settling" /\ context = None
     \/ request[r].pc = "reading"
  /\ EndSession(r)
  /\ UNCHANGED saved

\* The file cannot be written: the session is left as it is.
SaveThrows(r) ==
  /\ request[r].pc = "reading"
  /\ Runs(request[r].page) /\ request[r].page \notin wedged
  /\ running' = TRUE
  /\ Finish(r)
  /\ UNCHANGED <<scanInProgress, procs, bridge, teardown, timers, saved>>

\* Without a session there is nothing to tear down, and the loop is resumed.
Cancel(r) ==
  /\ request[r] = NoRequest
  /\ UNCHANGED saved
  /\ \/ context # None /\ EndSession(r)
     \/ /\ context = None
        /\ running' = TRUE
        /\ UNCHANGED <<scanInProgress, procs, bridge, teardown, timers,
                       request>>

Ended(r) ==
  /\ request[r].pc = "ending"
  /\ Release
  /\ running' = TRUE
  /\ Finish(r)
  /\ UNCHANGED <<scanInProgress, bridge, timers, saved>>

-----------------------------------------------------------------------------
(* The admin's socket and the timers.                                      *)

\* A client attaches: the idle timer is cleared, the stream is set up.
AttachSocket ==
  /\ context # None /\ ~starting /\ ~attached /\ clientCall = None
  /\ attached' = TRUE /\ idleTimer' = FALSE
  /\ clientCall' = context
  /\ UNCHANGED <<loop, browser, wedged, bridge, teardown, maxSessionTimer, request,
                 saved>>

RelayInput ==
  /\ attached /\ clientCall = None
  /\ clientCall' = context
  /\ UNCHANGED <<loop, browser, wedged, bridge, teardown, timers, request, saved>>

CallAnswered ==
  /\ Runs(clientCall) /\ clientCall \notin wedged
  /\ clientCall' = None
  /\ UNCHANGED <<loop, browser, wedged, bridge, teardown, timers, request, saved>>

\* The stream could not be set up, also when the session has ended meanwhile:
\* the idle timer is armed.
StreamFails ==
  /\ Runs(clientCall)
  /\ clientCall' = None
  /\ attached' = FALSE /\ idleTimer' = TRUE
  /\ UNCHANGED <<loop, browser, wedged, bridge, teardown, maxSessionTimer, request,
                 saved>>

SocketCloses ==
  /\ attached
  /\ attached' = FALSE /\ idleTimer' = TRUE
  /\ UNCHANGED <<loop, procs, bridge, teardown, maxSessionTimer,
                 request, saved>>

\* handleBrowserGone: reported once, and not while tearing down; while a start
\* is under way its own error path tears down.
HandleBrowserGone ==
  IF tearingDown \/ browserGone
    THEN UNCHANGED <<browserGone, teardown, held, timers>>
    ELSE /\ browserGone' = TRUE
         /\ IF starting THEN UNCHANGED <<teardown, held, timers>>
                        ELSE BeginTeardown

\* A call fails because its browser is gone, be it the current one or not.
CallLost ==
  /\ clientCall # None /\ ~Runs(clientCall)
  /\ clientCall' = None
  /\ HandleBrowserGone
  /\ UNCHANGED <<loop, browser, wedged, starting, request, saved>>

\* Both timers are minutes, a release is seconds.
MaxSessionTimerFires ==
  /\ maxSessionTimer /\ ~tearingDown
  /\ BeginTeardown
  /\ UNCHANGED <<loop, procs, starting, browserGone, request, saved>>

IdleTimerFires ==
  /\ idleTimer /\ ~tearingDown
  /\ BeginTeardown
  /\ UNCHANGED <<loop, procs, starting, browserGone, request, saved>>

-----------------------------------------------------------------------------
(* The browsers and the scan loop.                                         *)

\* A Chromium exits (out of memory); the death of the watched one is noticed.
BrowserDies(b) ==
  /\ Runs(b)
  /\ browser' = [browser EXCEPT ![b] = 0] /\ wedged' = wedged \ {b}
  /\ IF watched = b
       THEN HandleBrowserGone
       ELSE UNCHANGED <<browserGone, teardown, held, timers>>
  /\ UNCHANGED <<loop, clientCall, starting, request, saved>>

BrowserWedges(b) ==
  /\ Runs(b) /\ b \notin wedged
  /\ wedged' = wedged \cup {b}
  /\ UNCHANGED <<loop, browser, clientCall, bridge, teardown, timers, request, saved>>

\* A cycle of the running loop, or a manual scan during a pause.
ScanBegins ==
  /\ ~scanInProgress /\ scanInProgress' = TRUE
  /\ UNCHANGED <<running, procs, bridge, teardown, timers, request, saved>>

ScanEnds ==
  /\ scanInProgress /\ scanInProgress' = FALSE
  /\ UNCHANGED <<running, procs, bridge, teardown, timers, request, saved>>

-----------------------------------------------------------------------------
RequestStep(r) ==
  \/ StartCancelled(r) \/ StartReclaimed(r) \/ Launched(r) \/ Loaded(r)
  \/ Accepted(r) \/ StartFails(r) \/ StartFailed(r)
  \/ SaveReads(r) \/ SaveWrites(r) \/ SaveFails(r) \/ SaveThrows(r)
  \/ Ended(r)

Arrival(r) == Save(r) \/ Cancel(r) \/ \E c \in Clans : Start(r, c)

Timers == MaxSessionTimerFires \/ IdleTimerFires

Environment ==
  \/ AttachSocket \/ RelayInput \/ CallAnswered \/ StreamFails \/ CallLost
  \/ SocketCloses
  \/ \E b \in Browsers : BrowserDies(b) \/ BrowserWedges(b)
  \/ ScanBegins \/ ScanEnds

Next ==
  \/ \E r \in Requests : Arrival(r) \/ RequestStep(r)
  \/ Released \/ Timers \/ Environment

Spec == Init /\ [][Next]_vars

\* Every call to a browser carries a deadline, and timers go off.
FairSpec ==
  /\ Spec
  /\ \A r \in Requests : WF_vars(RequestStep(r))
  /\ WF_vars(Released) /\ WF_vars(MaxSessionTimerFires)

-----------------------------------------------------------------------------
(* Properties.                                                             *)

TypeOK ==
  /\ running \in BOOLEAN /\ scanInProgress \in BOOLEAN
  /\ browser \in [Browsers -> 0..NClans]
  /\ wedged \subseteq {b \in Browsers : browser[b] # 0}
  /\ starting \in BOOLEAN /\ browserGone \in BOOLEAN
  /\ {context, pendingContext, watched, closing} \subseteq
       Browsers \cup {None}
  /\ activeClanId \in 0..NClans
  /\ tearingDown \in BOOLEAN /\ (closing # None => tearingDown)
  /\ maxSessionTimer \in BOOLEAN /\ idleTimer \in BOOLEAN
  /\ attached \in BOOLEAN /\ clientCall \in Browsers \cup {None}
  /\ request \in [Requests -> RequestRecord]
  /\ saved \in [Clans -> 0..NClans]

\* The bridge is at rest: it holds nothing and is doing nothing.
AtRest ==
  /\ context = None /\ ~starting /\ ~tearingDown
  /\ \A r \in Requests : request[r] = NoRequest

\* However a login session ended or failed to start, the scan loop it paused
\* runs again once the bridge is at rest.
NeverLeftPaused == AtRest => running

\* The latch of teardown() is always cleared again, whatever the browser that
\* is being closed does: one dead browser does not end the feature.
LatchReleased == []<>(~tearingDown)

\* Every session ends, also one whose admin has gone and whose browser lives.
SessionEnds == []<>(context = None)
=============================================================================
