------------------------------ MODULE ScanLoop ------------------------------
(***************************************************************************)
(* The scan scheduler of TB Chest Counter (src/scheduler/loop.ts).         *)
(*                                                                         *)
(* One Node process runs every entry point of the ScanLoop on one event    *)
(* loop: code between two awaits is atomic, and everything else may run    *)
(* at an await.  A task is one activation of an asynchronous entry point   *)
(* (a scheduled cycle, a manual scan, "scan all", a calibration capture,   *)
(* "collect resources now"); its pc names the await it is suspended at.    *)
(* Synchronous entry points (pause, resume, the watchdog, the interval     *)
(* setting, the upload slot) are single steps of the environment.          *)
(*                                                                         *)
(* Clans are the ids 1..NClans, in rotation order.  A browser is a         *)
(* Chromium process; browser[b] is the clan whose profile and saved login  *)
(* it was launched with (the game account it plays), 0 once it is closed.  *)
(* Delays are abstract: an armed timer may fire at any time, except that   *)
(* one set for the end of maintenance (five minutes away at least) does    *)
(* not fire between two awaits that take seconds.                          *)
(***************************************************************************)
EXTENDS Integers, FiniteSets

CONSTANTS
  NClans,      \* number of active clans; clan ids are 1..NClans
  Ready,       \* clans with a saved login and a captured member list
  Tasks,       \* slots for concurrent activations (bounds the overlap)
  Browsers,    \* Chromium processes (bounds those referenced at once)
  NoPage,      \* "no browser captured"
  Entries,     \* what the environment does, a subset of AllEntries
  Calibrated,  \* isFullyCalibrated()
  MaxUploads   \* bound on concurrent resource uploads

Clans == 1..NClans

AllEntries == { "manual", "scanAll", "calibrate", "collect", "pause",
                "interval", "upload", "launchFails", "maintenance", "restart" }

ASSUME ConstantsAssumption ==
  /\ NClans \in Nat \ {0}
  /\ Ready \subseteq Clans
  /\ NoPage \notin Browsers
  /\ Browsers # {}
  /\ Entries \subseteq AllEntries
  /\ Calibrated \in BOOLEAN
  /\ MaxUploads \in Nat

VARIABLES
  started,             \* ScanLoop.start() has been called (index.ts)
  running,
  pauseWatchdog,       \* the 35 minute safety timer is armed
  timer,               \* "none"; "armed"; "deferred", armed for the end of a
                       \*   maintenance window; "fired", the field keeping
                       \*   the handle of a timer that has gone off
  hasNextScanAt,       \* nextScanAt # null
  skipNextScheduling,
  scanInProgress,      \* the single-flight lock
  clanId,              \* the clan new rows are stamped with
  session,             \* the browser the loop drives
  browser,             \* the Chromium processes
  activeUploads,       \* utils/resource-upload-lock.ts
  task,
  maintenanceBlock,    \* MAINTENANCE_BLOCKED_UNTIL, on disk
  rows,                \* database: every recorded row, as the clan it is
                       \*   stamped with and the account it was read from
  orphaned             \* database: clans with a PENDING scan_sessions row
                       \*   whose scan is over

pauseVars == <<started, running, pauseWatchdog>>
sched     == <<timer, hasNextScanAt, skipNextScheduling>>
drive     == <<clanId, session, browser>>
disk      == <<maintenanceBlock, rows, orphaned>>
vars      == <<pauseVars, sched, scanInProgress, drive, activeUploads, task,
               disk>>

-----------------------------------------------------------------------------
(* Control points. *)

Kinds == {"none", "cycle", "scanAll", "manual", "calibrate", "collect"}

\* Awaits inside runSingleScan, between taking the lock and releasing it.
AuthPcs  == {"auth", "reclosing", "relaunching", "auth2", "authFailed"}
SweepPcs == {"navigate", "gifts", "triumphal"}
ScanPcs  == AuthPcs \cup SweepPcs \cup {"cleanup", "captures", "finishing"}

Pcs == ScanPcs \cup {"idle", "closing", "launching", "calibrating",
                     "collecting", "releasing", "recycling"}

\* Awaits of seconds: closing, launching and parking a browser.
BriefPcs == {"closing", "launching", "finishing", "releasing", "recycling"}

\* i: rotation index; clan: the clan id captured by the call in progress;
\* page: the browser captured by it; row: the clan of the scan_sessions row
\* this scan has left PENDING so far; threw: the scan ended with an exception.
TaskRecord == [kind: Kinds, pc: Pcs, i: 0..NClans, clan: 0..NClans,
               page: Browsers \cup {NoPage}, row: 0..NClans, threw: BOOLEAN]

NoTask == [kind |-> "none", pc |-> "idle", i |-> 0, clan |-> 0,
           page |-> NoPage, row |-> 0, threw |-> FALSE]

\* Calibration and "collect now" take the lock before their first await;
\* a scan takes it in runSingleScan.
Holding(r) == r.kind \in {"calibrate", "collect"} \/ r.pc \in ScanPcs

Holds(t) == Holding(task[t])

Open(b) == browser[b] # 0

\* Chromium holds an exclusive lock on a profile directory.
ProfileFree(c) == \A b \in Browsers : browser[b] # c

\* Process slots a launch may use: neither running nor referenced.
FreeBrowsers == {b \in Browsers : /\ ~Open(b)
                                  /\ b # session
                                  /\ \A t \in Tasks : task[t].page # b}

Put(t, r) == task' = [task EXCEPT ![t] = r]

Await(t, at) == Put(t, [task[t] EXCEPT !.pc = at])

Finish(t) == Put(t, NoTask)

-----------------------------------------------------------------------------
(* A process that has just booted: index.ts fails the PENDING sessions of  *)
(* the previous process, launches the browser of clan 1 and serves HTTP    *)
(* before it calls start().                                                *)

Init ==
  /\ started = FALSE /\ running = FALSE /\ pauseWatchdog = FALSE
  /\ timer = "none" /\ hasNextScanAt = FALSE /\ skipNextScheduling = FALSE
  /\ scanInProgress = FALSE
  /\ clanId = 1
  /\ session \in Browsers
  /\ browser = [b \in Browsers |-> IF b = session THEN 1 ELSE 0]
  /\ activeUploads = 0
  /\ task = [t \in Tasks |-> NoTask]
  /\ maintenanceBlock \in BOOLEAN
  /\ rows = {}
  /\ orphaned = {}

\* A crash, an unhandled rejection, the admin restart route or a redeploy:
\* the container restarts, and only the data volume survives.
Reboot ==
  /\ started' = FALSE /\ running' = FALSE /\ pauseWatchdog' = FALSE
  /\ timer' = "none" /\ hasNextScanAt' = FALSE /\ skipNextScheduling' = FALSE
  /\ scanInProgress' = FALSE
  /\ clanId' = 1
  /\ session' \in Browsers
  /\ browser' = [b \in Browsers |-> IF b = session' THEN 1 ELSE 0]
  /\ activeUploads' = 0
  /\ task' = [t \in Tasks |-> NoTask]
  /\ orphaned' = {}
  /\ UNCHANGED <<maintenanceBlock, rows>>

-----------------------------------------------------------------------------
(* Fragments shared by the handlers.  A handler first fixes running',      *)
(* session' and browser'; the fragments read those.                        *)

\* Fault: the guards ask for uploads only.
BusyUploading == activeUploads > 0

Busy == scanInProgress \/ activeUploads > 0

ScheduleAs(tm) == timer' = tm /\ hasNextScanAt' = TRUE

Schedule == ScheduleAs("armed")

Pending == timer \in {"armed", "deferred"}

\* Fault: a repeating timer in place of one that goes off once.
MayFireRepeatedly == timer # "none"

\* A deferred timer that goes off while a sweep of minutes holds the lock is
\* armed again for one interval (RunCycle), and may then fire anywhere.
MayFire ==
  \/ timer = "armed"
  \/ timer = "deferred" /\ \A t \in Tasks : task[t].pc \notin BriefPcs

ScheduleIfRunning ==
  IF running' THEN Schedule ELSE UNCHANGED <<timer, hasNextScanAt>>

\* The tail of a manual scan and of a cycle.
EndTurn(t) == ScheduleIfRunning /\ Finish(t)

CloseBrowser(b) == browser' = [browser EXCEPT ![b] = 0]

\* runSingleScan takes the lock and calls performAuthCheck with the clan and
\* the session of this instant.
BeginScan(t, r) ==
  /\ scanInProgress' = TRUE
  /\ Put(t, [r EXCEPT !.pc = "auth", !.clan = clanId', !.page = session',
                      !.row = 0, !.threw = FALSE])

\* Fault: only the success path releases the lock.
ReleaseLockOnSuccess(t) == scanInProgress' = task[t].threw

ReleaseLock(t) == scanInProgress' = FALSE

\* Fault: the rotation starts at the clan after the one it is at.
ClansLeftOffByOne(i) == {j \in Ready : j > i}

ClansLeft(i) == {j \in Ready : j >= i}

\* Fault: the browser is switched, the clan id is not.
SetActiveClanForgotten(c) == clanId' = clanId

SetActiveClan(c) == clanId' = c

\* A cycle of kind k at clan j (0: past the last), about to close the browser.
Turn(k, at, j) == [kind |-> k, pc |-> at, i |-> j, clan |-> j,
                   page |-> session', row |-> 0, threw |-> FALSE]

\* The head of the per-clan loop in runCycle: leave the loop when paused or
\* when no clan is left, skip the clans that are not ready, and switch the
\* browser to the next one.  (Closing a browser that is already closed takes
\* no time in the code; here others may run meanwhile all the same.)
NextClan(t, k, i) ==
  \/ \E j \in ClansLeft(i) :
        /\ running'
        /\ \A other \in ClansLeft(i) : j <= other
        /\ SetActiveClan(j)
        /\ Put(t, Turn(k, "closing", j))
  \/ /\ ~running' \/ ClansLeft(i) = {}
     /\ clanId' = clanId
     /\ Put(t, Turn(k, "releasing", 0))

\* runCycle, from its guards to its first await.  tm and next are what the
\* caller has left in timer and nextScanAt.
RunCycle(t, k, tm, next) ==
  \/ /\ Busy \/ ~Calibrated
     /\ Schedule
     /\ UNCHANGED <<scanInProgress, clanId, task>>
  \/ /\ ~Busy /\ Calibrated
     /\ timer' = tm /\ hasNextScanAt' = next
     /\ IF NClans = 1 /\ clanId = 1 /\ 1 \in Ready /\ Open(session) /\ running'
          THEN /\ clanId' = clanId
               /\ BeginScan(t, [NoTask EXCEPT !.kind = k, !.i = 1])
          ELSE /\ UNCHANGED scanInProgress
               /\ NextClan(t, k, 1)

\* Where a task that needs a live page goes: straight on when it has one,
\* through closeBrowser and launchForClan when it has not.
EnsureLive(t, r, c) ==
  Put(t, [r EXCEPT !.pc = "closing", !.clan = c, !.page = session])

\* Fault: a failure path returns without updating the session row.
CloseRowForgotten(r) == r

\* updateSession is scoped by the clan id of this instant: it misses the row
\* of a scan that was created under another clan.
CloseRow(r) == [r EXCEPT !.row = IF @ = clanId THEN 0 ELSE @]

-----------------------------------------------------------------------------
(* Entry points.                                                           *)

\* start(): wait out a maintenance block or the rest of the interval, or run
\* the first cycle at once.
Start(t) ==
  /\ ~started /\ task[t] = NoTask
  /\ started' = TRUE /\ running' = TRUE
  /\ UNCHANGED <<pauseWatchdog, skipNextScheduling, session, browser,
                 activeUploads, rows, orphaned>>
  /\ \/ /\ \/ Schedule /\ maintenanceBlock' = FALSE
           \/ /\ maintenanceBlock /\ UNCHANGED maintenanceBlock
              /\ ScheduleAs("deferred")
        /\ UNCHANGED <<scanInProgress, clanId, task>>
     \/ /\ maintenanceBlock' = FALSE
        /\ RunCycle(t, "cycle", timer, TRUE)

TimerFires(t) ==
  /\ MayFire /\ task[t] = NoTask
  /\ UNCHANGED <<pauseVars, skipNextScheduling, session, browser,
                 activeUploads, disk>>
  /\ \/ /\ ~running
        /\ timer' = "fired"
        /\ UNCHANGED <<hasNextScanAt, scanInProgress, clanId, task>>
     \/ /\ running
        /\ RunCycle(t, "cycle", "fired", hasNextScanAt)

\* triggerManualScan: the pending cycle is cancelled, the browser is switched
\* to the target clan.  The lock is not taken until the switch is over.
ManualScan(t, c) ==
  /\ "manual" \in Entries /\ Calibrated
  /\ task[t] = NoTask /\ ~Busy
  /\ timer' = "none"
  /\ hasNextScanAt' = (hasNextScanAt /\ timer = "none")
  /\ SetActiveClan(c)
  /\ UNCHANGED <<pauseVars, skipNextScheduling, session, browser,
                 activeUploads, disk>>
  /\ LET r == [NoTask EXCEPT !.kind = "manual"]
     IN  IF c = clanId /\ Open(session)
           THEN BeginScan(t, r)
           ELSE EnsureLive(t, r, c) /\ UNCHANGED scanInProgress

\* triggerManualScanAllClans: the pending cycle is cancelled even when the
\* loop turns out to be paused.
ScanAll(t) ==
  /\ "scanAll" \in Entries /\ Calibrated
  /\ task[t] = NoTask /\ ~scanInProgress
  /\ UNCHANGED <<pauseVars, skipNextScheduling, session, browser,
                 activeUploads, disk>>
  /\ LET next == hasNextScanAt /\ timer = "none"
     IN  \/ /\ ~running
            /\ timer' = "none" /\ hasNextScanAt' = next
            /\ UNCHANGED <<scanInProgress, clanId, task>>
         \/ /\ running
            /\ RunCycle(t, "scanAll", "none", next)

\* captureCalibrationScreenshot: takes the lock, not the upload slot.
Calibrate(t) ==
  /\ "calibrate" \in Entries
  /\ task[t] = NoTask /\ ~scanInProgress
  /\ scanInProgress' = TRUE
  /\ UNCHANGED <<pauseVars, sched, drive, activeUploads, disk>>
  /\ LET r == [NoTask EXCEPT !.kind = "calibrate"]
     IN  IF Open(session)
           THEN Put(t, [r EXCEPT !.pc = "calibrating", !.page = session])
           ELSE EnsureLive(t, r, clanId)

\* collectResourcesNow
Collect(t, c) ==
  /\ "collect" \in Entries
  /\ task[t] = NoTask /\ ~Busy
  /\ scanInProgress' = TRUE
  /\ SetActiveClan(c)
  /\ UNCHANGED <<pauseVars, sched, session, browser, activeUploads, disk>>
  /\ LET r == [NoTask EXCEPT !.kind = "collect"]
     IN  IF c = clanId /\ Open(session)
           THEN Put(t, [r EXCEPT !.pc = "collecting", !.page = session])
           ELSE EnsureLive(t, r, c)

-----------------------------------------------------------------------------
(* Browser switches.                                                       *)

CloseDone(t) ==
  /\ task[t].pc \in {"closing", "reclosing", "authFailed"}
  /\ CloseBrowser(task[t].page)
  /\ Await(t, CASE task[t].pc = "closing"    -> "launching"
                [] task[t].pc = "reclosing"  -> "relaunching"
                [] task[t].pc = "authFailed" -> "finishing")
  /\ UNCHANGED <<pauseVars, sched, scanInProgress, clanId, session,
                 activeUploads, disk>>

\* runSingleScan finds the lock taken or an upload running and reports a
\* failure without a scan: a cycle goes on to the next clan, a manual scan
\* arms the next cycle and ends.
ScanRefused(t) ==
  /\ Busy
  /\ UNCHANGED scanInProgress
  /\ \/ /\ task[t].kind \in {"cycle", "scanAll"}
        /\ UNCHANGED <<timer, hasNextScanAt>>
        /\ NextClan(t, task[t].kind, task[t].i + 1)
     \/ /\ task[t].kind = "manual"
        /\ EndTurn(t)
        /\ UNCHANGED clanId

\* The launched browser becomes the session, and the task goes on with it.
LaunchOk(t) ==
  /\ task[t].pc = "launching" /\ ProfileFree(task[t].clan)
  /\ session' \in FreeBrowsers
  /\ browser' = [browser EXCEPT ![session'] = task[t].clan]
  /\ UNCHANGED <<pauseVars, skipNextScheduling, activeUploads, disk>>
  /\ \/ /\ task[t].kind \in {"calibrate", "collect"}
        /\ Put(t, [task[t] EXCEPT !.page = session',
                     !.pc = IF task[t].kind = "calibrate"
                              THEN "calibrating" ELSE "collecting"])
        /\ UNCHANGED <<timer, hasNextScanAt, scanInProgress, clanId>>
     \/ /\ task[t].kind \in {"cycle", "scanAll", "manual"} /\ ~Busy
        /\ UNCHANGED <<timer, hasNextScanAt, clanId>>
        /\ BeginScan(t, task[t])
     \/ /\ task[t].kind \in {"cycle", "scanAll", "manual"}
        /\ ScanRefused(t)

\* relaunchBrowserSession: the session field is only assigned when
\* performAuthCheck returns.
RelaunchOk(t) ==
  /\ task[t].pc = "relaunching" /\ ProfileFree(task[t].clan)
  /\ \E b \in FreeBrowsers :
       /\ browser' = [browser EXCEPT ![b] = task[t].clan]
       /\ Put(t, [task[t] EXCEPT !.pc = "auth2", !.page = b])
  /\ UNCHANGED <<pauseVars, sched, scanInProgress, clanId, session,
                 activeUploads, disk>>

\* A launch throws: the profile is in use, or Chromium does not start.  In a
\* cycle nothing catches it; the routes swallow it for the other callers.
LaunchFails(t) ==
  /\ task[t].pc \in {"launching", "relaunching"}
  /\ ~ProfileFree(task[t].clan) \/ "launchFails" \in Entries
  /\ \/ /\ task[t].pc = "launching" /\ task[t].kind = "cycle"
        /\ Reboot
     \/ /\ task[t].pc = "launching"
        /\ task[t].kind \in {"scanAll", "manual", "calibrate"}
        /\ IF task[t].kind = "calibrate" THEN ReleaseLock(t)
                                         ELSE UNCHANGED scanInProgress
        /\ Finish(t)
        /\ UNCHANGED <<pauseVars, sched, drive, activeUploads, disk>>
     \/ /\ task[t].pc = "relaunching" \/ task[t].kind = "collect"
        /\ Put(t, [task[t] EXCEPT !.pc = "finishing", !.threw = TRUE])
        /\ UNCHANGED <<pauseVars, sched, scanInProgress, drive,
                       activeUploads, disk>>

-----------------------------------------------------------------------------
(* One scan: executeScan and the captures after it.                        *)

\* performAuthCheck returns ok, the members are known, and the session row is
\* created for the clan of this instant.
AuthOk(t) ==
  /\ task[t].pc \in {"auth", "auth2"} /\ Open(task[t].page)
  /\ session' = task[t].page
  /\ Put(t, [task[t] EXCEPT !.pc = "navigate", !.row = clanId])
  /\ UNCHANGED <<pauseVars, sched, scanInProgress, clanId, browser,
                 activeUploads, disk>>

\* The saved login is not usable, or the browser crashed twice: the session is
\* closed until the clan is signed in again.
AuthRejected(t) ==
  /\ task[t].pc \in {"auth", "auth2"}
  /\ session' = task[t].page
  /\ Await(t, "authFailed")
  /\ UNCHANGED <<pauseVars, sched, scanInProgress, clanId, browser,
                 activeUploads, disk>>

\* The browser died during the first attempt: close it and try once more.
AuthCrash(t) ==
  /\ task[t].pc = "auth"
  /\ Await(t, "reclosing")
  /\ UNCHANGED <<pauseVars, sched, scanInProgress, drive, activeUploads, disk>>

\* The Gifts tab is open: the sweep starts, for the clan of this instant.
OnGiftsTab(t) ==
  /\ task[t].pc = "navigate" /\ Open(task[t].page)
  /\ Put(t, [task[t] EXCEPT !.pc = "gifts", !.clan = clanId])
  /\ UNCHANGED <<pauseVars, sched, scanInProgress, drive, activeUploads, disk>>

\* A sweep or a capture records what it reads on the page it holds.
RecordRow(t) ==
  /\ task[t].pc \in {"gifts", "triumphal", "captures"} /\ Open(task[t].page)
  /\ rows' = rows \cup {[clan |-> task[t].clan,
                         account |-> browser[task[t].page]]}
  /\ UNCHANGED <<pauseVars, sched, scanInProgress, drive, activeUploads, task,
                 maintenanceBlock, orphaned>>

\* The Gifts tab was not reached, or the sweep erred with no row to keep: the
\* session is FAILED and executeScan returns.
ScanFailed(t) ==
  /\ task[t].pc \in {"navigate", "gifts"}
  /\ Put(t, [CloseRow(task[t]) EXCEPT !.pc = "finishing"])
  /\ UNCHANGED <<pauseVars, sched, scanInProgress, drive, activeUploads, disk>>

TriumphalSweep(t) ==
  /\ task[t].pc = "gifts"
  /\ Put(t, [task[t] EXCEPT !.pc = "triumphal", !.clan = clanId])
  /\ UNCHANGED <<pauseVars, sched, scanInProgress, drive, activeUploads, disk>>

\* finalizeScanSuccess, up to the screenshot clean-up it awaits
ScanSucceeded(t) ==
  /\ task[t].pc \in {"gifts", "triumphal"}
  /\ Put(t, [CloseRow(task[t]) EXCEPT !.pc = "cleanup"])
  /\ maintenanceBlock' = FALSE
  /\ UNCHANGED <<pauseVars, sched, scanInProgress, drive, activeUploads, rows,
                 orphaned>>

\* Fault: nobody asks whether the loop is paused.
ClaimsWhilePaused(known) == known

Claims(known) == known /\ running

\* Fault: the scheduling is claimed and nothing is scheduled.
ClaimSchedulingOnly == skipNextScheduling' = TRUE
                       /\ UNCHANGED <<timer, hasNextScanAt>>

ClaimScheduling == skipNextScheduling' = TRUE /\ ScheduleAs("deferred")

\* finalizeScanFailure on a maintenance screen that says how long it lasts
\* (known) or does not: the next cycle is set for its end.
MaintenanceAbort(t, known) ==
  /\ "maintenance" \in Entries
  /\ task[t].pc \in SweepPcs
  /\ Put(t, [CloseRow(task[t]) EXCEPT !.pc = "finishing"])
  /\ maintenanceBlock' = (maintenanceBlock \/ known)
  /\ IF Claims(known) THEN ClaimScheduling ELSE UNCHANGED sched
  /\ UNCHANGED <<pauseVars, scanInProgress, drive, activeUploads, rows,
                 orphaned>>

\* finalizeScanFailure on a kicked session or any other error.  An error that
\* left no rows behind is thrown on; in the triumphal sweep only a kick or
\* maintenance gets this far.
ScanAborted(t, kicked) ==
  /\ task[t].pc \in SweepPcs
  /\ task[t].pc = "triumphal" => kicked
  /\ \E rowsExist \in BOOLEAN :
       Put(t, [CloseRow(task[t]) EXCEPT !.pc = "finishing",
                                        !.threw = ~kicked /\ ~rowsExist])
  /\ UNCHANGED <<pauseVars, sched, scanInProgress, drive, activeUploads, disk>>

\* captureMightBestEffort and captureResourcesBestEffort each take the clan
\* and the session of the instant they start.
BeginCapture(t) ==
  /\ task[t].pc \in {"cleanup", "captures"} /\ task[t].kind # "collect"
  /\ Open(session)
  /\ Put(t, [task[t] EXCEPT !.pc = "captures", !.clan = clanId,
                            !.page = session])
  /\ UNCHANGED <<pauseVars, sched, scanInProgress, drive, activeUploads, disk>>

CapturesOver(t) ==
  /\ task[t].pc \in {"cleanup", "captures"}
  /\ Await(t, "finishing")
  /\ UNCHANGED <<pauseVars, sched, scanInProgress, drive, activeUploads, disk>>

\* The screenshot clean-up, or the announcement after it, throws: the scan has
\* been recorded as COMPLETED, and is reported as failed.
CleanupThrows(t) ==
  /\ task[t].pc = "cleanup"
  /\ Put(t, [task[t] EXCEPT !.pc = "finishing", !.threw = TRUE])
  /\ UNCHANGED <<pauseVars, sched, scanInProgress, drive, activeUploads, disk>>

\* "Collect now" found the clan signed in: the capture starts.
CollectLoggedIn(t) ==
  /\ task[t].pc = "collecting" /\ Open(task[t].page)
  /\ Put(t, [task[t] EXCEPT !.pc = "captures", !.clan = clanId,
                            !.page = session])
  /\ UNCHANGED <<pauseVars, sched, scanInProgress, drive, activeUploads, disk>>

CollectThrows(t) ==
  /\ task[t].pc = "collecting"
  /\ Await(t, "finishing")
  /\ UNCHANGED <<pauseVars, sched, scanInProgress, drive, activeUploads, disk>>

CalibrateDone(t) ==
  /\ task[t].pc = "calibrating"
  /\ ReleaseLock(t)
  /\ Finish(t)
  /\ UNCHANGED <<pauseVars, sched, drive, activeUploads, disk>>

\* finishScan releases the lock, and the caller of runSingleScan goes on
\* without an await: a cycle to the next clan whatever became of this one, a
\* manual scan to its scheduling unless the scan threw.
FinishScan(t) ==
  /\ task[t].pc = "finishing"
  /\ ReleaseLock(t)
  /\ orphaned' = orphaned \cup ({task[t].row} \ {0})
  /\ UNCHANGED <<pauseVars, skipNextScheduling, session, browser,
                 activeUploads, maintenanceBlock, rows>>
  /\ \/ /\ task[t].kind \in {"cycle", "scanAll"}
        /\ UNCHANGED <<timer, hasNextScanAt>>
        /\ NextClan(t, task[t].kind, task[t].i + 1)
     \/ /\ task[t].kind \in {"manual", "collect"}
        /\ IF task[t].kind = "manual" /\ ~task[t].threw
             THEN ScheduleIfRunning
             ELSE UNCHANGED <<timer, hasNextScanAt>>
        /\ UNCHANGED clanId
        /\ Finish(t)

-----------------------------------------------------------------------------
(* The end of a cycle.                                                     *)

\* releaseBrowserBetweenCycles has closed the browser.  Unless a special case
\* has scheduled the next cycle, the OCR models may be due for a recycle,
\* which an upload puts off, and the next cycle is scheduled.
CycleReleased(t) ==
  /\ task[t].pc = "releasing"
  /\ CloseBrowser(task[t].page)
  /\ skipNextScheduling' = FALSE
  /\ UNCHANGED <<pauseVars, scanInProgress, clanId, session, activeUploads,
                 disk>>
  /\ \/ /\ skipNextScheduling
        /\ UNCHANGED <<timer, hasNextScanAt>>
        /\ Finish(t)
     \/ /\ ~skipNextScheduling /\ activeUploads = 0
        /\ UNCHANGED <<timer, hasNextScanAt>>
        /\ Await(t, "recycling")
     \/ /\ ~skipNextScheduling
        /\ EndTurn(t)

CycleRecycled(t) ==
  /\ task[t].pc = "recycling"
  /\ UNCHANGED <<pauseVars, skipNextScheduling, scanInProgress, drive,
                 activeUploads, disk>>
  /\ EndTurn(t)

-----------------------------------------------------------------------------
(* The environment: the login routes, the watchdog, the settings, uploads. *)

\* pause() refuses while a scan runs.  nextScanAt is kept for resume().
Pause ==
  /\ "pause" \in Entries /\ ~scanInProgress
  /\ timer' = "none"
  /\ running' = FALSE
  /\ pauseWatchdog' = TRUE
  /\ UNCHANGED <<started, hasNextScanAt, skipNextScheduling, scanInProgress,
                 drive, activeUploads, task, disk>>

DoResume ==
  /\ pauseWatchdog' = FALSE
  /\ running' = TRUE
  /\ IF running THEN UNCHANGED <<timer, hasNextScanAt>> ELSE Schedule
  /\ UNCHANGED <<started, skipNextScheduling, scanInProgress, drive,
                 activeUploads, task, disk>>

Resume == "pause" \in Entries /\ DoResume

\* The watchdog stands down while a scan runs, and is not armed again.
WatchdogFires ==
  /\ pauseWatchdog
  /\ \/ /\ running \/ scanInProgress
        /\ pauseWatchdog' = FALSE
        /\ UNCHANGED <<started, running, sched, scanInProgress, drive,
                       activeUploads, task, disk>>
     \/ /\ ~running /\ ~scanInProgress
        /\ DoResume

\* setScanIntervalMs re-arms a pending cycle; a timer that has gone off still
\* looks pending.
SetScanInterval ==
  /\ "interval" \in Entries
  /\ running /\ ~scanInProgress /\ hasNextScanAt /\ timer # "none"
  /\ Schedule
  /\ UNCHANGED <<pauseVars, skipNextScheduling, scanInProgress, drive,
                 activeUploads, task, disk>>

\* Fault: the upload route does not look at the scan lock.
UploadBeginsUnchecked ==
  /\ "upload" \in Entries /\ activeUploads < MaxUploads
  /\ activeUploads' = activeUploads + 1
  /\ UNCHANGED <<pauseVars, sched, scanInProgress, drive, task, disk>>

UploadBegins ==
  /\ "upload" \in Entries /\ activeUploads < MaxUploads
  /\ ~scanInProgress
  /\ activeUploads' = activeUploads + 1
  /\ UNCHANGED <<pauseVars, sched, scanInProgress, drive, task, disk>>

\* Fault: the slot is released in the handler and again on its way out.
UploadEndsTwice ==
  /\ activeUploads > 0
  /\ activeUploads' = activeUploads - 2
  /\ UNCHANGED <<pauseVars, sched, scanInProgress, drive, task, disk>>

UploadEnds ==
  /\ activeUploads > 0
  /\ activeUploads' = activeUploads - 1
  /\ UNCHANGED <<pauseVars, sched, scanInProgress, drive, task, disk>>

Restart == "restart" \in Entries /\ Reboot

-----------------------------------------------------------------------------
ScanStep(t) ==
  \/ AuthOk(t) \/ AuthRejected(t) \/ AuthCrash(t) \/ OnGiftsTab(t)
  \/ RecordRow(t) \/ ScanFailed(t) \/ TriumphalSweep(t) \/ ScanSucceeded(t)
  \/ \E known \in BOOLEAN : MaintenanceAbort(t, known)
  \/ \E kicked \in BOOLEAN : ScanAborted(t, kicked)
  \/ BeginCapture(t) \/ CapturesOver(t) \/ CleanupThrows(t)
  \/ CollectLoggedIn(t) \/ CollectThrows(t) \/ CalibrateDone(t)

TaskStep(t) ==
  \/ CloseDone(t) \/ LaunchOk(t) \/ RelaunchOk(t) \/ LaunchFails(t)
  \/ ScanStep(t) \/ FinishScan(t) \/ CycleReleased(t) \/ CycleRecycled(t)

EntryStep(t) ==
  \/ Start(t) \/ TimerFires(t) \/ ScanAll(t) \/ Calibrate(t)
  \/ \E c \in Clans : ManualScan(t, c) \/ Collect(t, c)

Environment ==
  \/ Pause \/ Resume \/ WatchdogFires \/ SetScanInterval
  \/ UploadBegins \/ UploadEnds \/ Restart

Next == (\E t \in Tasks : EntryStep(t) \/ TaskStep(t)) \/ Environment

Spec == Init /\ [][Next]_vars

TaskFairness(t) ==
  /\ WF_vars(TaskStep(t))
  /\ WF_vars(Start(t)) /\ WF_vars(TimerFires(t))
  /\ WF_vars(CycleReleased(t)) /\ WF_vars(FinishScan(t))

\* Timers go off, and every await of the scan path ends: Playwright calls,
\* captures and closes all carry timeouts.
FairSpec == Spec /\ \A t \in Tasks : TaskFairness(t)

-----------------------------------------------------------------------------
(* Properties.                                                             *)

TypeOK ==
  /\ started \in BOOLEAN /\ running \in BOOLEAN /\ pauseWatchdog \in BOOLEAN
  /\ timer \in {"none", "armed", "deferred", "fired"}
  /\ hasNextScanAt \in BOOLEAN /\ skipNextScheduling \in BOOLEAN
  /\ scanInProgress \in BOOLEAN
  /\ clanId \in Clans /\ session \in Browsers
  /\ browser \in [Browsers -> 0..NClans]
  /\ activeUploads \in 0..MaxUploads
  /\ task \in [Tasks -> TaskRecord]
  /\ maintenanceBlock \in BOOLEAN
  /\ rows \subseteq [clan: Clans, account: Clans]
  /\ orphaned \subseteq Clans

Scanning(t) == task[t].pc \in ScanPcs

\* Single flight: whatever mix of timer, routes and captures is suspended at
\* once, one activation at most is inside the part that drives the page, and
\* the flag says so (runSingleScan, captureCalibrationScreenshot,
\* collectResourcesNow, finishScan).
SingleFlight ==
  /\ \A t, u \in Tasks : Holds(t) /\ Holds(u) => t = u
  /\ scanInProgress <=> \E t \in Tasks : Holds(t)

\* No scan or resource capture is driving the page while a resource upload
\* holds a slot (utils/resource-upload-lock.ts).
UploadExclusion ==
  activeUploads > 0 => \A t \in Tasks : ~Scanning(t)

\* A paused loop has no cycle coming: whatever finishes or is reconfigured
\* during the pause, nothing re-arms the timer behind it.
PausedSchedulesNothing == started /\ ~running => ~Pending

\* A row is stamped with the clan whose account it was read from.
RowsMatchAccount == \A r \in rows : r.clan = r.account

\* At most one scanner Chromium runs.
OneBrowser == \A a, b \in Browsers : Open(a) /\ Open(b) => a = b

\* A running loop that is doing nothing has its next cycle pending.
NeverStranded ==
  started /\ running /\ (\A t \in Tasks : task[t] = NoTask)
    => Pending

\* No finished scan leaves its scan_sessions row PENDING.
NoOrphanedSession == orphaned = {}

\* No step of another activation closes the page the lock holder is working
\* on.
PageKept ==
  [][\A t \in Tasks :
       Holds(t) /\ task'[t] = task[t] /\ task[t].page # NoPage
         => (Open(task[t].page) => browser'[task[t].page] # 0)]_vars

\* Every clan that can be scanned is scanned again and again, whatever becomes of
\* the scans before its turn: rejected, crashed, failed, aborted, or without a
\* browser to relaunch.  Two things do starve clans and are excluded: uploads that
\* keep landing on their turn, and a process that never stays up, as when the launch
\* for an earlier clan always fails (LaunchFails reboots, and clan 1 is first again).
EveryClanIsScanned ==
  <>[](started /\ activeUploads = 0) =>
    \A c \in Ready :
      []<>(\E t \in Tasks : task[t].pc = "auth" /\ task[t].clan = c)
=============================================================================
