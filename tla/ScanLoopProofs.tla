------------------------- MODULE ScanLoopProofs -------------------------
(***************************************************************************)
(* Proofs about ScanLoop, for every number of clans, tasks and browsers.   *)
(*                                                                         *)
(* TypeOK is not inductive: an activation that records rows needs a clan   *)
(* and a browser, which it captured at an earlier await (WellFormed).      *)
(* Single flight is not inductive either: that a calibration or a          *)
(* collection holds the lock follows from what it is, not from the await   *)
(* it is at, so the awaits each kind can be at come into the invariant     *)
(* (OnTrack); and no upload starts beside a collection only because the    *)
(* lock is taken throughout (NoOverlap).                                   *)
(*                                                                         *)
(* That a cycle is always pending rests on who has claimed the scheduling  *)
(* (PromiseInv), and what holds of the rotation left to itself on what its *)
(* one activation has captured (RotationInv).                              *)
(***************************************************************************)
EXTENDS ScanLoop, TLAPS

-----------------------------------------------------------------------------
(* Types, in three parts: the flags, the other variables, the tasks.       *)

FlagsTyped ==
  /\ started \in BOOLEAN /\ running \in BOOLEAN /\ pauseWatchdog \in BOOLEAN
  /\ hasNextScanAt \in BOOLEAN /\ skipNextScheduling \in BOOLEAN
  /\ scanInProgress \in BOOLEAN
  /\ maintenanceBlock \in BOOLEAN

DataTyped ==
  /\ timer \in {"none", "armed", "deferred", "fired"}
  /\ clanId \in Clans /\ session \in Browsers
  /\ browser \in [Browsers -> 0..NClans]
  /\ activeUploads \in 0..MaxUploads
  /\ rows \subseteq [clan: Clans, account: Clans]
  /\ orphaned \subseteq Clans

\* The awaits at which a task records rows.
RecordingPcs == {"gifts", "triumphal", "captures"}

\* A suspended task has captured a browser, and one that records rows a clan.
WellFormed(r) ==
  /\ r \in TaskRecord
  /\ r.pc # "idle" => r.page \in Browsers
  /\ r.pc \in RecordingPcs => r.clan \in Clans

TasksTyped ==
  task \in [Tasks -> TaskRecord] /\ \A t \in Tasks : WellFormed(task[t])

LEMMA PutTyped ==
  ASSUME TasksTyped, NEW t \in Tasks, NEW r, WellFormed(r), Put(t, r)
  PROVE  TasksTyped'
BY DEF TasksTyped, Put, WellFormed

LEMMA NoTaskWellFormed == WellFormed(NoTask)
BY ConstantsAssumption
   DEF WellFormed, RecordingPcs, TaskRecord, NoTask, Kinds, Pcs, Clans

LEMMA FinishTyped ==
  ASSUME TasksTyped, NEW t \in Tasks, Finish(t)
  PROVE  TasksTyped'
BY PutTyped, NoTaskWellFormed DEF Finish

LEMMA MoveTyped ==
  ASSUME NEW r, WellFormed(r), r.page \in Browsers, NEW at \in Pcs,
         at \in RecordingPcs => r.clan \in Clans
  PROVE  WellFormed([r EXCEPT !.pc = at])
BY DEF WellFormed, TaskRecord

LEMMA AwaitTyped ==
  ASSUME TasksTyped, NEW t \in Tasks, task[t].pc # "idle",
         NEW at \in Pcs \ RecordingPcs, Await(t, at)
  PROVE  TasksTyped'
<1> WellFormed(task[t]) /\ task[t].page \in Browsers
  BY DEF TasksTyped, WellFormed
<1> WellFormed([task[t] EXCEPT !.pc = at])
  BY MoveTyped
<1> QED
  BY PutTyped DEF Await

LEMMA SwitchTyped ==
  ASSUME NEW r, WellFormed(r), NEW at \in Pcs, NEW c \in Clans,
         NEW b \in Browsers
  PROVE  WellFormed([r EXCEPT !.pc = at, !.clan = c, !.page = b])
<1> c \in 0..NClans
  BY ConstantsAssumption DEF Clans
<1> QED
  BY DEF WellFormed, TaskRecord

LEMMA BeginScanTyped ==
  ASSUME session' \in Browsers, clanId' \in Clans,
         TasksTyped, NEW t \in Tasks, NEW r, WellFormed(r), BeginScan(t, r)
  PROVE  TasksTyped'
<1> DEFINE q == [r EXCEPT !.pc = "auth", !.clan = clanId', !.page = session']
<1>1. WellFormed(q)
  BY SwitchTyped DEF Pcs, ScanPcs, AuthPcs
<1>2. 0 \in 0..NClans
  BY ConstantsAssumption
<1>3. WellFormed([q EXCEPT !.row = 0, !.threw = FALSE])
  BY <1>1, <1>2, Zenon DEF WellFormed, TaskRecord
<1> QED
  BY <1>3, PutTyped DEF BeginScan

LEMMA TurnTyped ==
  ASSUME session' \in Browsers, NEW k \in Kinds, NEW j \in 0..NClans,
         NEW at \in {"closing", "releasing"}
  PROVE  WellFormed(Turn(k, at, j))
<1>1. 0 \in 0..NClans
  BY ConstantsAssumption
<1>2. at \in Pcs /\ at \notin RecordingPcs
  BY DEF Pcs, RecordingPcs
<1>3. Turn(k, at, j) \in TaskRecord
  BY <1>1, <1>2 DEF Turn, TaskRecord
<1> QED
  BY <1>2, <1>3 DEF WellFormed, Turn

LEMMA NextClanTyped ==
  ASSUME session' \in Browsers, TasksTyped, NEW t \in Tasks, NEW k \in Kinds, NEW i \in Nat,
         NextClan(t, k, i)
  PROVE  TasksTyped'
<1>1. PICK at \in {"closing", "releasing"}, j \in 0..NClans :
        Put(t, Turn(k, at, j))
  <2>1. CASE \E j \in ClansLeft(i) : Put(t, Turn(k, "closing", j))
    BY <2>1, ConstantsAssumption DEF ClansLeft, Clans
  <2>2. CASE Put(t, Turn(k, "releasing", 0))
    BY <2>2, ConstantsAssumption
  <2> QED
    BY <2>1, <2>2 DEF NextClan
<1>2. WellFormed(Turn(k, at, j))
  BY TurnTyped
<1> QED
  BY <1>1, <1>2, PutTyped

LEMMA TaskTyped ==
  ASSUME TasksTyped, NEW t \in Tasks
  PROVE  /\ WellFormed(task[t]) /\ task[t] \in TaskRecord
         /\ task[t].kind \in Kinds /\ task[t].i \in 0..NClans
         /\ task[t].pc # "idle" => task[t].page \in Browsers
BY DEF TasksTyped, WellFormed, TaskRecord

LEMMA NextOfTaskTyped ==
  ASSUME session' \in Browsers, TasksTyped, NEW t \in Tasks,
         NextClan(t, task[t].kind, task[t].i + 1)
  PROVE  TasksTyped'
<1>1. task[t].kind \in Kinds /\ task[t].i + 1 \in Nat
  BY TaskTyped, ConstantsAssumption
<1> QED
  BY <1>1, NextClanTyped

LEMMA ScanRefusedTyped ==
  ASSUME session' \in Browsers, TasksTyped, NEW t \in Tasks, ScanRefused(t)
  PROVE  TasksTyped'
BY NextOfTaskTyped, FinishTyped DEF ScanRefused, EndTurn

LEMMA KindTyped ==
  ASSUME NEW k \in Kinds
  PROVE  WellFormed([NoTask EXCEPT !.kind = k])
BY NoTaskWellFormed DEF WellFormed, NoTask, TaskRecord

LEMMA EnsureLiveTyped ==
  ASSUME session \in Browsers, TasksTyped, NEW t \in Tasks, NEW c \in Clans,
         NEW r, WellFormed(r), EnsureLive(t, r, c)
  PROVE  TasksTyped'
<1>1. WellFormed([r EXCEPT !.pc = "closing", !.clan = c, !.page = session])
  BY SwitchTyped DEF Pcs
<1> QED
  BY <1>1, PutTyped DEF EnsureLive

LEMMA RunCycleTyped ==
  ASSUME session' \in Browsers, clanId' \in Clans, TasksTyped,
         NEW t \in Tasks, NEW k \in Kinds, NEW tm, NEW next,
         RunCycle(t, k, tm, next)
  PROVE  TasksTyped'
<1>1. CASE UNCHANGED task
  BY <1>1 DEF TasksTyped
<1>2. CASE BeginScan(t, [NoTask EXCEPT !.kind = k, !.i = 1])
  <2>1. 1 \in 0..NClans
    BY ConstantsAssumption
  <2>2. WellFormed([NoTask EXCEPT !.kind = k, !.i = 1])
    BY <2>1, NoTaskWellFormed DEF WellFormed, NoTask, TaskRecord
  <2> QED
    BY <1>2, <2>2, BeginScanTyped
<1>3. CASE NextClan(t, k, 1)
  BY <1>3, NextClanTyped
<1> QED
  BY <1>1, <1>2, <1>3 DEF RunCycle

LEMMA EndTyped ==
  ASSUME NEW r, WellFormed(r), r.page \in Browsers, NEW threw \in BOOLEAN
  PROVE  WellFormed([r EXCEPT !.pc = "finishing", !.threw = threw])
BY DEF WellFormed, TaskRecord, RecordingPcs, Pcs, ScanPcs

LEMMA CloseRowTyped ==
  ASSUME TasksTyped, NEW t \in Tasks, task[t].pc # "idle"
  PROVE  WellFormed(CloseRow(task[t])) /\ CloseRow(task[t]).page \in Browsers
BY TaskTyped, ConstantsAssumption
   DEF CloseRow, WellFormed, TaskRecord, RecordingPcs

LEMMA RebootTyped ==
  ASSUME Reboot
  PROVE  TasksTyped'
BY NoTaskWellFormed DEF Reboot, TasksTyped, WellFormed

LEMMA SetClanTyped ==
  ASSUME NEW r, WellFormed(r), r.page \in Browsers, NEW at \in Pcs,
         NEW c \in Clans
  PROVE  /\ WellFormed([r EXCEPT !.pc = at, !.clan = c])
         /\ at \notin RecordingPcs => WellFormed([r EXCEPT !.pc = at, !.row = c])
<1> c \in 0..NClans
  BY ConstantsAssumption DEF Clans
<1> QED
  BY DEF WellFormed, TaskRecord

LEMMA FlagsStep == FlagsTyped /\ [Next]_vars => FlagsTyped'
<1> SUFFICES ASSUME FlagsTyped, [Next]_vars PROVE FlagsTyped'
  OBVIOUS
<1> USE DEF FlagsTyped, pauseVars, sched, drive, disk
<1>1. ASSUME NEW t \in Tasks, ScanStep(t)
     PROVE  FlagsTyped'
  BY Zenon, <1>1
     DEF ScanStep, AuthOk, AuthRejected, AuthCrash, OnGiftsTab, RecordRow,
         ScanFailed, TriumphalSweep, ScanSucceeded, MaintenanceAbort, Claims,
         ClaimScheduling, ScheduleAs, ScanAborted, BeginCapture,
         CapturesOver, CleanupThrows, CollectLoggedIn, CollectThrows,
         CalibrateDone, ReleaseLock
<1>2. ASSUME NEW t \in Tasks, CloseDone(t) \/ RelaunchOk(t) \/ CycleReleased(t) \/ CycleRecycled(t)
     PROVE  FlagsTyped'
  BY Zenon, <1>2
     DEF CloseDone, CloseBrowser, RelaunchOk, FreeBrowsers, CycleReleased,
         EndTurn, ScheduleIfRunning, Schedule, ScheduleAs, CycleRecycled
<1>3. ASSUME NEW t \in Tasks, LaunchOk(t)
     PROVE  FlagsTyped'
  BY Zenon, <1>3
     DEF LaunchOk, FreeBrowsers, ScanRefused, NextClan, SetActiveClan,
         EndTurn, ScheduleIfRunning, Schedule, ScheduleAs, BeginScan, Put
<1>4. ASSUME NEW t \in Tasks, LaunchFails(t)
     PROVE  FlagsTyped'
  BY Zenon, <1>4 DEF LaunchFails, Reboot, ReleaseLock
<1>5. ASSUME NEW t \in Tasks, FinishScan(t)
     PROVE  FlagsTyped'
  BY Zenon, <1>5
     DEF FinishScan, ReleaseLock, NextClan, SetActiveClan, ScheduleIfRunning,
         Schedule, ScheduleAs
<1>6. ASSUME NEW t \in Tasks, Start(t)
     PROVE  FlagsTyped'
  BY Zenon, <1>6
     DEF Start, Schedule, ScheduleAs, RunCycle, BeginScan, NextClan,
         SetActiveClan, Put
<1>7. ASSUME NEW t \in Tasks, TimerFires(t)
     PROVE  FlagsTyped'
  BY Zenon, <1>7
     DEF TimerFires, Schedule, ScheduleAs, RunCycle, BeginScan, NextClan,
         SetActiveClan, Put
<1>8. ASSUME NEW t \in Tasks, ScanAll(t)
     PROVE  FlagsTyped'
  BY Zenon, <1>8
     DEF ScanAll, Schedule, ScheduleAs, RunCycle, BeginScan, NextClan,
         SetActiveClan, Put
<1>9. ASSUME NEW t \in Tasks, Calibrate(t)
     PROVE  FlagsTyped'
  BY Zenon, <1>9 DEF Calibrate
<1>10. ASSUME NEW t \in Tasks, NEW c \in Clans, ManualScan(t, c) \/ Collect(t, c)
     PROVE  FlagsTyped'
  BY Zenon, <1>10 DEF ManualScan, BeginScan, EnsureLive, SetActiveClan, Collect
<1>11. ASSUME Environment
     PROVE  FlagsTyped'
  BY Zenon, <1>11
     DEF Environment, Pause, Resume, DoResume, Schedule, ScheduleAs,
         WatchdogFires, SetScanInterval, UploadBegins, UploadEnds, Restart,
         Reboot
<1>12. CASE UNCHANGED vars
  BY Zenon, <1>12 DEF vars
<1> QED
  BY <1>1, <1>2, <1>3, <1>4, <1>5, <1>6, <1>7, <1>8, <1>9, <1>10, <1>11,
     <1>12
     DEF Next, EntryStep, TaskStep

LEMMA DataStep == DataTyped /\ TasksTyped /\ [Next]_vars => DataTyped'
<1> SUFFICES ASSUME DataTyped /\ TasksTyped, [Next]_vars PROVE DataTyped'
  OBVIOUS
<1> USE ConstantsAssumption DEF DataTyped, TasksTyped, WellFormed,
   RecordingPcs, TaskRecord, ClansLeft, Clans, pauseVars, sched, drive, disk
<1>1. ASSUME NEW t \in Tasks, RecordRow(t)
     PROVE  DataTyped'
  <2>1. task[t].clan \in Clans /\ task[t].page \in Browsers
    BY <1>1 DEF RecordRow
  <2>2. browser[task[t].page] \in Clans
    BY <1>1, <2>1 DEF RecordRow, Open
  <2>3. rows' \subseteq [clan: Clans, account: Clans]
    BY <1>1, <2>1, <2>2 DEF RecordRow
  <2> QED
    BY <1>1, <2>3 DEF RecordRow
<1>2. ASSUME NEW t \in Tasks, ScanStep(t) /\ ~RecordRow(t)
     PROVE  DataTyped'
  BY <1>2
     DEF ScanStep, AuthOk, AuthRejected, AuthCrash, OnGiftsTab, ScanFailed,
         TriumphalSweep, ScanSucceeded, MaintenanceAbort, Claims,
         ClaimScheduling, ScheduleAs, ScanAborted, BeginCapture,
         CapturesOver, CleanupThrows, CollectLoggedIn, CollectThrows,
         CalibrateDone, ReleaseLock
<1>3. ASSUME NEW t \in Tasks, CloseDone(t)
     PROVE  DataTyped'
  BY <1>3 DEF CloseDone, CloseBrowser
<1>4. ASSUME NEW t \in Tasks, RelaunchOk(t)
     PROVE  DataTyped'
  BY <1>4 DEF RelaunchOk, FreeBrowsers
<1>5. ASSUME NEW t \in Tasks, CycleReleased(t)
     PROVE  DataTyped'
  BY <1>5
     DEF CycleReleased, CloseBrowser, EndTurn, ScheduleIfRunning, Schedule,
         ScheduleAs
<1>6. ASSUME NEW t \in Tasks, CycleRecycled(t)
     PROVE  DataTyped'
  BY <1>6 DEF CycleRecycled, EndTurn, ScheduleIfRunning, Schedule, ScheduleAs
<1>7. ASSUME NEW t \in Tasks, LaunchOk(t)
     PROVE  DataTyped'
  BY <1>7
     DEF LaunchOk, FreeBrowsers, ScanRefused, NextClan, SetActiveClan,
         EndTurn, ScheduleIfRunning, Schedule, ScheduleAs, BeginScan, Put
<1>8. ASSUME NEW t \in Tasks, LaunchFails(t)
     PROVE  DataTyped'
  BY <1>8 DEF LaunchFails, Reboot, ReleaseLock
<1>9. ASSUME NEW t \in Tasks, FinishScan(t)
     PROVE  DataTyped'
  <2>1. task[t].row # 0 => task[t].row \in Clans
    OBVIOUS
  <2>2. orphaned' \subseteq Clans
    BY <1>9, <2>1, Zenon DEF FinishScan
  <2>3. timer' \in {"none", "armed", "deferred", "fired"}
    BY <1>9 DEF FinishScan, ScheduleIfRunning, Schedule, ScheduleAs
  <2>4. clanId' \in Clans
    BY <1>9 DEF FinishScan, NextClan, SetActiveClan
  <2> QED
    BY <1>9, <2>2, <2>3, <2>4 DEF FinishScan
<1>10. ASSUME NEW t \in Tasks, Start(t)
     PROVE  DataTyped'
  BY <1>10
     DEF Start, Schedule, ScheduleAs, RunCycle, BeginScan, NextClan,
         SetActiveClan, Put
<1>11. ASSUME NEW t \in Tasks, TimerFires(t)
     PROVE  DataTyped'
  BY <1>11
     DEF TimerFires, Schedule, ScheduleAs, RunCycle, BeginScan, NextClan,
         SetActiveClan, Put
<1>12. ASSUME NEW t \in Tasks, ScanAll(t)
     PROVE  DataTyped'
  BY <1>12
     DEF ScanAll, Schedule, ScheduleAs, RunCycle, BeginScan, NextClan,
         SetActiveClan, Put
<1>13. ASSUME NEW t \in Tasks, Calibrate(t)
     PROVE  DataTyped'
  BY <1>13 DEF Calibrate
<1>14. ASSUME NEW t \in Tasks, NEW c \in Clans, ManualScan(t, c) \/ Collect(t, c)
     PROVE  DataTyped'
  BY <1>14 DEF ManualScan, BeginScan, EnsureLive, SetActiveClan, Collect
<1>15. ASSUME Pause
     PROVE  DataTyped'
  BY <1>15 DEF Pause
<1>16. ASSUME Resume
     PROVE  DataTyped'
  BY <1>16 DEF Resume, DoResume, Schedule, ScheduleAs
<1>17. ASSUME WatchdogFires
     PROVE  DataTyped'
  BY <1>17 DEF WatchdogFires, DoResume, Schedule, ScheduleAs
<1>18. ASSUME SetScanInterval
     PROVE  DataTyped'
  BY <1>18 DEF SetScanInterval, Schedule, ScheduleAs
<1>19. ASSUME UploadBegins
     PROVE  DataTyped'
  BY <1>19 DEF UploadBegins
<1>20. ASSUME UploadEnds
     PROVE  DataTyped'
  BY <1>20 DEF UploadEnds
<1>21. ASSUME Restart
     PROVE  DataTyped'
  BY <1>21 DEF Restart, Reboot
<1>22. CASE UNCHANGED vars
  BY <1>22 DEF vars
<1> QED
  BY <1>1, <1>2, <1>3, <1>4, <1>5, <1>6, <1>7, <1>8, <1>9, <1>10, <1>11,
     <1>12, <1>13, <1>14, <1>15, <1>16, <1>17, <1>18, <1>19, <1>20, <1>21,
     <1>22
     DEF Next, EntryStep, TaskStep, Environment

LEMMA TasksStep ==
  ASSUME DataTyped, TasksTyped, DataTyped', [Next]_vars
  PROVE  TasksTyped'
<1>1. ASSUME NEW t \in Tasks, Start(t) PROVE TasksTyped'
  <2>1. CASE UNCHANGED task
    BY <2>1 DEF TasksTyped
  <2>2. CASE \E k \in Kinds : \E tm, next : RunCycle(t, k, tm, next)
    BY <2>2, RunCycleTyped DEF DataTyped
  <2> QED
    BY <1>1, <2>1, <2>2 DEF Start, Kinds
<1>2. ASSUME NEW t \in Tasks, TimerFires(t) PROVE TasksTyped'
  <2>1. CASE UNCHANGED task
    BY <2>1 DEF TasksTyped
  <2>2. CASE \E k \in Kinds : \E tm, next : RunCycle(t, k, tm, next)
    BY <2>2, RunCycleTyped DEF DataTyped
  <2> QED
    BY <1>2, <2>1, <2>2 DEF TimerFires, Kinds
<1>3. ASSUME NEW t \in Tasks, ScanAll(t) PROVE TasksTyped'
  <2>1. CASE UNCHANGED task
    BY <2>1 DEF TasksTyped
  <2>2. CASE \E k \in Kinds : \E tm, next : RunCycle(t, k, tm, next)
    BY <2>2, RunCycleTyped DEF DataTyped
  <2> QED
    BY <1>3, <2>1, <2>2 DEF ScanAll, Kinds
<1>4. ASSUME NEW t \in Tasks, Calibrate(t) PROVE TasksTyped'
  <2> DEFINE r == [NoTask EXCEPT !.kind = "calibrate"]
  <2>1. WellFormed(r)
    BY KindTyped DEF Kinds
  <2>2. CASE Put(t, [r EXCEPT !.pc = "calibrating", !.page = session])
    <3>1. WellFormed([r EXCEPT !.pc = "calibrating", !.page = session])
      BY <2>1 DEF WellFormed, TaskRecord, RecordingPcs, Pcs, DataTyped
    <3> QED
      BY <2>2, <3>1, PutTyped
  <2>3. CASE EnsureLive(t, r, clanId)
    BY <2>1, <2>3, EnsureLiveTyped DEF DataTyped
  <2> QED
    BY <1>4, <2>2, <2>3 DEF Calibrate
<1>5. ASSUME NEW t \in Tasks, CloseDone(t) PROVE TasksTyped'
  <2>1. PICK at \in {"launching", "relaunching", "finishing"} : Await(t, at)
    BY <1>5 DEF CloseDone
  <2> QED
    BY <1>5, <2>1, AwaitTyped
       DEF CloseDone, RecordingPcs, Pcs, ScanPcs, AuthPcs, SweepPcs
<1>6. ASSUME NEW t \in Tasks, LaunchOk(t) PROVE TasksTyped'
  <2>1. session' \in Browsers /\ clanId' \in Clans
    BY DEF DataTyped
  <2>2. CASE \E at \in {"calibrating", "collecting"} :
               Put(t, [task[t] EXCEPT !.page = session', !.pc = at])
    <3>1. PICK at \in {"calibrating", "collecting"} :
            Put(t, [task[t] EXCEPT !.page = session', !.pc = at])
      BY <2>2
    <3>2. WellFormed([task[t] EXCEPT !.page = session', !.pc = at])
      BY <2>1, TaskTyped DEF WellFormed, TaskRecord, RecordingPcs, Pcs
    <3> QED
      BY <3>1, <3>2, PutTyped
  <2>3. CASE BeginScan(t, task[t])
    BY <2>1, <2>3, TaskTyped, BeginScanTyped
  <2>4. CASE ScanRefused(t)
    BY <2>1, <2>4, ScanRefusedTyped
  <2> QED
    BY <1>6, <2>2, <2>3, <2>4 DEF LaunchOk
<1>7. ASSUME NEW t \in Tasks, RelaunchOk(t) PROVE TasksTyped'
  <2>1. PICK b \in Browsers : Put(t, [task[t] EXCEPT !.pc = "auth2", !.page = b])
    BY <1>7 DEF RelaunchOk, FreeBrowsers
  <2>2. WellFormed([task[t] EXCEPT !.pc = "auth2", !.page = b])
    BY TaskTyped
       DEF WellFormed, TaskRecord, RecordingPcs, Pcs, ScanPcs, AuthPcs,
           SweepPcs
  <2> QED
    BY <2>1, <2>2, PutTyped
<1>8. ASSUME NEW t \in Tasks, LaunchFails(t) PROVE TasksTyped'
  <2>1. CASE Reboot
    BY <2>1, RebootTyped
  <2>2. CASE Finish(t)
    BY <2>2, FinishTyped
  <2>3. CASE Put(t, [task[t] EXCEPT !.pc = "finishing", !.threw = TRUE])
    <3>1. task[t].pc # "idle"
      BY <1>8 DEF LaunchFails
    <3>2. WellFormed([task[t] EXCEPT !.pc = "finishing", !.threw = TRUE])
      BY <3>1, TaskTyped, EndTyped
    <3> QED
      BY <2>3, <3>2, PutTyped
  <2> QED
    BY <1>8, <2>1, <2>2, <2>3 DEF LaunchFails
<1>9. ASSUME NEW t \in Tasks, AuthOk(t) PROVE TasksTyped'
  <2>1. WellFormed([task[t] EXCEPT !.pc = "navigate", !.row = clanId])
    BY <1>9, TaskTyped, SetClanTyped
       DEF AuthOk, DataTyped, RecordingPcs, Pcs, ScanPcs, AuthPcs, SweepPcs
  <2> QED
    BY <1>9, <2>1, PutTyped DEF AuthOk
<1>10. ASSUME NEW t \in Tasks, AuthRejected(t) PROVE TasksTyped'
  BY <1>10, AwaitTyped
     DEF AuthRejected, RecordingPcs, Pcs, ScanPcs, AuthPcs, SweepPcs
<1>11. ASSUME NEW t \in Tasks, AuthCrash(t) PROVE TasksTyped'
  BY <1>11, AwaitTyped
     DEF AuthCrash, RecordingPcs, Pcs, ScanPcs, AuthPcs, SweepPcs
<1>12. ASSUME NEW t \in Tasks, OnGiftsTab(t) PROVE TasksTyped'
  <2>1. WellFormed([task[t] EXCEPT !.pc = "gifts", !.clan = clanId])
    BY <1>12, TaskTyped, SetClanTyped
       DEF OnGiftsTab, DataTyped, RecordingPcs, Pcs, ScanPcs, AuthPcs,
           SweepPcs
  <2> QED
    BY <1>12, <2>1, PutTyped DEF OnGiftsTab
<1>13. ASSUME NEW t \in Tasks, RecordRow(t) PROVE TasksTyped'
  BY <1>13 DEF TasksTyped, RecordRow
<1>14. ASSUME NEW t \in Tasks, ScanFailed(t) PROVE TasksTyped'
  <2>1. WellFormed([CloseRow(task[t]) EXCEPT !.pc = "finishing"])
    BY <1>14, CloseRowTyped, MoveTyped
       DEF ScanFailed, Pcs, ScanPcs, AuthPcs, SweepPcs, RecordingPcs
  <2> QED
    BY <1>14, <2>1, PutTyped DEF ScanFailed
<1>15. ASSUME NEW t \in Tasks, TriumphalSweep(t) PROVE TasksTyped'
  <2>1. WellFormed([task[t] EXCEPT !.pc = "triumphal", !.clan = clanId])
    BY <1>15, TaskTyped, SetClanTyped
       DEF TriumphalSweep, DataTyped, RecordingPcs, Pcs, ScanPcs, AuthPcs,
           SweepPcs
  <2> QED
    BY <1>15, <2>1, PutTyped DEF TriumphalSweep
<1>16. ASSUME NEW t \in Tasks, ScanSucceeded(t) PROVE TasksTyped'
  <2>1. WellFormed([CloseRow(task[t]) EXCEPT !.pc = "cleanup"])
    BY <1>16, CloseRowTyped, MoveTyped
       DEF ScanSucceeded, Pcs, ScanPcs, AuthPcs, SweepPcs, RecordingPcs
  <2> QED
    BY <1>16, <2>1, PutTyped DEF ScanSucceeded
<1>17. ASSUME NEW t \in Tasks, BeginCapture(t) PROVE TasksTyped'
  <2>1. WellFormed([task[t] EXCEPT !.pc = "captures", !.clan = clanId,
                                  !.page = session])
    BY <1>17, TaskTyped, SwitchTyped
       DEF BeginCapture, DataTyped, RecordingPcs, Pcs, ScanPcs, AuthPcs,
           SweepPcs
  <2> QED
    BY <1>17, <2>1, PutTyped DEF BeginCapture
<1>18. ASSUME NEW t \in Tasks, CapturesOver(t) PROVE TasksTyped'
  BY <1>18, AwaitTyped
     DEF CapturesOver, RecordingPcs, Pcs, ScanPcs, AuthPcs, SweepPcs
<1>19. ASSUME NEW t \in Tasks, CleanupThrows(t) PROVE TasksTyped'
  <2> DEFINE r == [task[t] EXCEPT !.pc = "finishing", !.threw = TRUE]
  <2>1. WellFormed(r)
    BY <1>19, TaskTyped, EndTyped DEF CleanupThrows
  <2> QED
    BY <1>19, <2>1, PutTyped DEF CleanupThrows
<1>20. ASSUME NEW t \in Tasks, CollectLoggedIn(t) PROVE TasksTyped'
  <2>1. WellFormed([task[t] EXCEPT !.pc = "captures", !.clan = clanId,
                                  !.page = session])
    BY <1>20, TaskTyped, SwitchTyped
       DEF CollectLoggedIn, DataTyped, RecordingPcs, Pcs, ScanPcs, AuthPcs,
           SweepPcs
  <2> QED
    BY <1>20, <2>1, PutTyped DEF CollectLoggedIn
<1>21. ASSUME NEW t \in Tasks, CollectThrows(t) PROVE TasksTyped'
  BY <1>21, AwaitTyped
     DEF CollectThrows, RecordingPcs, Pcs, ScanPcs, AuthPcs, SweepPcs
<1>22. ASSUME NEW t \in Tasks, CalibrateDone(t) PROVE TasksTyped'
  BY <1>22, FinishTyped DEF CalibrateDone
<1>23. ASSUME NEW t \in Tasks, FinishScan(t) PROVE TasksTyped'
  <2>1. CASE NextClan(t, task[t].kind, task[t].i + 1)
    BY <2>1, TaskTyped, NextOfTaskTyped DEF DataTyped
  <2>2. CASE Finish(t)
    BY <2>2, FinishTyped
  <2> QED
    BY <1>23, <2>1, <2>2 DEF FinishScan
<1>24. ASSUME NEW t \in Tasks, CycleReleased(t) PROVE TasksTyped'
  <2>1. CASE Finish(t)
    BY <2>1, FinishTyped
  <2>2. CASE Await(t, "recycling")
    BY <1>24, <2>2, AwaitTyped DEF CycleReleased, RecordingPcs, Pcs
  <2> QED
    BY <1>24, <2>1, <2>2 DEF CycleReleased, EndTurn
<1>25. ASSUME NEW t \in Tasks, CycleRecycled(t) PROVE TasksTyped'
  BY <1>25, FinishTyped DEF CycleRecycled, EndTurn
<1>26. ASSUME NEW t \in Tasks, NEW c \in Clans, ManualScan(t, c)
       PROVE  TasksTyped'
  <2> DEFINE r == [NoTask EXCEPT !.kind = "manual"]
  <2>1. WellFormed(r)
    BY KindTyped DEF Kinds
  <2>2. CASE BeginScan(t, r)
    BY <2>1, <2>2, BeginScanTyped DEF DataTyped
  <2>3. CASE EnsureLive(t, r, c)
    BY <2>1, <2>3, EnsureLiveTyped DEF DataTyped
  <2> QED
    BY <1>26, <2>2, <2>3 DEF ManualScan
<1>27. ASSUME NEW t \in Tasks, NEW c \in Clans, Collect(t, c)
       PROVE  TasksTyped'
  <2> DEFINE r == [NoTask EXCEPT !.kind = "collect"]
  <2>1. WellFormed(r)
    BY KindTyped DEF Kinds
  <2>2. CASE Put(t, [r EXCEPT !.pc = "collecting", !.page = session])
    <3>1. WellFormed([r EXCEPT !.pc = "collecting", !.page = session])
      BY <2>1 DEF WellFormed, TaskRecord, RecordingPcs, Pcs, DataTyped
    <3> QED
      BY <2>2, <3>1, PutTyped
  <2>3. CASE EnsureLive(t, r, c)
    BY <2>1, <2>3, EnsureLiveTyped DEF DataTyped
  <2> QED
    BY <1>27, <2>2, <2>3 DEF Collect
<1>28. ASSUME NEW t \in Tasks, NEW known \in BOOLEAN, MaintenanceAbort(t, known)
       PROVE  TasksTyped'
  <2>1. WellFormed([CloseRow(task[t]) EXCEPT !.pc = "finishing"])
    BY <1>28, CloseRowTyped, MoveTyped
       DEF MaintenanceAbort, Pcs, ScanPcs, AuthPcs, SweepPcs, RecordingPcs
  <2> QED
    BY <1>28, <2>1, PutTyped DEF MaintenanceAbort
<1>29. ASSUME NEW t \in Tasks, NEW kicked \in BOOLEAN, ScanAborted(t, kicked)
       PROVE  TasksTyped'
  <2>1. PICK threw \in BOOLEAN :
          Put(t, [CloseRow(task[t]) EXCEPT !.pc = "finishing", !.threw = threw])
    BY <1>29, Zenon DEF ScanAborted
  <2>2. task[t].pc # "idle"
    BY <1>29 DEF ScanAborted, SweepPcs
  <2>3. WellFormed([CloseRow(task[t]) EXCEPT !.pc = "finishing", !.threw = threw])
    BY <2>2, CloseRowTyped, EndTyped
  <2> QED
    BY <2>1, <2>3, PutTyped
<1>30. ASSUME Pause PROVE TasksTyped'
  BY <1>30 DEF TasksTyped, Pause
<1>31. ASSUME Resume PROVE TasksTyped'
  BY <1>31 DEF TasksTyped, Resume, DoResume
<1>32. ASSUME WatchdogFires PROVE TasksTyped'
  BY <1>32 DEF TasksTyped, WatchdogFires, DoResume
<1>33. ASSUME SetScanInterval PROVE TasksTyped'
  BY <1>33 DEF TasksTyped, SetScanInterval
<1>34. ASSUME UploadBegins PROVE TasksTyped'
  BY <1>34 DEF TasksTyped, UploadBegins
<1>35. ASSUME UploadEnds PROVE TasksTyped'
  BY <1>35 DEF TasksTyped, UploadEnds
<1>36. ASSUME Restart PROVE TasksTyped'
  BY <1>36, RebootTyped DEF Restart
<1>37. CASE UNCHANGED vars
  BY <1>37 DEF vars, TasksTyped
<1> QED
  BY <1>1, <1>2, <1>3, <1>4, <1>5, <1>6, <1>7, <1>8, <1>9, <1>10, <1>11,
     <1>12, <1>13, <1>14, <1>15, <1>16, <1>17, <1>18, <1>19, <1>20, <1>21,
     <1>22, <1>23, <1>24, <1>25, <1>26, <1>27, <1>28, <1>29, <1>30, <1>31,
     <1>32, <1>33, <1>34, <1>35, <1>36, <1>37
     DEF Next, EntryStep, TaskStep, ScanStep, Environment

LEMMA InitTyped == Init => FlagsTyped /\ DataTyped /\ TasksTyped
<1> SUFFICES ASSUME Init PROVE FlagsTyped /\ DataTyped /\ TasksTyped
  OBVIOUS
<1>1. FlagsTyped
  BY Zenon DEF Init, FlagsTyped
<1>2. DataTyped
  BY ConstantsAssumption DEF Init, DataTyped, Clans
<1>3. TasksTyped
  BY NoTaskWellFormed DEF Init, TasksTyped, WellFormed
<1> QED
  BY <1>1, <1>2, <1>3

Typed == FlagsTyped /\ DataTyped /\ TasksTyped

LEMMA TypedHolds == Spec => []Typed
<1>1. Init => Typed
  BY InitTyped DEF Typed
<1>2. Typed /\ [Next]_vars => Typed'
  <2> SUFFICES ASSUME Typed, [Next]_vars PROVE Typed'
    OBVIOUS
  <2>1. FlagsTyped'
    BY FlagsStep DEF Typed
  <2>2. DataTyped'
    BY DataStep DEF Typed
  <2>3. TasksTyped'
    BY <2>2, TasksStep DEF Typed
  <2> QED
    BY <2>1, <2>2, <2>3 DEF Typed
<1> QED
  BY <1>1, <1>2, PTL DEF Spec

\* Every variable keeps its type, in every instance.
THEOREM TypeCorrect == Spec => []TypeOK
<1>1. Typed => TypeOK
  <2> SUFFICES ASSUME Typed PROVE TypeOK
    OBVIOUS
  <2> QED
    BY Zenon DEF Typed, FlagsTyped, DataTyped, TasksTyped, TypeOK
<1> QED
  BY <1>1, TypedHolds, PTL

-----------------------------------------------------------------------------
(* The lock.                                                               *)

\* A task that drives the page, or has claimed it to.
Driving(r) == r.pc \in ScanPcs \/ r.kind = "collect"

\* The awaits a task of each kind can be at.
OnTrack(r) ==
  /\ r.pc = "calibrating" => r.kind = "calibrate"
  /\ r.pc = "collecting" => r.kind = "collect"
  /\ r.kind = "calibrate" => r.pc \in {"closing", "launching", "calibrating"}
  /\ r.kind = "collect" => r.pc \in {"closing", "launching", "collecting",
                                     "captures", "finishing"}

Tracked == \A t \in Tasks : OnTrack(task[t])
NoOverlap == activeUploads > 0 => \A t \in Tasks : ~Driving(task[t])
LockInv == Tracked /\ SingleFlight /\ NoOverlap

LEMMA PutTask ==
  ASSUME TasksTyped, NEW t \in Tasks, NEW r, Put(t, r)
  PROVE \A u \in Tasks : task'[u] = IF u = t THEN r ELSE task[u]
BY DEF TasksTyped, Put

LEMMA KeepsLock ==
  ASSUME TasksTyped, LockInv, NEW t \in Tasks, NEW r, Put(t, r), OnTrack(r),
         Holding(r) <=> Holding(task[t]), Driving(r) => Driving(task[t]),
         UNCHANGED <<scanInProgress, activeUploads>>
  PROVE  LockInv'
<1>1. \A u \in Tasks : task'[u] = IF u = t THEN r ELSE task[u]
  BY PutTask
<1>2. Tracked'
  BY <1>1 DEF LockInv, Tracked
<1>3. SingleFlight'
  BY <1>1, Zenon DEF LockInv, SingleFlight, Holds
<1>4. NoOverlap'
  BY <1>1 DEF LockInv, NoOverlap
<1> QED
  BY <1>2, <1>3, <1>4 DEF LockInv

LEMMA TakesLock ==
  ASSUME TasksTyped, LockInv, NEW t \in Tasks, NEW r, Put(t, r), OnTrack(r),
         ~scanInProgress, scanInProgress' = TRUE, Holding(r),
         Driving(r) => ~(activeUploads > 0), UNCHANGED activeUploads
  PROVE  LockInv'
<1>1. \A u \in Tasks : task'[u] = IF u = t THEN r ELSE task[u]
  BY PutTask
<1>2. Tracked'
  BY <1>1 DEF LockInv, Tracked
<1>3. SingleFlight'
  BY <1>1, Zenon DEF LockInv, SingleFlight, Holds
<1>4. NoOverlap'
  BY <1>1 DEF LockInv, NoOverlap
<1> QED
  BY <1>2, <1>3, <1>4 DEF LockInv

LEMMA DropsLock ==
  ASSUME TasksTyped, LockInv, NEW t \in Tasks, NEW r, Put(t, r), OnTrack(r),
         Holding(task[t]), ~Holding(r), scanInProgress' = FALSE, UNCHANGED activeUploads
  PROVE  LockInv'
<1>1. \A u \in Tasks : task'[u] = IF u = t THEN r ELSE task[u]
  BY PutTask
<1>2. Tracked'
  BY <1>1 DEF LockInv, Tracked
<1>3. SingleFlight'
  BY <1>1, Zenon DEF LockInv, SingleFlight, Holds
<1>4. NoOverlap'
  BY <1>1 DEF LockInv, NoOverlap, Driving, Holding
<1> QED
  BY <1>2, <1>3, <1>4 DEF LockInv

LEMMA Unmoved ==
  ASSUME LockInv, UNCHANGED <<scanInProgress, activeUploads, task>>
  PROVE LockInv'
BY Zenon DEF LockInv, Tracked, SingleFlight, Holds, NoOverlap

LEMMA NoTaskTracked == OnTrack(NoTask) /\ ~Holding(NoTask) /\ ~Driving(NoTask)
BY DEF OnTrack, Holding, Driving, NoTask, ScanPcs, AuthPcs, SweepPcs

LEMMA FinishLock ==
  ASSUME TasksTyped, LockInv, NEW t \in Tasks, Finish(t), UNCHANGED activeUploads,
         \/ UNCHANGED scanInProgress /\ ~Holding(task[t])
         \/ scanInProgress' = FALSE /\ Holding(task[t])
  PROVE  LockInv'
<1>1. CASE UNCHANGED scanInProgress /\ ~Holding(task[t])
  BY <1>1, NoTaskTracked, KeepsLock DEF Finish
<1>2. CASE scanInProgress' = FALSE /\ Holding(task[t])
  BY <1>2, NoTaskTracked, DropsLock DEF Finish
<1> QED
  BY <1>1, <1>2

LEMMA BeginScanLock ==
  ASSUME TasksTyped, LockInv, NEW t \in Tasks, NEW r \in TaskRecord,
         r.kind \in {"cycle", "scanAll", "manual"}, ~Busy, BeginScan(t, r),
         UNCHANGED activeUploads
  PROVE  LockInv'
<1> DEFINE q == [r EXCEPT !.pc = "auth", !.clan = clanId', !.page = session',
                          !.row = 0, !.threw = FALSE]
<1>1. q.pc = "auth" /\ q.kind = r.kind
  BY DEF TaskRecord
<1>2. OnTrack(q) /\ Holding(q)
  BY <1>1 DEF OnTrack, Holding, ScanPcs, AuthPcs
<1>3. ~scanInProgress /\ ~(activeUploads > 0)
  BY Zenon DEF Busy
<1>4. Put(t, q) /\ scanInProgress' = TRUE
  BY Zenon DEF BeginScan
<1>5. LockInv'
  BY <1>2, <1>3, <1>4, TakesLock
<1> QED
  BY <1>5

LEMMA NextClanLock ==
  ASSUME TasksTyped, LockInv, NEW t \in Tasks, NEW k \in {"cycle", "scanAll"}, NEW i,
         NextClan(t, k, i), UNCHANGED activeUploads,
         \/ UNCHANGED scanInProgress /\ ~Holding(task[t])
         \/ scanInProgress' = FALSE /\ Holding(task[t])
  PROVE  LockInv'
<1>1. PICK at \in {"closing", "releasing"}, j \in 0..NClans : Put(t, Turn(k, at, j))
  BY ConstantsAssumption DEF NextClan, ClansLeft, Clans
<1>2. /\ OnTrack(Turn(k, at, j)) /\ ~Holding(Turn(k, at, j))
      /\ ~Driving(Turn(k, at, j))
  BY DEF Turn, OnTrack, Holding, Driving, ScanPcs, AuthPcs, SweepPcs
<1>3. CASE UNCHANGED scanInProgress /\ ~Holding(task[t])
  BY <1>1, <1>2, <1>3, KeepsLock
<1>4. CASE scanInProgress' = FALSE /\ Holding(task[t])
  BY <1>1, <1>2, <1>4, DropsLock
<1> QED
  BY <1>3, <1>4

LEMMA RunCycleLock ==
  ASSUME TasksTyped, LockInv, NEW t \in Tasks, task[t] = NoTask,
         NEW k \in {"cycle", "scanAll"}, NEW tm, NEW next,
         RunCycle(t, k, tm, next), UNCHANGED activeUploads
  PROVE  LockInv'
<1>1. CASE UNCHANGED <<scanInProgress, task>>
  BY <1>1, Unmoved
<1>2. CASE ~Busy /\ BeginScan(t, [NoTask EXCEPT !.kind = k, !.i = 1])
  <2> DEFINE r == [NoTask EXCEPT !.kind = k, !.i = 1]
  <2>1. k \in Kinds /\ 1 \in 0..NClans
    BY ConstantsAssumption DEF Kinds
  <2>2. r \in TaskRecord /\ r.kind = k
    BY <2>1, NoTaskWellFormed DEF WellFormed, NoTask, TaskRecord
  <2> HIDE DEF r
  <2>3. BeginScan(t, r)
    BY <1>2 DEF r
  <2> QED
    BY <1>2, <2>2, <2>3, BeginScanLock
<1>3. CASE UNCHANGED scanInProgress /\ NextClan(t, k, 1)
  <2>1. ~Holding(task[t])
    BY NoTaskTracked
  <2> QED
    BY <1>3, <2>1, NextClanLock
<1> QED
  BY <1>1, <1>2, <1>3, Zenon DEF RunCycle

LEMMA RebootLock ==
  ASSUME Reboot
  PROVE  LockInv'
<1>1. \A t \in Tasks : task'[t] = NoTask
  BY DEF Reboot
<1>2. Tracked'
  BY <1>1, NoTaskTracked DEF Tracked
<1>3. SingleFlight'
  BY <1>1, NoTaskTracked, Zenon DEF SingleFlight, Holds, Reboot
<1>4. NoOverlap'
  BY <1>1, NoTaskTracked DEF NoOverlap
<1> QED
  BY <1>2, <1>3, <1>4 DEF LockInv

\* Task t goes on to another await and stays what it is.
Moves(t, at) ==
  /\ \A u \in Tasks \ {t} : task'[u] = task[u]
  /\ task'[t].kind = task[t].kind /\ task'[t].pc = at

\* An await that follows the one task t is suspended at.
Follows(t, at) ==
  \/ /\ task[t].pc \in ScanPcs /\ at \in ScanPcs
     /\ task[t].kind = "collect" => at \in {"captures", "finishing"}
  \/ task[t].pc = "closing" /\ at = "launching"
  \/ task[t].pc = "releasing" /\ at = "recycling"
  \/ task[t].kind = "collect" /\ at \in {"collecting", "captures", "finishing"}
  \/ task[t].kind = "calibrate" /\ at = "calibrating"

LEMMA MoveLock ==
  ASSUME TasksTyped, LockInv, NEW t \in Tasks, NEW at, Moves(t, at),
         Follows(t, at), UNCHANGED <<scanInProgress, activeUploads>>
  PROVE  LockInv'
<1>1. OnTrack(task[t])
  BY DEF LockInv, Tracked
<1>2. OnTrack(task'[t])
  BY <1>1 DEF OnTrack, Moves, Follows, ScanPcs, AuthPcs, SweepPcs
<1>3. Holding(task'[t]) <=> Holding(task[t])
  BY <1>1 DEF OnTrack, Holding, Moves, Follows, ScanPcs, AuthPcs, SweepPcs
<1>4. Driving(task'[t]) => Driving(task[t])
  BY <1>1 DEF OnTrack, Driving, Moves, Follows, ScanPcs, AuthPcs, SweepPcs
<1>5. \A u \in Tasks \ {t} : task'[u] = task[u]
  BY DEF Moves
<1>6. Tracked'
  BY <1>2, <1>5 DEF LockInv, Tracked
<1>7. SingleFlight'
  BY <1>3, <1>5, Zenon DEF LockInv, SingleFlight, Holds
<1>8. NoOverlap'
  BY <1>4, <1>5 DEF LockInv, NoOverlap
<1> QED
  BY <1>6, <1>7, <1>8 DEF LockInv

LEMMA EnsureLivePuts ==
  ASSUME NEW t \in Tasks, NEW k, NEW c,
         EnsureLive(t, [NoTask EXCEPT !.kind = k], c)
  PROVE  \E q : Put(t, q) /\ q.kind = k /\ q.pc = "closing"
<1> DEFINE q == [[NoTask EXCEPT !.kind = k] EXCEPT !.pc = "closing",
                   !.clan = c, !.page = session]
<1>1. q.kind = k /\ q.pc = "closing"
  BY DEF NoTask
<1>2. Put(t, q)
  BY Zenon DEF EnsureLive
<1> QED
  BY <1>1, <1>2

LEMMA EnsureLiveLock ==
  ASSUME TasksTyped, LockInv, NEW t \in Tasks, task[t] = NoTask, NEW c,
         EnsureLive(t, [NoTask EXCEPT !.kind = "manual"], c),
         UNCHANGED <<scanInProgress, activeUploads>>
  PROVE  LockInv'
<1>1. PICK q : Put(t, q) /\ q.kind = "manual" /\ q.pc = "closing"
  BY EnsureLivePuts
<1>2. OnTrack(q) /\ ~Holding(q) /\ ~Driving(q)
  BY <1>1 DEF OnTrack, Holding, Driving, ScanPcs, AuthPcs, SweepPcs
<1> QED
  BY <1>1, <1>2, NoTaskTracked, KeepsLock

LEMMA TrackOf ==
  ASSUME LockInv, NEW t \in Tasks
  PROVE  OnTrack(task[t])
BY DEF LockInv, Tracked

\* A step of a scan or capture that keeps the lock moves to the next await.
LEMMA ScanMoves ==
  ASSUME TasksTyped, Tracked, NEW t \in Tasks, ScanStep(t),
         ~RecordRow(t), ~CalibrateDone(t)
  PROVE  \E at \in Pcs : Moves(t, at) /\ Follows(t, at)
<1> USE DEF OnTrack, Moves, Follows, Put, Await, CloseRow, TaskRecord,
            Pcs, ScanPcs, AuthPcs, SweepPcs
<1>1. OnTrack(task[t]) /\ task[t] \in TaskRecord
  BY TrackOf, TaskTyped DEF Tracked
<1>2. CASE ScanFailed(t)
  <2>1. Moves(t, "finishing")
    BY <1>1, <1>2 DEF ScanFailed, TasksTyped
  <2>2. Follows(t, "finishing")
    BY <1>1, <1>2 DEF ScanFailed
  <2> QED
    BY <2>1, <2>2
<1>3. CASE CapturesOver(t)
  <2>1. Moves(t, "finishing")
    BY <1>1, <1>3 DEF CapturesOver, TasksTyped
  <2>2. Follows(t, "finishing")
    BY <1>1, <1>3 DEF CapturesOver
  <2> QED
    BY <2>1, <2>2
<1>4. CASE CleanupThrows(t)
  <2>1. Moves(t, "finishing")
    BY <1>1, <1>4 DEF CleanupThrows, TasksTyped
  <2>2. Follows(t, "finishing")
    BY <1>1, <1>4 DEF CleanupThrows
  <2> QED
    BY <2>1, <2>2
<1>5. CASE CollectThrows(t)
  <2>1. Moves(t, "finishing")
    BY <1>1, <1>5 DEF CollectThrows, TasksTyped
  <2>2. Follows(t, "finishing")
    BY <1>1, <1>5 DEF CollectThrows
  <2> QED
    BY <2>1, <2>2
<1>6. ASSUME NEW known \in BOOLEAN, MaintenanceAbort(t, known)
     PROVE  \E at \in Pcs : Moves(t, at) /\ Follows(t, at)
  <2>1. Moves(t, "finishing")
    BY <1>1, <1>6 DEF MaintenanceAbort, TasksTyped
  <2>2. Follows(t, "finishing")
    BY <1>1, <1>6 DEF MaintenanceAbort
  <2> QED
    BY <2>1, <2>2
<1>7. ASSUME NEW kicked \in BOOLEAN, ScanAborted(t, kicked)
     PROVE  \E at \in Pcs : Moves(t, at) /\ Follows(t, at)
  <2>1. Moves(t, "finishing")
    BY <1>1, <1>7 DEF ScanAborted, TasksTyped
  <2>2. Follows(t, "finishing")
    BY <1>1, <1>7 DEF ScanAborted
  <2> QED
    BY <2>1, <2>2
<1>8. CASE \/ BeginCapture(t)
           \/ CollectLoggedIn(t)
  <2>1. Moves(t, "captures")
    BY <1>1, <1>8 DEF BeginCapture, CollectLoggedIn, TasksTyped
  <2>2. Follows(t, "captures")
    BY <1>1, <1>8 DEF BeginCapture, CollectLoggedIn
  <2> QED
    BY <2>1, <2>2
<1>9. CASE AuthOk(t)
  <2>1. Moves(t, "navigate")
    BY <1>1, <1>9 DEF AuthOk, TasksTyped
  <2>2. Follows(t, "navigate")
    BY <1>1, <1>9 DEF AuthOk
  <2> QED
    BY <2>1, <2>2
<1>10. CASE AuthRejected(t)
  <2>1. Moves(t, "authFailed")
    BY <1>1, <1>10 DEF AuthRejected, TasksTyped
  <2>2. Follows(t, "authFailed")
    BY <1>1, <1>10 DEF AuthRejected
  <2> QED
    BY <2>1, <2>2
<1>11. CASE AuthCrash(t)
  <2>1. Moves(t, "reclosing")
    BY <1>1, <1>11 DEF AuthCrash, TasksTyped
  <2>2. Follows(t, "reclosing")
    BY <1>1, <1>11 DEF AuthCrash
  <2> QED
    BY <2>1, <2>2
<1>12. CASE OnGiftsTab(t)
  <2>1. Moves(t, "gifts")
    BY <1>1, <1>12 DEF OnGiftsTab, TasksTyped
  <2>2. Follows(t, "gifts")
    BY <1>1, <1>12 DEF OnGiftsTab
  <2> QED
    BY <2>1, <2>2
<1>13. CASE TriumphalSweep(t)
  <2>1. Moves(t, "triumphal")
    BY <1>1, <1>13 DEF TriumphalSweep, TasksTyped
  <2>2. Follows(t, "triumphal")
    BY <1>1, <1>13 DEF TriumphalSweep
  <2> QED
    BY <2>1, <2>2
<1>14. CASE ScanSucceeded(t)
  <2>1. Moves(t, "cleanup")
    BY <1>1, <1>14 DEF ScanSucceeded, TasksTyped
  <2>2. Follows(t, "cleanup")
    BY <1>1, <1>14 DEF ScanSucceeded
  <2> QED
    BY <2>1, <2>2
<1> QED
  BY Zenon, <1>2, <1>3, <1>4, <1>5, <1>6, <1>7, <1>8, <1>9, <1>10, <1>11,
     <1>12, <1>13, <1>14
     DEF ScanStep

LEMMA LockStep ==
  ASSUME TasksTyped, LockInv, [Next]_vars
  PROVE  LockInv'
<1> USE DEF pauseVars, sched, drive, disk
<1>1. ASSUME NEW t \in Tasks, Start(t) PROVE LockInv'
  <2>1. CASE UNCHANGED <<scanInProgress, task>>
    BY <1>1, <2>1, Unmoved DEF Start
  <2>2. CASE \E k \in {"cycle", "scanAll"} : \E tm, next : RunCycle(t, k, tm, next)
    BY <1>1, <2>2, RunCycleLock DEF Start
  <2> QED
    BY <1>1, <2>1, <2>2 DEF Start
<1>2. ASSUME NEW t \in Tasks, TimerFires(t) PROVE LockInv'
  <2>1. CASE UNCHANGED <<scanInProgress, task>>
    BY <1>2, <2>1, Unmoved DEF TimerFires
  <2>2. CASE \E k \in {"cycle", "scanAll"} : \E tm, next : RunCycle(t, k, tm, next)
    BY <1>2, <2>2, RunCycleLock DEF TimerFires
  <2> QED
    BY <1>2, <2>1, <2>2 DEF TimerFires
<1>3. ASSUME NEW t \in Tasks, ScanAll(t) PROVE LockInv'
  <2>1. CASE UNCHANGED <<scanInProgress, task>>
    BY <1>3, <2>1, Unmoved DEF ScanAll
  <2>2. CASE \E k \in {"cycle", "scanAll"} : \E tm, next : RunCycle(t, k, tm, next)
    BY <1>3, <2>2, RunCycleLock DEF ScanAll
  <2> QED
    BY <1>3, <2>1, <2>2 DEF ScanAll
<1>4. ASSUME NEW t \in Tasks, Calibrate(t) PROVE LockInv'
  <2> DEFINE r == [NoTask EXCEPT !.kind = "calibrate"]
  <2>1. PICK q : Put(t, q) /\ q.kind = "calibrate" /\ q.pc \in {"closing", "calibrating"}
    <3>1. CASE EnsureLive(t, r, clanId)
      <4>1. \E q : Put(t, q) /\ q.kind = "calibrate" /\ q.pc = "closing"
        BY <3>1, EnsureLivePuts, Zenon
      <4> QED
        BY <4>1
    <3>2. CASE Put(t, [r EXCEPT !.pc = "calibrating", !.page = session])
      <4> DEFINE q == [r EXCEPT !.pc = "calibrating", !.page = session]
      <4>1. q.kind = "calibrate" /\ q.pc = "calibrating"
        BY DEF NoTask
      <4> QED
        BY <3>2, <4>1
    <3> QED
      BY <1>4, <3>1, <3>2 DEF Calibrate
  <2>2. OnTrack(q) /\ Holding(q)
    BY <2>1 DEF OnTrack, Holding
  <2>3. Driving(q) => ~(activeUploads > 0)
    BY <1>4, <2>1 DEF Calibrate, Driving, Busy, ScanPcs, AuthPcs, SweepPcs
  <2>4. ~scanInProgress /\ scanInProgress' = TRUE /\ UNCHANGED activeUploads
    BY <1>4, Zenon DEF Calibrate, Busy
  <2> QED
    BY <2>1, <2>2, <2>3, <2>4, TakesLock
<1>5. ASSUME NEW t \in Tasks, CloseDone(t) PROVE LockInv'
  <2>1. PICK at \in {"launching", "relaunching", "finishing"} : Await(t, at) /\ Follows(t, at)
    BY <1>5, TrackOf DEF CloseDone, OnTrack, Follows, ScanPcs, AuthPcs, SweepPcs
  <2>2. Moves(t, at)
    BY <2>1 DEF Moves, Put, Await, TasksTyped, TaskRecord
  <2> QED
    BY <1>5, <2>1, <2>2, MoveLock DEF CloseDone
<1>6. ASSUME NEW t \in Tasks, LaunchOk(t) PROVE LockInv'
  <2>1. CASE \E at \in {"calibrating", "collecting"} :
               /\ task[t].kind = IF at = "calibrating" THEN "calibrate" ELSE "collect"
               /\ Put(t, [task[t] EXCEPT !.page = session', !.pc = at])
               /\ UNCHANGED scanInProgress
    <3>1. PICK at \in {"calibrating", "collecting"} :
               /\ task[t].kind = IF at = "calibrating" THEN "calibrate" ELSE "collect"
               /\ Put(t, [task[t] EXCEPT !.page = session', !.pc = at])
      BY <2>1
    <3>2. Moves(t, at)
      BY <3>1 DEF Moves, Put, TasksTyped, TaskRecord
    <3>3. Follows(t, at)
      BY <3>1 DEF Follows
    <3> QED
      BY <1>6, <2>1, <3>2, <3>3, MoveLock DEF LaunchOk
  <2>2. CASE /\ task[t].kind \in {"cycle", "scanAll", "manual"} /\ ~Busy
             /\ BeginScan(t, task[t])
    BY <1>6, <2>2, TaskTyped, BeginScanLock DEF LaunchOk
  <2>3. CASE task[t].kind \in {"cycle", "scanAll", "manual"} /\ ScanRefused(t)
    <3>1. ~Holding(task[t])
      BY <1>6, <2>3 DEF LaunchOk, Holding, ScanPcs, AuthPcs, SweepPcs
    <3>2. CASE task[t].kind \in {"cycle", "scanAll"} /\ NextClan(t, task[t].kind, task[t].i + 1)
      BY <1>6, <2>3, <3>1, <3>2, NextClanLock DEF LaunchOk, ScanRefused
    <3>3. CASE Finish(t)
      BY <1>6, <2>3, <3>1, <3>3, FinishLock DEF LaunchOk, ScanRefused
    <3> QED
      BY <2>3, <3>2, <3>3 DEF ScanRefused, EndTurn
  <2> QED
    BY <1>6, <2>1, <2>2, <2>3 DEF LaunchOk
<1>7. ASSUME NEW t \in Tasks, RelaunchOk(t) PROVE LockInv'
  <2>1. Moves(t, "auth2")
    BY <1>7 DEF RelaunchOk, Moves, Put, Await, CloseRow, TasksTyped, TaskRecord
  <2>2. Follows(t, "auth2")
    BY <1>7, TrackOf
       DEF RelaunchOk, OnTrack, Follows, ScanPcs, AuthPcs, SweepPcs
  <2> QED
    BY <1>7, <2>1, <2>2, MoveLock DEF RelaunchOk
<1>8. ASSUME NEW t \in Tasks, LaunchFails(t) PROVE LockInv'
  <2>1. CASE Reboot
    BY <2>1, RebootLock
  <2>2. CASE /\ task[t].pc = "launching"
             /\ task[t].kind \in {"scanAll", "manual"}
             /\ Finish(t) /\ UNCHANGED <<scanInProgress, activeUploads>>
    <3>1. ~Holding(task[t])
      BY <2>2 DEF Holding, ScanPcs, AuthPcs, SweepPcs
    <3> QED
      BY <2>2, <3>1, FinishLock
  <2>3. CASE /\ task[t].kind = "calibrate" /\ Finish(t)
             /\ scanInProgress' = FALSE /\ UNCHANGED activeUploads
    <3>1. Holding(task[t])
      BY <2>3 DEF Holding
    <3> QED
      BY <2>3, <3>1, FinishLock
  <2>4. CASE /\ task[t].pc = "relaunching" \/ task[t].kind = "collect"
             /\ Put(t, [task[t] EXCEPT !.pc = "finishing", !.threw = TRUE])
             /\ UNCHANGED <<scanInProgress, activeUploads>>
    <3>1. Moves(t, "finishing")
      BY <2>4 DEF Moves, Put, TasksTyped, TaskRecord
    <3>2. Follows(t, "finishing")
      BY <2>4, TrackOf DEF OnTrack, Follows, ScanPcs, AuthPcs, SweepPcs
    <3> QED
      BY <2>4, <3>1, <3>2, MoveLock
  <2> QED
    BY <1>8, <2>1, <2>2, <2>3, <2>4 DEF LaunchFails, ReleaseLock
<1>9. ASSUME NEW t \in Tasks, ScanStep(t), ~RecordRow(t), ~CalibrateDone(t)
     PROVE  LockInv'
  <2>1. PICK at \in Pcs : Moves(t, at) /\ Follows(t, at)
    BY <1>9, ScanMoves DEF LockInv
  <2>2. UNCHANGED <<scanInProgress, activeUploads>>
    BY <1>9, Zenon
       DEF ScanStep, AuthOk, AuthRejected, AuthCrash, OnGiftsTab,
           ScanFailed, TriumphalSweep, ScanSucceeded, BeginCapture,
           CapturesOver, CleanupThrows, CollectLoggedIn, CollectThrows,
           MaintenanceAbort, ScanAborted
  <2> QED
    BY <1>9, <2>1, <2>2, MoveLock
<1>10. ASSUME NEW t \in Tasks, RecordRow(t) PROVE LockInv'
  BY <1>10, Unmoved DEF RecordRow
<1>11. ASSUME NEW t \in Tasks, CalibrateDone(t) PROVE LockInv'
  <2>1. Holding(task[t])
    BY <1>11, TrackOf DEF CalibrateDone, OnTrack, Holding
  <2> QED
    BY <1>11, <2>1, FinishLock DEF CalibrateDone, ReleaseLock
<1>12. ASSUME NEW t \in Tasks, FinishScan(t) PROVE LockInv'
  <2>1. Holding(task[t]) /\ scanInProgress' = FALSE /\ UNCHANGED activeUploads
    BY <1>12 DEF FinishScan, ReleaseLock, Holding, ScanPcs
  <2>2. CASE task[t].kind \in {"cycle", "scanAll"} /\ NextClan(t, task[t].kind, task[t].i + 1)
    BY <2>1, <2>2, NextClanLock
  <2>3. CASE Finish(t)
    BY <2>1, <2>3, FinishLock
  <2> QED
    BY <1>12, <2>2, <2>3 DEF FinishScan
<1>13. ASSUME NEW t \in Tasks, CycleReleased(t) PROVE LockInv'
  <2>1. ~Holding(task[t])
    BY <1>13, TrackOf
       DEF CycleReleased, OnTrack, Holding, ScanPcs, AuthPcs, SweepPcs
  <2>2. CASE Finish(t)
    BY <1>13, <2>1, <2>2, FinishLock DEF CycleReleased
  <2>3. CASE Await(t, "recycling")
    <3>1. Moves(t, "recycling")
      BY <2>3 DEF Moves, Put, Await, TasksTyped, TaskRecord
    <3>2. Follows(t, "recycling")
      BY <1>13 DEF CycleReleased, Follows
    <3> QED
      BY <1>13, <3>1, <3>2, MoveLock DEF CycleReleased
  <2> QED
    BY <1>13, <2>2, <2>3 DEF CycleReleased, EndTurn
<1>14. ASSUME NEW t \in Tasks, CycleRecycled(t) PROVE LockInv'
  <2>1. ~Holding(task[t])
    BY <1>14, TrackOf
       DEF CycleRecycled, OnTrack, Holding, ScanPcs, AuthPcs, SweepPcs
  <2> QED
    BY <1>14, <2>1, FinishLock DEF CycleRecycled, EndTurn
<1>15. ASSUME NEW t \in Tasks, NEW c \in Clans, ManualScan(t, c)
       PROVE  LockInv'
  <2> DEFINE r == [NoTask EXCEPT !.kind = "manual"]
  <2>1. r \in TaskRecord /\ r.kind = "manual"
    BY KindTyped DEF Kinds, WellFormed, NoTask
  <2>2. CASE BeginScan(t, r)
    BY <1>15, <2>1, <2>2, BeginScanLock DEF ManualScan
  <2>3. CASE EnsureLive(t, r, c) /\ UNCHANGED scanInProgress
    BY <1>15, <2>3, NoTaskTracked, EnsureLiveLock DEF ManualScan
  <2> QED
    BY <1>15, <2>2, <2>3 DEF ManualScan
<1>16. ASSUME NEW t \in Tasks, NEW c \in Clans, Collect(t, c)
       PROVE  LockInv'
  <2> DEFINE r == [NoTask EXCEPT !.kind = "collect"]
  <2>1. PICK q : Put(t, q) /\ q.kind = "collect" /\ q.pc \in {"closing", "collecting"}
    <3>1. CASE EnsureLive(t, r, c)
      <4>1. \E q : Put(t, q) /\ q.kind = "collect" /\ q.pc = "closing"
        BY <3>1, EnsureLivePuts, Zenon
      <4> QED
        BY <4>1
    <3>2. CASE Put(t, [r EXCEPT !.pc = "collecting", !.page = session])
      <4> DEFINE q == [r EXCEPT !.pc = "collecting", !.page = session]
      <4>1. q.kind = "collect" /\ q.pc = "collecting"
        BY DEF NoTask
      <4> QED
        BY <3>2, <4>1
    <3> QED
      BY <1>16, <3>1, <3>2 DEF Collect
  <2>2. OnTrack(q) /\ Holding(q)
    BY <2>1 DEF OnTrack, Holding
  <2>3. Driving(q) => ~(activeUploads > 0)
    BY <1>16, <2>1 DEF Collect, Driving, Busy, ScanPcs, AuthPcs, SweepPcs
  <2>4. ~scanInProgress /\ scanInProgress' = TRUE /\ UNCHANGED activeUploads
    BY <1>16, Zenon DEF Collect, Busy
  <2> QED
    BY <2>1, <2>2, <2>3, <2>4, TakesLock
<1>17. ASSUME Pause PROVE LockInv'
  BY <1>17, Unmoved DEF Pause
<1>18. ASSUME Resume PROVE LockInv'
  BY <1>18, Unmoved DEF Resume, DoResume
<1>19. ASSUME WatchdogFires PROVE LockInv'
  BY <1>19, Unmoved DEF WatchdogFires, DoResume
<1>20. ASSUME SetScanInterval PROVE LockInv'
  BY <1>20, Unmoved DEF SetScanInterval
<1>21. ASSUME UploadBegins PROVE LockInv'
  <2>1. ~scanInProgress /\ UNCHANGED <<task, scanInProgress>>
    BY <1>21, Zenon DEF UploadBegins
  <2>2. \A t \in Tasks : ~Holding(task[t])
    BY <2>1, Zenon DEF LockInv, SingleFlight, Holds
  <2>3. \A t \in Tasks : ~Driving(task[t])
    BY <2>2 DEF Driving, Holding
  <2> QED
    BY <2>1, <2>3, Zenon DEF LockInv, Tracked, SingleFlight, Holds, NoOverlap
<1>22. ASSUME UploadEnds PROVE LockInv'
  <2>1. activeUploads > 0 /\ UNCHANGED <<task, scanInProgress>>
    BY <1>22 DEF UploadEnds
  <2> QED
    BY <2>1, Zenon DEF LockInv, Tracked, SingleFlight, Holds, NoOverlap
<1>23. ASSUME Restart PROVE LockInv'
  BY <1>23, RebootLock DEF Restart
<1>24. CASE UNCHANGED vars
  BY <1>24, Unmoved DEF vars
<1> QED
  BY <1>1, <1>2, <1>3, <1>4, <1>5, <1>6, <1>7, <1>8, <1>9, <1>10, <1>11,
     <1>12, <1>13, <1>14, <1>15, <1>16, <1>17, <1>18, <1>19, <1>20, <1>21,
     <1>22, <1>23, <1>24
     DEF Next, EntryStep, TaskStep, ScanStep, Environment

LEMMA LockInvHolds == Spec => []LockInv
<1>1. Init => LockInv
  <2> SUFFICES ASSUME Init PROVE LockInv
    OBVIOUS
  <2>1. \A t \in Tasks : task[t] = NoTask
    BY DEF Init
  <2>2. Tracked
    BY <2>1, NoTaskTracked DEF Tracked
  <2>3. SingleFlight
    BY <2>1, NoTaskTracked, Zenon DEF SingleFlight, Holds, Init
  <2>4. NoOverlap
    BY <2>1, NoTaskTracked DEF NoOverlap
  <2> QED
    BY <2>2, <2>3, <2>4 DEF LockInv
<1>2. Typed /\ LockInv /\ [Next]_vars => LockInv'
  BY LockStep DEF Typed
<1> QED
  BY <1>1, <1>2, TypedHolds, PTL DEF Spec

\* At most one activation is inside the part of the code that drives the page,
\* and scanInProgress says whether one is, whatever is interleaved with it.
THEOREM LockIsExclusive == Spec => []SingleFlight
<1>1. LockInv => SingleFlight
  BY DEF LockInv
<1> QED
  BY <1>1, LockInvHolds, PTL

\* No scan or capture is under way while an upload holds a slot.
THEOREM UploadsAreExclusive == Spec => []UploadExclusion
<1>1. LockInv => UploadExclusion
  BY DEF LockInv, NoOverlap, UploadExclusion, Driving, Scanning
<1> QED
  BY <1>1, LockInvHolds, PTL

-----------------------------------------------------------------------------
(* The pause.                                                              *)

LEMMA PauseStep == PausedSchedulesNothing /\ [Next]_vars => PausedSchedulesNothing'
<1> SUFFICES ASSUME PausedSchedulesNothing, [Next]_vars PROVE PausedSchedulesNothing'
  OBVIOUS
<1> USE DEF PausedSchedulesNothing, Pending, pauseVars, sched, drive, disk
<1>1. ASSUME NEW t \in Tasks, ScanStep(t)
     PROVE  PausedSchedulesNothing'
  <2>1. CASE \E known \in BOOLEAN : MaintenanceAbort(t, known)
    <3>1. UNCHANGED <<started, running>>
      BY <2>1, Zenon DEF MaintenanceAbort
    <3>2. UNCHANGED timer \/ running
      BY <2>1, Zenon DEF MaintenanceAbort, Claims
    <3> QED
      BY <3>1, <3>2, Zenon
  <2>2. CASE UNCHANGED <<started, running, timer>>
    BY <2>2, Zenon
  <2> QED
    BY <1>1, <2>1, <2>2, Zenon
       DEF ScanStep, AuthOk, AuthRejected, AuthCrash, OnGiftsTab,
           RecordRow, ScanFailed, TriumphalSweep, ScanSucceeded,
           ScanAborted, BeginCapture, CapturesOver, CleanupThrows,
           CollectLoggedIn, CollectThrows, CalibrateDone
<1>2. ASSUME NEW t \in Tasks, CloseDone(t) \/ RelaunchOk(t) \/ CycleReleased(t) \/ CycleRecycled(t)
     PROVE  PausedSchedulesNothing'
  BY Zenon, <1>2
     DEF CloseDone, CloseBrowser, RelaunchOk, FreeBrowsers, CycleReleased,
         EndTurn, ScheduleIfRunning, Schedule, ScheduleAs, CycleRecycled
<1>3. ASSUME NEW t \in Tasks, LaunchOk(t)
     PROVE  PausedSchedulesNothing'
  BY Zenon, <1>3
     DEF LaunchOk, FreeBrowsers, ScanRefused, NextClan, SetActiveClan,
         EndTurn, ScheduleIfRunning, Schedule, ScheduleAs, BeginScan, Put
<1>4. ASSUME NEW t \in Tasks, LaunchFails(t)
     PROVE  PausedSchedulesNothing'
  <2>1. CASE Reboot
    BY <2>1, Zenon DEF Reboot
  <2>2. CASE UNCHANGED <<started, running, timer>>
    BY <2>2, Zenon
  <2> QED
    BY <1>4, <2>1, <2>2, Zenon DEF LaunchFails
<1>5. ASSUME NEW t \in Tasks, FinishScan(t)
     PROVE  PausedSchedulesNothing'
  BY Zenon, <1>5
     DEF FinishScan, ReleaseLock, NextClan, SetActiveClan, ScheduleIfRunning,
         Schedule, ScheduleAs
<1>6. ASSUME NEW t \in Tasks, Start(t)
     PROVE  PausedSchedulesNothing'
  BY Zenon, <1>6
     DEF Start, Schedule, ScheduleAs, RunCycle, BeginScan, NextClan,
         SetActiveClan, Put
<1>7. ASSUME NEW t \in Tasks, TimerFires(t)
     PROVE  PausedSchedulesNothing'
  BY Zenon, <1>7
     DEF TimerFires, Schedule, ScheduleAs, RunCycle, BeginScan, NextClan,
         SetActiveClan, Put
<1>8. ASSUME NEW t \in Tasks, ScanAll(t)
     PROVE  PausedSchedulesNothing'
  BY Zenon, <1>8
     DEF ScanAll, Schedule, ScheduleAs, RunCycle, BeginScan, NextClan,
         SetActiveClan, Put
<1>9. ASSUME NEW t \in Tasks, Calibrate(t)
     PROVE  PausedSchedulesNothing'
  BY Zenon, <1>9 DEF Calibrate
<1>10. ASSUME NEW t \in Tasks, NEW c \in Clans, ManualScan(t, c) \/ Collect(t, c)
     PROVE  PausedSchedulesNothing'
  BY Zenon, <1>10 DEF ManualScan, BeginScan, EnsureLive, SetActiveClan, Collect
<1>11. ASSUME Pause
     PROVE  PausedSchedulesNothing'
  BY Zenon, <1>11 DEF Pause
<1>12. ASSUME Resume
     PROVE  PausedSchedulesNothing'
  BY Zenon, <1>12 DEF Resume, DoResume, Schedule, ScheduleAs
<1>13. ASSUME WatchdogFires
     PROVE  PausedSchedulesNothing'
  <2>1. CASE DoResume
    BY <2>1, Zenon DEF DoResume
  <2>2. CASE UNCHANGED <<started, running, timer>>
    BY <2>2, Zenon
  <2> QED
    BY <1>13, <2>1, <2>2, Zenon DEF WatchdogFires
<1>14. ASSUME SetScanInterval
     PROVE  PausedSchedulesNothing'
  BY Zenon, <1>14 DEF SetScanInterval, Schedule, ScheduleAs
<1>15. ASSUME UploadBegins
     PROVE  PausedSchedulesNothing'
  BY Zenon, <1>15 DEF UploadBegins
<1>16. ASSUME UploadEnds
     PROVE  PausedSchedulesNothing'
  BY Zenon, <1>16 DEF UploadEnds
<1>17. ASSUME Restart
     PROVE  PausedSchedulesNothing'
  BY Zenon, <1>17 DEF Restart, Reboot
<1>18. CASE UNCHANGED vars
  BY Zenon, <1>18 DEF vars
<1> QED
  BY <1>1, <1>2, <1>3, <1>4, <1>5, <1>6, <1>7, <1>8, <1>9, <1>10, <1>11,
     <1>12, <1>13, <1>14, <1>15, <1>16, <1>17, <1>18
     DEF Next, EntryStep, TaskStep, Environment

\* Nothing re-arms the timer of a paused loop: not a scan that ends during the
\* pause, not a maintenance abort, not a change of the interval.
THEOREM PauseIsKept == Spec => []PausedSchedulesNothing
<1>1. Init => PausedSchedulesNothing
  BY Zenon DEF Init, PausedSchedulesNothing
<1> QED
  BY <1>1, PauseStep, PTL DEF Spec

-----------------------------------------------------------------------------
(* The next cycle.                                                         *)

\* No manual scan and no "scan all" takes the timer away.
LeftAlone == {"manual", "scanAll"} \cap Entries = {}

\* A cycle that will see whether the scheduling has been claimed, and one that
\* has seen that it has not.
Turns(r) == r.kind = "cycle" /\ r.pc # "recycling"
Recycles(r) == r.kind = "cycle" /\ r.pc = "recycling"

OwnKinds ==
  \A t \in Tasks : /\ task[t].kind \in {"none", "cycle", "calibrate", "collect"}
                   /\ task[t].kind = "none" => task[t].pc = "idle"

\* The timer is armed, or a cycle under way will arm it: one is bound to, unless
\* it is the only one to find the scheduling claimed.
Promised ==
  \/ Pending
  \/ \E t \in Tasks : Recycles(task[t])
  \/ \E t \in Tasks :
       /\ Turns(task[t])
       /\ skipNextScheduling => \E u \in Tasks \ {t} : Turns(task[u])

\* A claim is left by a cycle that is still to end.
ClaimHasCycle == skipNextScheduling => \E t \in Tasks : Turns(task[t])

PromiseInv == OwnKinds /\ (running => Promised) /\ ClaimHasCycle

\* Only task t changes.
OnlyMoves(t) == \A u \in Tasks \ {t} : task'[u] = task[u]

OwnKind(r) ==
  /\ r.kind \in {"none", "cycle", "calibrate", "collect"}
  /\ r.kind = "none" => r.pc = "idle"

LEMMA PutMoves ==
  ASSUME TasksTyped, NEW t \in Tasks, NEW r, Put(t, r)
  PROVE  OnlyMoves(t) /\ task'[t] = r
BY PutTask DEF OnlyMoves

LEMMA NoTaskKind == OwnKind(NoTask) /\ ~Turns(NoTask) /\ ~Recycles(NoTask)
BY DEF OwnKind, Turns, Recycles, NoTask

LEMMA KindsStay ==
  ASSUME OwnKinds, NEW t \in Tasks, OnlyMoves(t), OwnKind(task'[t])
  PROVE  OwnKinds'
BY DEF OwnKinds, OnlyMoves, OwnKind

\* A step of t that leaves the promise as it is.
LEMMA PromiseStays ==
  ASSUME PromiseInv, NEW t \in Tasks, OnlyMoves(t), OwnKind(task'[t]),
         Turns(task'[t]) <=> Turns(task[t]), Recycles(task'[t]) <=> Recycles(task[t]),
         UNCHANGED <<running, timer, skipNextScheduling>>
  PROVE  PromiseInv'
<1>1. \A u \in Tasks : Turns(task'[u]) <=> Turns(task[u])
  BY DEF OnlyMoves
<1>2. \A u \in Tasks : Recycles(task'[u]) <=> Recycles(task[u])
  BY DEF OnlyMoves
<1>3. OwnKinds'
  BY KindsStay DEF PromiseInv
<1>4. (running => Promised)'
  BY <1>1, <1>2, Zenon DEF PromiseInv, Promised, Pending
<1>5. ClaimHasCycle'
  BY <1>1, Zenon DEF PromiseInv, ClaimHasCycle
<1> QED
  BY <1>3, <1>4, <1>5 DEF PromiseInv

\* A cycle begins.
LEMMA PromiseBegins ==
  ASSUME PromiseInv, NEW t \in Tasks, OnlyMoves(t), OwnKind(task'[t]),
         ~Turns(task[t]), Turns(task'[t]), UNCHANGED skipNextScheduling
  PROVE  PromiseInv'
<1>1. OwnKinds'
  BY KindsStay DEF PromiseInv
<1>2. \A u \in Tasks : Turns(task[u]) => u # t /\ Turns(task'[u])
  BY DEF OnlyMoves
<1>3. Promised' /\ ClaimHasCycle'
  BY <1>2 DEF PromiseInv, Promised, ClaimHasCycle
<1> QED
  BY <1>1, <1>3 DEF PromiseInv

\* The tasks stay, and the timer is armed or was not needed.
LEMMA PromiseArmed ==
  ASSUME PromiseInv, UNCHANGED <<task, skipNextScheduling>>,
         running' => Pending' \/ (running /\ UNCHANGED timer)
  PROVE  PromiseInv'
BY DEF PromiseInv, OwnKinds, Promised, Pending, ClaimHasCycle

LEMMA NextClanTurns ==
  ASSUME TasksTyped, NEW t \in Tasks, NEW i, NextClan(t, "cycle", i)
  PROVE  OnlyMoves(t) /\ Turns(task'[t]) /\ OwnKind(task'[t])
<1>1. PICK at \in {"closing", "releasing"} : \E j : Put(t, Turn("cycle", at, j))
  BY DEF NextClan
<1>2. PICK j : Put(t, Turn("cycle", at, j))
  BY <1>1
<1>3. OnlyMoves(t) /\ task'[t] = Turn("cycle", at, j)
  BY <1>2, PutMoves
<1> QED
  BY <1>3 DEF Turn, Turns, OwnKind

LEMMA BeginScanTurns ==
  ASSUME TasksTyped, NEW t \in Tasks, NEW r \in TaskRecord, r.kind = "cycle", BeginScan(t, r)
  PROVE  OnlyMoves(t) /\ Turns(task'[t]) /\ OwnKind(task'[t])
<1> DEFINE q == [r EXCEPT !.pc = "auth", !.clan = clanId', !.page = session',
                          !.row = 0, !.threw = FALSE]
<1>1. Put(t, q)
  BY Zenon DEF BeginScan
<1>2. q.kind = "cycle" /\ q.pc = "auth"
  BY DEF TaskRecord
<1>3. OnlyMoves(t) /\ task'[t] = q
  BY <1>1, PutMoves
<1> QED
  BY <1>2, <1>3 DEF Turns, OwnKind

LEMMA RunCyclePromise ==
  ASSUME TasksTyped, PromiseInv, NEW t \in Tasks, task[t] = NoTask, NEW tm, NEW next,
         RunCycle(t, "cycle", tm, next), UNCHANGED skipNextScheduling
  PROVE  PromiseInv'
<1>1. CASE Schedule /\ UNCHANGED task
  BY <1>1, PromiseArmed DEF Schedule, ScheduleAs, Pending
<1>2. CASE NextClan(t, "cycle", 1)
  BY <1>2, NextClanTurns, NoTaskKind, PromiseBegins
<1>3. CASE BeginScan(t, [NoTask EXCEPT !.kind = "cycle", !.i = 1])
  <2> DEFINE r == [NoTask EXCEPT !.kind = "cycle", !.i = 1]
  <2>1. 1 \in 0..NClans
    BY ConstantsAssumption
  <2>2. r \in TaskRecord /\ r.kind = "cycle"
    BY <2>1, NoTaskWellFormed DEF WellFormed, NoTask, TaskRecord, Kinds
  <2> HIDE DEF r
  <2>3. BeginScan(t, r)
    BY <1>3 DEF r
  <2> QED
    BY <2>2, <2>3, BeginScanTurns, NoTaskKind, PromiseBegins
<1> QED
  BY <1>1, <1>2, <1>3 DEF RunCycle

\* A calibration or a collection comes and goes beside the cycles.
LEMMA OtherKind ==
  ASSUME TasksTyped, PromiseInv, NEW t \in Tasks, task[t].kind # "cycle",
         NEW r, Put(t, r), OwnKind(r), r.kind # "cycle",
         UNCHANGED <<running, timer, skipNextScheduling>>
  PROVE  PromiseInv'
<1>1. OnlyMoves(t) /\ task'[t] = r
  BY PutMoves
<1> QED
  BY <1>1, PromiseStays DEF Turns, Recycles

\* A task moves on, and is not one that goes to recycle.
LEMMA OtherAwait ==
  ASSUME PromiseInv, NEW t \in Tasks, NEW at, Moves(t, at), at # "recycling",
         task[t].pc # "recycling", task[t].pc # "idle",
         UNCHANGED <<running, timer, skipNextScheduling>>
  PROVE  PromiseInv'
<1>1. OnlyMoves(t) /\ OwnKind(task'[t])
  BY DEF Moves, OnlyMoves, OwnKind, PromiseInv, OwnKinds
<1>2. /\ Turns(task'[t]) <=> Turns(task[t])
      /\ Recycles(task'[t]) <=> Recycles(task[t])
  BY DEF Moves, Turns, Recycles
<1> QED
  BY <1>1, <1>2, PromiseStays

LEMMA PromiseStep ==
  ASSUME LeftAlone, TasksTyped, DataTyped, LockInv, PromiseInv, [Next]_vars
  PROVE  PromiseInv'
<1> USE DEF pauseVars, sched, drive, disk
<1>1. ASSUME NEW t \in Tasks, Start(t) PROVE PromiseInv'
  <2>1. CASE RunCycle(t, "cycle", timer, TRUE)
    BY <1>1, <2>1, RunCyclePromise DEF Start
  <2>2. CASE UNCHANGED task /\ Pending'
    BY <1>1, <2>2, PromiseArmed DEF Start
  <2> QED
    BY <1>1, <2>1, <2>2 DEF Start, Schedule, ScheduleAs, Pending
<1>2. ASSUME NEW t \in Tasks, TimerFires(t) PROVE PromiseInv'
  <2>1. CASE running
    BY <1>2, <2>1, RunCyclePromise DEF TimerFires
  <2>2. CASE ~running
    BY <1>2, <2>2, PromiseArmed DEF TimerFires
  <2> QED
    BY <2>1, <2>2
<1>3. ASSUME NEW t \in Tasks, ScanAll(t) \/ \E c \in Clans : ManualScan(t, c) PROVE FALSE
  BY <1>3 DEF ScanAll, ManualScan, LeftAlone
<1>4. ASSUME NEW t \in Tasks, NEW k \in {"calibrate", "collect"}, task[t] = NoTask,
             NEW c \in Clans,
             \/ EnsureLive(t, [NoTask EXCEPT !.kind = k], c)
             \/ \E at \in {"calibrating", "collecting"} :
                  Put(t, [[NoTask EXCEPT !.kind = k] EXCEPT !.pc = at, !.page = session]),
             UNCHANGED <<running, timer, skipNextScheduling>>
     PROVE PromiseInv'
  <2>1. PICK q : Put(t, q) /\ q.kind = k
    <3>1. CASE EnsureLive(t, [NoTask EXCEPT !.kind = k], c)
      BY <3>1, EnsureLivePuts, Zenon
    <3>2. ASSUME NEW at \in {"calibrating", "collecting"},
                 Put(t, [[NoTask EXCEPT !.kind = k] EXCEPT !.pc = at, !.page = session])
          PROVE  \E q : Put(t, q) /\ q.kind = k
      <4>1. [[NoTask EXCEPT !.kind = k] EXCEPT !.pc = at, !.page = session].kind = k
        BY DEF NoTask
      <4> QED
        BY <3>2, <4>1, Zenon
    <3> QED
      BY <1>4, <3>1, <3>2
  <2>2. OwnKind(q) /\ q.kind # "cycle" /\ task[t].kind # "cycle"
    BY <1>4, <2>1 DEF OwnKind, NoTask
  <2> QED
    BY <1>4, <2>1, <2>2, OtherKind
<1>5. ASSUME NEW t \in Tasks, Calibrate(t) PROVE PromiseInv'
  BY <1>4, <1>5 DEF Calibrate, DataTyped
<1>6. ASSUME NEW t \in Tasks, NEW c \in Clans, Collect(t, c) PROVE PromiseInv'
  BY <1>4, <1>6 DEF Collect
<1>7. ASSUME NEW t \in Tasks, CloseDone(t) PROVE PromiseInv'
  <2>1. PICK at \in {"launching", "relaunching", "finishing"} : Await(t, at)
    BY <1>7 DEF CloseDone
  <2>2. Moves(t, at)
    BY <2>1 DEF Moves, Put, Await, TasksTyped, TaskRecord
  <2> QED
    BY <1>7, <2>2, OtherAwait DEF CloseDone
<1>8. ASSUME NEW t \in Tasks, LaunchOk(t) PROVE PromiseInv'
  <2>0. OwnKind(task[t]) /\ task[t].pc = "launching"
    BY <1>8 DEF LaunchOk, PromiseInv, OwnKinds, OwnKind
  <2>1. ASSUME NEW at \in {"calibrating", "collecting"},
               Put(t, [task[t] EXCEPT !.page = session', !.pc = at]), UNCHANGED timer
        PROVE  PromiseInv'
    <3>1. Moves(t, at)
      BY <2>1 DEF Moves, Put, TasksTyped, TaskRecord
    <3> QED
      BY <1>8, <2>0, <2>1, <3>1, OtherAwait DEF LaunchOk
  <2>2. ASSUME task[t].kind = "cycle", Turns(task'[t]), OnlyMoves(t), OwnKind(task'[t]),
               UNCHANGED timer
        PROVE  PromiseInv'
    BY <1>8, <2>0, <2>2, PromiseStays DEF LaunchOk, Turns, Recycles
  <2>3. CASE task[t].kind = "cycle" /\ BeginScan(t, task[t]) /\ UNCHANGED timer
    BY <2>2, <2>3, TaskTyped, BeginScanTurns
  <2>4. CASE task[t].kind = "cycle" /\ NextClan(t, "cycle", task[t].i + 1) /\ UNCHANGED timer
    BY <2>2, <2>4, NextClanTurns
  <2> QED
    BY <1>8, <2>0, <2>1, <2>3, <2>4 DEF LaunchOk, ScanRefused, OwnKind
<1>9. ASSUME Reboot PROVE PromiseInv'
  <2>1. \A t \in Tasks : task'[t] = NoTask
    BY <1>9 DEF Reboot
  <2>2. ~running' /\ ~skipNextScheduling'
    BY <1>9, Zenon DEF Reboot
  <2> QED
    BY <2>1, <2>2, NoTaskKind DEF PromiseInv, OwnKinds, OwnKind, ClaimHasCycle
<1>10. ASSUME NEW t \in Tasks, Finish(t), task[t].kind \in {"calibrate", "collect"},
              UNCHANGED <<running, timer, skipNextScheduling>>
       PROVE  PromiseInv'
  BY <1>10, OtherKind, NoTaskKind DEF Finish, NoTask
<1>11. ASSUME NEW t \in Tasks, RelaunchOk(t) PROVE PromiseInv'
  <2>1. Moves(t, "auth2")
    BY <1>11 DEF RelaunchOk, Moves, Put, TasksTyped, TaskRecord
  <2> QED
    BY <1>11, <2>1, OtherAwait DEF RelaunchOk
<1>12. ASSUME NEW t \in Tasks, LaunchFails(t) PROVE PromiseInv'
  <2>1. CASE task[t].kind = "calibrate" /\ Finish(t) /\ UNCHANGED <<pauseVars, sched>>
    BY <1>10, <2>1
  <2>2. CASE /\ Put(t, [task[t] EXCEPT !.pc = "finishing", !.threw = TRUE])
             /\ UNCHANGED <<pauseVars, sched>>
    <3>1. Moves(t, "finishing")
      BY <2>2 DEF Moves, Put, TasksTyped, TaskRecord
    <3> QED
      BY <1>12, <2>2, <3>1, OtherAwait DEF LaunchFails
  <2>3. task[t].kind \notin {"scanAll", "manual"}
    BY DEF PromiseInv, OwnKinds
  <2> QED
    BY <1>9, <1>12, <2>1, <2>2, <2>3 DEF LaunchFails
<1>13. ASSUME NEW t \in Tasks, ScanStep(t), ~RecordRow(t), ~CalibrateDone(t)
       PROVE  PromiseInv'
  <2>1. PICK at \in Pcs : Moves(t, at) /\ Follows(t, at)
    BY <1>13, ScanMoves DEF LockInv
  <2>2. task[t].pc \in ScanPcs \cup {"collecting"}
    BY <1>13
       DEF ScanStep, AuthOk, AuthRejected, AuthCrash, OnGiftsTab, ScanFailed, TriumphalSweep,
           ScanSucceeded, BeginCapture, CapturesOver, CleanupThrows, CollectLoggedIn,
           CollectThrows, MaintenanceAbort, ScanAborted, ScanPcs, AuthPcs, SweepPcs
  <2>3. at # "recycling" /\ task[t].pc \notin {"recycling", "idle"}
    BY <2>1, <2>2 DEF Follows, ScanPcs, AuthPcs, SweepPcs
  <2>4. CASE UNCHANGED <<pauseVars, sched>>
    BY <2>1, <2>3, <2>4, OtherAwait
  <2>5. ASSUME NEW known \in BOOLEAN, MaintenanceAbort(t, known) PROVE PromiseInv'
    <3>1. CASE UNCHANGED sched
      BY <2>1, <2>3, <2>5, <3>1, OtherAwait DEF MaintenanceAbort
    <3>2. CASE ClaimScheduling
      <4>1. OnTrack(task[t]) /\ task[t].pc \in SweepPcs
        BY <2>5, TrackOf DEF MaintenanceAbort
      <4>2. task[t].kind = "cycle"
        BY <4>1 DEF OnTrack, SweepPcs, PromiseInv, OwnKinds
      <4>3. Turns(task'[t]) /\ OwnKind(task'[t]) /\ OnlyMoves(t)
        BY <2>1, <2>3, <4>2 DEF Moves, Turns, OwnKind, OnlyMoves
      <4>4. OwnKinds' /\ ClaimHasCycle'
        BY <4>3, KindsStay DEF PromiseInv, ClaimHasCycle
      <4>5. Promised'
        BY <3>2 DEF ClaimScheduling, ScheduleAs, Promised, Pending
      <4> QED
        BY <4>4, <4>5 DEF PromiseInv
    <3> QED
      BY <2>5, <3>1, <3>2 DEF MaintenanceAbort
  <2> QED
    BY <1>13, <2>4, <2>5, Zenon
       DEF ScanStep, AuthOk, AuthRejected, AuthCrash, OnGiftsTab, ScanFailed, TriumphalSweep,
           ScanSucceeded, BeginCapture, CapturesOver, CleanupThrows, CollectLoggedIn,
           CollectThrows, ScanAborted
<1>14. ASSUME NEW t \in Tasks, CalibrateDone(t) PROVE PromiseInv'
  <2>1. task[t].kind = "calibrate"
    BY <1>14, TrackOf DEF CalibrateDone, OnTrack
  <2> QED
    BY <1>10, <1>14, <2>1 DEF CalibrateDone
<1>15. ASSUME NEW t \in Tasks, FinishScan(t) PROVE PromiseInv'
  <2>1. OwnKind(task[t]) /\ task[t].pc = "finishing"
    BY <1>15 DEF FinishScan, PromiseInv, OwnKinds, OwnKind
  <2>2. CASE task[t].kind = "cycle" /\ NextClan(t, "cycle", task[t].i + 1) /\ UNCHANGED timer
    <3>1. OnlyMoves(t) /\ Turns(task'[t]) /\ OwnKind(task'[t])
      BY <2>2, NextClanTurns
    <3> QED
      BY <1>15, <2>1, <2>2, <3>1, PromiseStays DEF FinishScan, Turns, Recycles
  <2>3. CASE task[t].kind = "collect" /\ Finish(t) /\ UNCHANGED timer
    BY <1>10, <1>15, <2>3 DEF FinishScan
  <2> QED
    BY <1>15, <2>1, <2>2, <2>3 DEF FinishScan, OwnKind
<1>16. ASSUME NEW t \in Tasks, CycleReleased(t) PROVE PromiseInv'
  <2>1. Turns(task[t])
    BY <1>16, TrackOf DEF CycleReleased, OnTrack, PromiseInv, OwnKinds, Turns
  <2>2. ~skipNextScheduling' /\ UNCHANGED running
    BY <1>16, Zenon DEF CycleReleased
  <2>3. \/ Await(t, "recycling")
        \/ Finish(t) /\ (EndTurn(t) \/ (skipNextScheduling /\ UNCHANGED timer))
    BY <1>16 DEF CycleReleased, EndTurn
  <2>4. CASE Await(t, "recycling")
    <3>1. Moves(t, "recycling")
      BY <2>4 DEF Moves, Put, Await, TasksTyped, TaskRecord
    <3>2. OnlyMoves(t) /\ Recycles(task'[t]) /\ OwnKind(task'[t])
      BY <2>1, <3>1 DEF Moves, OnlyMoves, Recycles, Turns, OwnKind
    <3>3. Promised' /\ OwnKinds'
      BY <3>2, KindsStay DEF Promised, PromiseInv
    <3> QED
      BY <2>2, <3>3, Zenon DEF PromiseInv, ClaimHasCycle
  <2>5. CASE Finish(t) /\ (EndTurn(t) \/ (skipNextScheduling /\ UNCHANGED timer))
    <3>1. OnlyMoves(t) /\ task'[t] = NoTask
      BY <2>5, PutMoves DEF Finish
    <3>2. OwnKinds'
      BY <3>1, KindsStay, NoTaskKind DEF PromiseInv
    <3>3. CASE EndTurn(t)
      <4>1. running' => Pending'
        BY <3>3 DEF EndTurn, ScheduleIfRunning, Schedule, ScheduleAs, Pending
      <4> QED
        BY <2>2, <3>2, <4>1, Zenon DEF PromiseInv, ClaimHasCycle, Promised
    <3>4. CASE skipNextScheduling /\ UNCHANGED timer
      <4>1. \A u \in Tasks \ {t} : task'[u] = task[u]
        BY <3>1 DEF OnlyMoves
      <4>2. (running => Promised)'
        BY <2>1, <2>2, <3>4, <4>1 DEF PromiseInv, Promised, Pending, Turns, Recycles
      <4> QED
        BY <2>2, <3>2, <4>2, Zenon DEF PromiseInv, ClaimHasCycle
    <3> QED
      BY <2>5, <3>3, <3>4
  <2> QED
    BY <2>3, <2>4, <2>5
<1>17. ASSUME NEW t \in Tasks, CycleRecycled(t) PROVE PromiseInv'
  <2>1. OnlyMoves(t) /\ task'[t] = NoTask
    BY <1>17, PutMoves DEF CycleRecycled, EndTurn, Finish
  <2>2. OwnKinds'
    BY <2>1, KindsStay, NoTaskKind DEF PromiseInv
  <2>3. (running => Promised)'
    BY <1>17 DEF CycleRecycled, EndTurn, ScheduleIfRunning, Schedule, ScheduleAs, Promised,
                 Pending
  <2>4. ~Turns(task[t])
    BY <1>17 DEF CycleRecycled, Turns
  <2>5. ClaimHasCycle'
    BY <1>17, <2>1, <2>4 DEF CycleRecycled, PromiseInv, ClaimHasCycle, OnlyMoves
  <2> QED
    BY <2>2, <2>3, <2>5 DEF PromiseInv
<1>18. ASSUME DoResume PROVE PromiseInv'
  BY <1>18, PromiseArmed DEF DoResume, Schedule, ScheduleAs, Pending
<1>19. CASE Environment
  <2>1. CASE UNCHANGED <<task, skipNextScheduling>> /\ (UNCHANGED <<running, timer>> \/ ~running')
    BY <2>1, PromiseArmed
  <2>2. CASE SetScanInterval
    BY <2>2, PromiseArmed DEF SetScanInterval, Schedule, ScheduleAs, Pending
  <2> QED
    BY <1>9, <1>18, <1>19, <2>1, <2>2
       DEF Environment, Pause, Resume, WatchdogFires, UploadBegins, UploadEnds, Restart
<1>20. CASE UNCHANGED vars \/ \E t \in Tasks : RecordRow(t)
  BY <1>20, PromiseArmed DEF vars, RecordRow
<1>21. ASSUME NEW t \in Tasks, TaskStep(t) PROVE PromiseInv'
  BY <1>7, <1>8, <1>11, <1>12, <1>13, <1>14, <1>15, <1>16, <1>17, <1>20, <1>21
     DEF TaskStep, ScanStep
<1> QED
  BY <1>1, <1>2, <1>3, <1>5, <1>6, <1>19, <1>20, <1>21 DEF Next, EntryStep

\* Unless an operator takes the timer away for a scan of his own, a loop that runs
\* and does nothing has its next cycle pending: whatever the order in which cycles
\* that overlap claim the scheduling and find it claimed, and whatever is paused,
\* resumed, reconfigured or restarted meanwhile.
THEOREM NextCycleIsPending == ASSUME LeftAlone PROVE Spec => []NeverStranded
<1>1. Init => PromiseInv
  <2> SUFFICES ASSUME Init PROVE PromiseInv
    OBVIOUS
  <2>1. \A t \in Tasks : task[t] = NoTask
    BY DEF Init
  <2>2. ~running /\ ~skipNextScheduling
    BY Zenon DEF Init
  <2> QED
    BY <2>1, <2>2, NoTaskKind DEF PromiseInv, OwnKinds, OwnKind, ClaimHasCycle
<1>2. Typed /\ LockInv /\ PromiseInv /\ [Next]_vars => PromiseInv'
  BY PromiseStep DEF Typed
<1>3. PromiseInv => NeverStranded
  BY NoTaskKind DEF PromiseInv, Promised, NeverStranded
<1> QED
  BY <1>1, <1>2, <1>3, TypedHolds, LockInvHolds, PTL DEF Spec

-----------------------------------------------------------------------------
(* The rotation, left to itself.                                           *)

\* Nobody scans, captures, pauses or reconfigures beside the cycles, and no
\* maintenance arms the timer during one.
Undisturbed == Entries \subseteq {"upload", "launchFails", "restart"}

\* The browser the variables are about: the session field lags behind while a
\* relaunched browser is checked.
Driven(r) == IF r.pc = "auth2" THEN r.page ELSE session

\* What the one activation r there is has captured agrees with the variables.
InStep(r) ==
  /\ \A b \in Browsers : Open(b) =>
       /\ b = Driven(r)
       /\ r.pc # "closing" => browser[b] = clanId
       /\ r.pc \notin {"launching", "relaunching"}
  /\ r.pc \notin {"idle", "releasing", "recycling"} => r.clan = clanId
  /\ r.pc \notin {"idle", "auth2"} => r.page = session
  /\ r.row \in {0, clanId}
  /\ r.row # 0 => r.pc \in SweepPcs

Alone(t) == \A u \in Tasks \ {t} : task[u] = NoTask

Quiet == InStep(NoTask) /\ \A t \in Tasks : task[t] = NoTask

\* A cycle runs, and nothing starts another.
Cycling(t) ==
  /\ Alone(t) /\ InStep(task[t])
  /\ task[t].kind = "cycle" /\ started /\ ~Pending

Rotating ==
  /\ ~pauseWatchdog /\ (~started => ~Pending)
  /\ Quiet \/ \E t \in Tasks : Cycling(t)

RotationInv == Rotating /\ RowsMatchAccount /\ NoOrphanedSession

\* The disk, as a step of the browser or the lock leaves it.
DiskKept == UNCHANGED <<rows, orphaned>>

LEMMA RebootQuiet ==
  ASSUME Reboot, RotationInv PROVE RotationInv'
<1>1. Quiet'
  BY DEF Reboot, Quiet, InStep, Driven, Open, NoTask
<1> QED
  BY <1>1 DEF Reboot, RotationInv, Rotating, Pending, RowsMatchAccount, NoOrphanedSession

LEMMA GoesOn ==
  ASSUME RotationInv, NEW t \in Tasks, OnlyMoves(t), Alone(t), InStep(task[t])',
         task'[t].kind = "cycle", started', ~Pending', ~pauseWatchdog', DiskKept
  PROVE  RotationInv'
<1>1. Cycling(t)'
  BY DEF Cycling, Alone, OnlyMoves
<1> QED
  BY <1>1 DEF RotationInv, Rotating, DiskKept, RowsMatchAccount, NoOrphanedSession

LEMMA GoesQuiet ==
  ASSUME RotationInv, NEW t \in Tasks, OnlyMoves(t), Alone(t), task'[t] = NoTask,
         InStep(NoTask)', started', ~pauseWatchdog', DiskKept
  PROVE  RotationInv'
<1>1. Quiet'
  BY DEF Quiet, Alone, OnlyMoves
<1> QED
  BY <1>1 DEF RotationInv, Rotating, DiskKept, RowsMatchAccount, NoOrphanedSession

\* The next clan's turn begins with the browser of the last one open, or none.
LEMMA TurnInStep ==
  ASSUME TasksTyped, NEW t \in Tasks, NEW i, NextClan(t, "cycle", i),
         session' \in Browsers,
         \A b \in Browsers : browser'[b] # 0 => b = session' /\ browser'[b] = clanId
  PROVE  OnlyMoves(t) /\ InStep(task[t])' /\ task'[t].kind = "cycle"
<1>1. CASE \E j \in ClansLeft(i) : SetActiveClan(j) /\ Put(t, Turn("cycle", "closing", j))
  <2>1. PICK j \in ClansLeft(i) : SetActiveClan(j) /\ Put(t, Turn("cycle", "closing", j))
    BY <1>1
  <2>2. OnlyMoves(t) /\ task'[t] = Turn("cycle", "closing", j)
    BY <2>1, PutMoves
  <2> QED
    BY <2>1, <2>2 DEF SetActiveClan, Turn, InStep, Driven, Open, SweepPcs
<1>2. CASE clanId' = clanId /\ Put(t, Turn("cycle", "releasing", 0))
  <2>1. OnlyMoves(t) /\ task'[t] = Turn("cycle", "releasing", 0)
    BY <1>2, PutMoves
  <2> QED
    BY <1>2, <2>1 DEF Turn, InStep, Driven, Open, SweepPcs
<1> QED
  BY <1>1, <1>2 DEF NextClan

LEMMA ScanInStep ==
  ASSUME TasksTyped, NEW t \in Tasks, NEW r \in TaskRecord, r.kind = "cycle", BeginScan(t, r),
         \A b \in Browsers : browser'[b] # 0 => b = session' /\ browser'[b] = clanId'
  PROVE  OnlyMoves(t) /\ InStep(task[t])' /\ task'[t].kind = "cycle"
<1> DEFINE q == [r EXCEPT !.pc = "auth", !.clan = clanId', !.page = session',
                          !.row = 0, !.threw = FALSE]
<1>1. Put(t, q)
  BY Zenon DEF BeginScan
<1>2. /\ q.kind = "cycle" /\ q.pc = "auth" /\ q.clan = clanId' /\ q.page = session'
      /\ q.row = 0
  BY DEF TaskRecord
<1>3. OnlyMoves(t) /\ task'[t] = q
  BY <1>1, PutMoves
<1> HIDE DEF q
<1> QED
  BY <1>2, <1>3 DEF InStep, Driven, Open, SweepPcs

LEMMA RunCycleRotates ==
  ASSUME Typed, RotationInv, NEW t \in Tasks, task[t] = NoTask, Quiet,
         NEW tm, NEW next, RunCycle(t, "cycle", tm, next), tm \notin {"armed", "deferred"},
         started', ~pauseWatchdog', DiskKept, UNCHANGED <<session, browser>>
  PROVE  RotationInv'
<1>1. Alone(t)
  BY DEF Quiet, Alone
<1>2. \A b \in Browsers : browser'[b] # 0 => b = session' /\ browser'[b] = clanId
  BY DEF Quiet, InStep, Driven, Open, NoTask
<1>3. TasksTyped /\ session' \in Browsers
  BY DEF Typed, DataTyped
<1>4. CASE UNCHANGED <<task, clanId>>
  <2>1. Quiet'
    BY <1>4 DEF Quiet, InStep, Driven, Open
  <2> QED
    BY <2>1 DEF RotationInv, Rotating, DiskKept, RowsMatchAccount, NoOrphanedSession
<1>5. CASE timer' = tm /\ NextClan(t, "cycle", 1)
  BY <1>1, <1>2, <1>3, <1>5, TurnInStep, GoesOn DEF Pending
<1>6. CASE /\ timer' = tm /\ clanId' = clanId
           /\ BeginScan(t, [NoTask EXCEPT !.kind = "cycle", !.i = 1])
  <2> DEFINE r == [NoTask EXCEPT !.kind = "cycle", !.i = 1]
  <2>1. 1 \in 0..NClans
    BY ConstantsAssumption
  <2>2. r \in TaskRecord /\ r.kind = "cycle"
    BY <2>1, NoTaskWellFormed DEF WellFormed, NoTask, TaskRecord, Kinds
  <2> HIDE DEF r
  <2>3. BeginScan(t, r)
    BY <1>6 DEF r
  <2> QED
    BY <1>1, <1>2, <1>3, <1>6, <2>2, <2>3, ScanInStep, GoesOn DEF Pending
<1> QED
  BY <1>4, <1>5, <1>6 DEF RunCycle

\* A step of the one cycle that changes its record only, or also the session.
LEMMA CycleMoves ==
  ASSUME RotationInv, TasksTyped, NEW t \in Tasks, Cycling(t), NEW r, Put(t, r),
         r.kind = task[t].kind, InStep(task[t])',
         UNCHANGED <<pauseVars, sched, rows, orphaned>>
  PROVE  RotationInv'
<1>1. OnlyMoves(t) /\ task'[t] = r
  BY PutMoves
<1> QED
  BY <1>1, GoesOn DEF Cycling, RotationInv, Rotating, DiskKept, pauseVars, sched, Pending

LEMMA CycleFields ==
  ASSUME Typed, NEW t \in Tasks, Cycling(t)
  PROVE  /\ task[t] \in TaskRecord /\ TasksTyped /\ task[t].kind = "cycle" /\ InStep(task[t])
         /\ \A b \in Browsers : browser[b] # 0 =>
              /\ b = Driven(task[t])
              /\ task[t].pc # "closing" => browser[b] = clanId
              /\ task[t].pc \notin {"launching", "relaunching"}
         /\ session \in Browsers /\ browser \in [Browsers -> 0..NClans] /\ clanId \in Clans
         /\ task[t].pc # "idle" => task[t].page \in Browsers
BY TaskTyped DEF Typed, DataTyped, Cycling, InStep, Open

LEMMA BrowserRotates ==
  ASSUME Undisturbed, Typed, RotationInv, NEW t \in Tasks, Cycling(t),
         CloseDone(t) \/ LaunchOk(t) \/ RelaunchOk(t) \/ LaunchFails(t)
  PROVE  RotationInv'
<1> USE CycleFields DEF pauseVars, sched, drive, disk
<1>1. CASE CloseDone(t)
  <2>1. PICK at \in {"launching", "relaunching", "finishing"} :
          /\ Put(t, [task[t] EXCEPT !.pc = at])
          /\ at = "finishing" <=> task[t].pc = "authFailed"
    BY <1>1 DEF CloseDone, Await
  <2>2. /\ task'[t] = [task[t] EXCEPT !.pc = at]
        /\ \A b \in Browsers : browser'[b] = 0
    BY <1>1, <2>1, PutMoves DEF CloseDone, CloseBrowser, InStep, Driven
  <2>3. InStep(task[t])'
    BY <1>1, <2>1, <2>2 DEF CloseDone, InStep, Driven, Open, TaskRecord, SweepPcs
  <2> QED
    BY <1>1, <2>1, <2>3, CycleMoves DEF CloseDone, TaskRecord
<1>2. CASE LaunchOk(t)
  <2>1. /\ task[t].pc = "launching" /\ task[t].clan = clanId
        /\ session' \in Browsers
        /\ \A b \in Browsers : browser'[b] # 0 => b = session' /\ browser'[b] = clanId
    BY <1>2 DEF LaunchOk, FreeBrowsers, InStep
  <2>2. CASE BeginScan(t, task[t]) /\ UNCHANGED <<timer, clanId>>
    BY <1>2, <2>1, <2>2, ScanInStep, GoesOn
       DEF LaunchOk, Cycling, RotationInv, Rotating, DiskKept, Pending
  <2>3. CASE NextClan(t, "cycle", task[t].i + 1) /\ UNCHANGED timer
    BY <1>2, <2>1, <2>3, TurnInStep, GoesOn
       DEF LaunchOk, Cycling, RotationInv, Rotating, DiskKept, Pending
  <2> QED
    BY <1>2, <2>2, <2>3 DEF LaunchOk, ScanRefused
<1>3. CASE RelaunchOk(t)
  <2>1. PICK b \in Browsers :
          /\ browser' = [browser EXCEPT ![b] = task[t].clan]
          /\ Put(t, [task[t] EXCEPT !.pc = "auth2", !.page = b])
    BY <1>3 DEF RelaunchOk, FreeBrowsers
  <2>2. /\ task[t].pc = "relaunching" /\ task[t].clan = clanId /\ task[t].row = 0
        /\ \A a \in Browsers : browser'[a] # 0 => a = b /\ browser'[a] = clanId
    BY <1>3, <2>1 DEF RelaunchOk, InStep, SweepPcs
  <2>3. task'[t] = [task[t] EXCEPT !.pc = "auth2", !.page = b]
    BY <2>1, PutMoves
  <2>4. InStep(task[t])'
    BY <1>3, <2>2, <2>3 DEF RelaunchOk, InStep, Driven, Open, TaskRecord, SweepPcs
  <2> QED
    BY <1>3, <2>1, <2>4, CycleMoves DEF RelaunchOk, TaskRecord
<1>4. CASE LaunchFails(t)
  <2>1. CASE Reboot
    BY <2>1, RebootQuiet
  <2>2. CASE /\ task[t].pc = "relaunching"
             /\ Put(t, [task[t] EXCEPT !.pc = "finishing", !.threw = TRUE])
             /\ UNCHANGED <<pauseVars, sched, drive, disk>>
    <3>1. task'[t] = [task[t] EXCEPT !.pc = "finishing", !.threw = TRUE]
      BY <2>2, PutMoves
    <3>2. InStep(task[t])'
      BY <2>2, <3>1 DEF InStep, Driven, Open, TaskRecord, SweepPcs
    <3> QED
      BY <2>2, <3>2, CycleMoves DEF TaskRecord
  <2> QED
    BY <1>4, <2>1, <2>2 DEF LaunchFails
<1> QED
  BY <1>1, <1>2, <1>3, <1>4

\* A scan moves on with the clan, the browser and the row of this instant.
LEMMA ScanRotates ==
  ASSUME Undisturbed, Typed, LockInv, RotationInv, NEW t \in Tasks, Cycling(t), ScanStep(t)
  PROVE  RotationInv'
<1> USE CycleFields DEF pauseVars, sched, drive, disk
<1>0. task[t].pc \notin {"calibrating", "collecting"}
  BY TrackOf DEF OnTrack
<1>1. ASSUME NEW r \in TaskRecord, r.kind = "cycle", Put(t, r),
             r.pc \notin {"idle", "closing", "launching", "relaunching", "auth2", "releasing",
                          "recycling"},
             r.clan = clanId, r.page = session', r.row \in {0, clanId},
             r.row # 0 => r.pc \in SweepPcs,
             task[t].pc \notin {"closing", "launching", "relaunching"}, session' = Driven(task[t]),
             UNCHANGED <<pauseVars, sched, clanId, browser, rows, orphaned>>
     PROVE  RotationInv'
  <2>1. task'[t] = r
    BY <1>1, PutMoves
  <2>2. InStep(task[t])'
    BY <1>1, <2>1 DEF InStep, Driven, Open
  <2> QED
    BY <1>1, <2>2, CycleMoves
<1> DEFINE q == CloseRow(task[t])
<1>2. /\ q \in TaskRecord /\ q.kind = "cycle" /\ q.row = 0 /\ q.threw \in BOOLEAN
      /\ q.clan = task[t].clan /\ q.page = task[t].page /\ 0 \in 0..NClans
  BY ConstantsAssumption DEF CloseRow, TaskRecord, InStep
<1> HIDE DEF q
<1>3. ASSUME NEW threw \in BOOLEAN, Put(t, [q EXCEPT !.pc = "finishing", !.threw = threw]),
              task[t].pc \in SweepPcs,
              UNCHANGED <<pauseVars, sched, clanId, session, browser, rows, orphaned>>
       PROVE  RotationInv'
  <2> DEFINE r == [q EXCEPT !.pc = "finishing", !.threw = threw]
  <2>1. /\ r \in TaskRecord /\ r.kind = "cycle" /\ r.pc = "finishing"
        /\ r.clan = clanId /\ r.page = session /\ r.row = 0
    BY <1>2, <1>3 DEF InStep, TaskRecord, SweepPcs, Pcs, ScanPcs
  <2> HIDE DEF r
  <2>2. Put(t, r)
    BY <1>3 DEF r
  <2> QED
    BY <1>1, <1>3, <2>1, <2>2 DEF Driven, SweepPcs
<1>4. ASSUME NEW at \in {"finishing", "cleanup"}, Put(t, [q EXCEPT !.pc = at]),
              task[t].pc \in SweepPcs,
              UNCHANGED <<pauseVars, sched, clanId, session, browser, rows, orphaned>>
       PROVE  RotationInv'
  <2> DEFINE r == [q EXCEPT !.pc = at]
  <2>1. /\ r \in TaskRecord /\ r.kind = "cycle" /\ r.pc = at
        /\ r.clan = clanId /\ r.page = session /\ r.row = 0
    BY <1>2, <1>4 DEF InStep, TaskRecord, SweepPcs, Pcs, ScanPcs
  <2> HIDE DEF r
  <2>2. Put(t, r)
    BY <1>4 DEF r
  <2> QED
    BY <1>1, <1>4, <2>1, <2>2 DEF Driven, SweepPcs
<1> USE DEF InStep, Driven, TaskRecord, SweepPcs, Await
<1>5. CASE AuthOk(t)
  BY <1>1, <1>5 DEF AuthOk, Pcs, ScanPcs, Clans
<1>6. CASE AuthRejected(t)
  BY <1>1, <1>6 DEF AuthRejected, Pcs, ScanPcs, AuthPcs
<1>7. CASE AuthCrash(t)
  BY <1>1, <1>7 DEF AuthCrash, Pcs, ScanPcs, AuthPcs
<1>8. CASE OnGiftsTab(t)
  BY <1>1, <1>8 DEF OnGiftsTab, Pcs, ScanPcs, Clans
<1>9. CASE RecordRow(t)
  <2>1. task[t].clan = clanId /\ browser[task[t].page] = clanId /\ clanId \in Clans
    BY <1>9 DEF RecordRow, Open
  <2>2. RowsMatchAccount'
    BY <1>9, <2>1 DEF RecordRow, RotationInv, RowsMatchAccount
  <2>3. Rotating' /\ NoOrphanedSession'
    BY <1>9 DEF RecordRow, RotationInv, Rotating, Quiet, Cycling, Alone, Open, Pending,
                NoOrphanedSession
  <2> QED
    BY <2>2, <2>3 DEF RotationInv
<1>10. CASE ScanFailed(t)
  BY <1>10, <1>4 DEF ScanFailed, q
<1>11. CASE TriumphalSweep(t)
  BY <1>1, <1>11 DEF TriumphalSweep, Pcs, ScanPcs, Clans
<1>12. CASE ScanSucceeded(t)
  BY <1>12, <1>4 DEF ScanSucceeded, q
<1>13. ASSUME NEW kicked \in BOOLEAN, ScanAborted(t, kicked) PROVE RotationInv'
  BY <1>13, <1>3, Zenon DEF ScanAborted, q
<1>14. CASE BeginCapture(t)
  BY <1>1, <1>14 DEF BeginCapture, Pcs, ScanPcs, Clans
<1>15. CASE CapturesOver(t)
  BY <1>1, <1>15 DEF CapturesOver, Pcs, ScanPcs
<1>16. CASE CleanupThrows(t)
  BY <1>1, <1>16 DEF CleanupThrows, Pcs, ScanPcs
<1> QED
  BY <1>0, <1>5, <1>6, <1>7, <1>8, <1>9, <1>10, <1>11, <1>12, <1>13, <1>14, <1>15, <1>16
     DEF ScanStep, MaintenanceAbort, Undisturbed, CollectLoggedIn, CollectThrows, CalibrateDone

LEMMA CycleEndRotates ==
  ASSUME Typed, RotationInv, NEW t \in Tasks, Cycling(t),
         FinishScan(t) \/ CycleReleased(t) \/ CycleRecycled(t)
  PROVE  RotationInv'
<1> USE CycleFields DEF pauseVars, sched, drive, disk
<1>1. CASE FinishScan(t)
  <2>1. task[t].pc = "finishing" /\ task[t].row = 0
    BY <1>1 DEF FinishScan, InStep, SweepPcs
  <2>2. NextClan(t, "cycle", task[t].i + 1) /\ UNCHANGED timer
    BY <1>1 DEF FinishScan
  <2>3. OnlyMoves(t) /\ InStep(task[t])' /\ task'[t].kind = "cycle"
    BY <1>1, <2>1, <2>2, TurnInStep DEF FinishScan, Driven
  <2>4. DiskKept
    BY <1>1, <2>1 DEF FinishScan, DiskKept
  <2> QED
    BY <1>1, <2>2, <2>3, <2>4, GoesOn DEF FinishScan, Cycling, RotationInv, Rotating, Pending
<1>2. CASE CycleReleased(t)
  <2>1. /\ task[t].pc = "releasing" /\ task[t].row = 0
        /\ \A b \in Browsers : browser'[b] = 0
    BY <1>2 DEF CycleReleased, CloseBrowser, InStep, Driven, SweepPcs
  <2>2. CASE Await(t, "recycling") /\ UNCHANGED timer
    <3>1. OnlyMoves(t) /\ task'[t] = [task[t] EXCEPT !.pc = "recycling"]
      BY <2>2, PutMoves DEF Await
    <3>2. InStep(task[t])' /\ task'[t].kind = "cycle"
      BY <1>2, <2>1, <3>1 DEF CycleReleased, InStep, Driven, Open, TaskRecord, SweepPcs
    <3> QED
      BY <1>2, <2>2, <3>1, <3>2, GoesOn
         DEF CycleReleased, Cycling, RotationInv, Rotating, DiskKept, Pending
  <2>3. CASE Finish(t)
    <3>1. OnlyMoves(t) /\ task'[t] = NoTask
      BY <2>3, PutMoves DEF Finish
    <3>2. InStep(NoTask)'
      BY <2>1 DEF InStep, Driven, Open, NoTask
    <3> QED
      BY <1>2, <3>1, <3>2, GoesQuiet DEF CycleReleased, Cycling, RotationInv, Rotating, DiskKept
  <2> QED
    BY <1>2, <2>2, <2>3 DEF CycleReleased, EndTurn
<1>3. CASE CycleRecycled(t)
  <2>1. OnlyMoves(t) /\ task'[t] = NoTask
    BY <1>3, PutMoves DEF CycleRecycled, EndTurn, Finish
  <2>2. InStep(NoTask)'
    BY <1>3 DEF CycleRecycled, InStep, Driven, Open, NoTask
  <2> QED
    BY <1>3, <2>1, <2>2, GoesQuiet DEF CycleRecycled, Cycling, RotationInv, Rotating, DiskKept
<1> QED
  BY <1>1, <1>2, <1>3

LEMMA NothingElseRuns ==
  ASSUME NEW t \in Tasks, task[t] = NoTask
  PROVE  ~TaskStep(t)
BY DEF TaskStep, ScanStep, CloseDone, LaunchOk, RelaunchOk, LaunchFails, AuthOk, AuthRejected,
       AuthCrash, OnGiftsTab, RecordRow, ScanFailed, TriumphalSweep, ScanSucceeded,
       MaintenanceAbort, ScanAborted, BeginCapture, CapturesOver, CleanupThrows,
       CollectLoggedIn, CollectThrows, CalibrateDone, FinishScan, CycleReleased,
       CycleRecycled, NoTask, SweepPcs

\* Who takes a step: the one cycle, the timer or the start of a quiet loop.
LEMMA WhoSteps ==
  ASSUME Undisturbed, RotationInv, NEW t \in Tasks, EntryStep(t) \/ TaskStep(t)
  PROVE  \/ Quiet /\ (Start(t) \/ TimerFires(t))
         \/ Cycling(t) /\ TaskStep(t)
<1>1. CASE Quiet
  <2>1. ~TaskStep(t)
    BY <1>1, NothingElseRuns DEF Quiet
  <2> QED
    BY <1>1, <2>1 DEF EntryStep, ScanAll, Calibrate, ManualScan, Collect, Undisturbed
<1>2. ASSUME NEW u \in Tasks, Cycling(u)
     PROVE  Cycling(t) /\ TaskStep(t)
  <2>1. ~EntryStep(t)
    BY <1>2 DEF EntryStep, Start, TimerFires, MayFire, Cycling, Pending, ScanAll, Calibrate,
                ManualScan, Collect, Undisturbed
  <2>2. u = t
    BY <1>2, <2>1, NothingElseRuns DEF Cycling, Alone
  <2> QED
    BY <1>2, <2>1, <2>2
<1> QED
  BY <1>1, <1>2 DEF RotationInv, Rotating

LEMMA RotationStep ==
  ASSUME Undisturbed, Typed, LockInv, RotationInv, [Next]_vars
  PROVE  RotationInv'
<1> USE DEF pauseVars, sched, drive, disk
<1>1. ASSUME NEW t \in Tasks, EntryStep(t) \/ TaskStep(t) PROVE RotationInv'
  <2>1. CASE Quiet /\ Start(t)
    <3>1. CASE UNCHANGED <<scanInProgress, clanId, task>>
      BY <2>1, <3>1
         DEF Start, Quiet, InStep, Driven, Open, RotationInv, Rotating, RowsMatchAccount,
             NoOrphanedSession
    <3>2. CASE RunCycle(t, "cycle", timer, TRUE)
      BY <2>1, <3>2, RunCycleRotates DEF Start, RotationInv, Rotating, Pending, DiskKept
    <3> QED
      BY <2>1, <3>1, <3>2 DEF Start
  <2>2. CASE Quiet /\ TimerFires(t)
    <3>1. started
      BY <2>2 DEF TimerFires, MayFire, RotationInv, Rotating, Pending
    <3>2. CASE UNCHANGED <<scanInProgress, clanId, task>>
      BY <2>2, <3>1, <3>2
         DEF TimerFires, Quiet, InStep, Driven, Open, RotationInv, Rotating, RowsMatchAccount,
             NoOrphanedSession
    <3>3. CASE RunCycle(t, "cycle", "fired", hasNextScanAt)
      BY <2>2, <3>1, <3>3, RunCycleRotates DEF TimerFires, RotationInv, Rotating, DiskKept
    <3> QED
      BY <2>2, <3>2, <3>3 DEF TimerFires
  <2>3. CASE Cycling(t) /\ TaskStep(t)
    BY <2>3, BrowserRotates, ScanRotates, CycleEndRotates DEF TaskStep
  <2> QED
    BY <1>1, <2>1, <2>2, <2>3, WhoSteps
<1>2. CASE Environment
  <2>1. CASE Restart
    BY <2>1, RebootQuiet DEF Restart
  <2>2. CASE UploadBegins \/ UploadEnds
    BY <2>2
       DEF UploadBegins, UploadEnds, RotationInv, Rotating, Quiet, Cycling, Alone, InStep,
           Driven, Open, Pending, RowsMatchAccount, NoOrphanedSession
  <2> QED
    BY <1>2, <2>1, <2>2
       DEF Environment, Pause, Resume, WatchdogFires, SetScanInterval, Undisturbed,
           RotationInv, Rotating
<1>3. CASE UNCHANGED vars
  BY <1>3
     DEF vars, RotationInv, Rotating, Quiet, Cycling, Alone, InStep, Driven, Open, Pending,
         RowsMatchAccount, NoOrphanedSession
<1> QED
  BY <1>1, <1>2, <1>3 DEF Next

LEMMA RotationHolds == ASSUME Undisturbed PROVE Spec => []RotationInv
<1>1. Init => RotationInv
  BY DEF Init, RotationInv, Rotating, Quiet, InStep, Driven, Open, NoTask, Pending,
         RowsMatchAccount, NoOrphanedSession
<1>2. Typed /\ LockInv /\ RotationInv /\ [Next]_vars => RotationInv'
  BY RotationStep
<1> QED
  BY <1>1, <1>2, TypedHolds, LockInvHolds, PTL DEF Spec

\* Left to itself, the rotation stamps every row with the clan whose account is open,
\* however many clans, and whatever browsers, launches, uploads and restarts do.
THEOREM RotationKeepsAccounts == ASSUME Undisturbed PROVE Spec => []RowsMatchAccount
<1>1. RotationInv => RowsMatchAccount
  BY DEF RotationInv
<1> QED
  BY <1>1, RotationHolds, PTL

\* It closes a browser before it launches the next one.
THEOREM RotationKeepsOneBrowser == ASSUME Undisturbed PROVE Spec => []OneBrowser
<1>1. RotationInv => OneBrowser
  BY DEF RotationInv, Rotating, Quiet, Cycling, InStep, OneBrowser
<1> QED
  BY <1>1, RotationHolds, PTL

\* Every scan is over with its session row completed or failed.
THEOREM RotationClosesSessions == ASSUME Undisturbed PROVE Spec => []NoOrphanedSession
<1>1. RotationInv => NoOrphanedSession
  BY DEF RotationInv
<1> QED
  BY <1>1, RotationHolds, PTL

\* Nobody closes the page of a scan but the scan itself.
THEOREM RotationKeepsPage == ASSUME Undisturbed PROVE Spec => PageKept
<1> DEFINE Kept(t) == Holds(t) /\ task'[t] = task[t] /\ task[t].page # NoPage
                        => (Open(task[t].page) => browser'[task[t].page] # 0)
<1>1. Typed /\ RotationInv /\ [Next]_vars => \A t \in Tasks : Kept(t)
  <2> SUFFICES ASSUME Typed, RotationInv, [Next]_vars, NEW t \in Tasks,
                      Holds(t), task'[t] = task[t], Open(task[t].page),
                      browser' # browser
               PROVE  FALSE
    BY DEF Open
  <2> USE DEF pauseVars, sched, drive, disk
  <2>1. Cycling(t)
    BY NoTaskTracked DEF RotationInv, Rotating, Quiet, Cycling, Alone, Holds
  <2>2. task[t] # NoTask /\ task[t].pc \in ScanPcs
    BY <2>1 DEF Cycling, Holds, Holding, NoTask
  <2>3. CASE Environment
    BY <2>2, <2>3
       DEF Environment, Pause, Resume, DoResume, WatchdogFires, SetScanInterval,
           UploadBegins, UploadEnds, Restart, Reboot
  <2>4. ASSUME NEW u \in Tasks, EntryStep(u) PROVE FALSE
    BY <2>4 DEF EntryStep, Start, TimerFires, ScanAll, Calibrate, ManualScan, Collect
  <2>5. ASSUME NEW u \in Tasks, TaskStep(u) PROVE FALSE
    <3>1. u = t
      BY <2>1, <2>5, NothingElseRuns DEF Cycling, Alone
    <3>2. CASE Reboot
      BY <2>2, <3>2 DEF Reboot
    <3>3. ~ScanStep(t) /\ ~FinishScan(t) /\ ~CycleRecycled(t)
      BY DEF ScanStep, AuthOk, AuthRejected, AuthCrash, OnGiftsTab, RecordRow, ScanFailed,
             TriumphalSweep, ScanSucceeded, MaintenanceAbort, ScanAborted, BeginCapture,
             CapturesOver, CleanupThrows, CollectLoggedIn, CollectThrows, CalibrateDone,
             FinishScan, CycleRecycled
    <3>4. ~LaunchOk(t) /\ ~CycleReleased(t)
      BY <2>2 DEF LaunchOk, CycleReleased, ScanPcs, AuthPcs, SweepPcs
    <3>5. ~CloseDone(t) /\ ~RelaunchOk(t)
      <4>1. task[t] \in TaskRecord
        BY TaskTyped DEF Typed
      <4>2. \A r : Put(t, r) => r = task[t]
        BY PutTask DEF Typed
      <4> QED
        BY <4>1, <4>2 DEF CloseDone, RelaunchOk, Await, TaskRecord
    <3> QED
      BY <2>5, <3>1, <3>2, <3>3, <3>4, <3>5 DEF TaskStep, LaunchFails
  <2> QED
    BY <2>3, <2>4, <2>5 DEF Next, vars
<1> QED
  BY <1>1, TypedHolds, RotationHolds, PTL DEF Spec, PageKept
=============================================================================
