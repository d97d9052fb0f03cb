# A verification model of TB Chest Counter

TLA+ modules that model the concurrent core of TB Chest Counter, the TLC
configurations that check them on small instances, and proofs that TLAPS checks
for every value of the constants. `PROJECT.json` maps every definition to the
source lines it stands for and lists every run, mutant, hazard and theorem.

TB Chest Counter is a self-hosted tracker for the gifts of Total Battle clans.
One Node process drives the game in a Chromium (Playwright), opens the gifts a
clan has received, reads them by OCR and keeps them in SQLite. It rotates
through several clans, each with its own game login. It runs in a container
that restarts it whenever it ends.

## 1. Inventory

### Parts, state, operations

| Part | State it keeps | Operations |
|---|---|---|
| Scan loop (`scheduler/loop.ts`) | `running`, timer and `nextScanAt`, `scanInProgress`, `skipNextScheduling`, the clan and the browser in use, pause watchdog | start, timer, manual scan, scan all, calibration screenshot, collect now, pause, resume, interval, might request |
| Scan of one clan (`executeScan`, `scan-pipeline.ts`, `scan-finalize.ts`) | the session row; crops, counters and errors of a sweep | navigate, capture phase, OCR phase, second tab, finalize |
| Resource upload lock (`utils/resource-upload-lock.ts`) | a counter | acquire, release |
| Login bridge (`web/login-bridge.ts`, session routes of `api.ts`) | session browser, launch in progress, generation, latch of the teardown, two timers, a socket; on disk a login per clan | start, save, cancel, attach, input, teardown |
| External loop (`scheduler/external-loop.ts`) | timer, `inFlight`, backfill progress per clan; "initial backfill done" per tracker | poll, initial backfill, on-demand backfill, restartClan |
| Resource capture (`resource-capture-phase.ts`, `resource-sweep-rules.ts`) | cursor per clan (row fingerprints, game day), batches, rows | sweep, insert, delete batch, save cursor |
| Members and merge rules (`member-repo.ts`, `merge-repo.ts`, `fuzzy.ts`) | members with a name, aliases and an active flag; rules; whose member a row is | four readers that find or create the member of a name; merge, rule, alias, rename, remove, restore, inactivity sweep |
| Discord bots (`discord/bot.ts`) | a client per token, a context per clan (timer, digest that waits); on disk what was sent last | start, stop, reload, ready and catch-up, timer, scan completed, fallback, send and record |
| Might and member capture | snapshots, roster | best-effort phases under the scan lock |
| Repositories, clan restore, backups | SQLite, files | synchronous statements and transactions |
| Points, performance, guards, event calendar | none (aggregations) | pure functions |
| Vision | models | text from pixels |
| Web server, authentication, front end | HTTP sessions, client state | request plumbing |

The full list, with the parts that are not modelled and why, is under
`components` in `PROJECT.json`.

### How the parts meet

- The process has one event loop: what stands between two `await`s is atomic,
  and everything else may run at an `await`. All the concurrency of the system
  is the interleaving of suspended activations.
- The timer, the HTTP routes and the login bridge all enter the scan loop. It
  excludes them from each other by a flag (`scanInProgress`), tested at one
  point and set at another.
- Upload routes test the flag and hold a counter that scans test in turn.
- The login bridge pauses the scan loop when it starts, and its teardown hook
  resumes it. Both use a Chromium, on separate profiles.
- A scan writes its rows as it reads them; an admin may delete the session it
  is writing to; a restart closes the sessions it finds open.
- The resource capture runs under the lock of the scan loop, but the admin
  routes that delete its batches do not.
- Settings routes discard a clan's external loop, or its bot, while calls of it
  are in flight; the discarded one's calls still come back.
- A scan, a might capture and a resource capture work from a copy of the roster
  and the merge rules; admins change both beside them.
- A completed scan releases the digests that wait for it.

### What is hard, and what correctness means

- *Interleaving*: one activation at a time drives the page; its rows carry the
  clan whose account is open; nobody closes its browser.
- *Scheduling*: a running loop always has a next cycle; a paused one has none;
  a scan that fails does not starve the clans after it.
- *Irreversible effects*: opening a gift destroys it in the game, so whatever
  has been opened must be recorded, though the recording comes much later and
  the browser may die between the two.
- *Aborts*: an aborted scan must not hide what it landed, and not report what
  it did not.
- *Teardown*: a browser that hangs must not take the bridge with it, and a
  session nobody watches must end.
- *Late answers*: what an earlier request or a discarded object still writes
  must not stay in place of what came after it.
- *Once, and in the end*: a game day is recorded once, closed and in full; a
  digest is posted once, after the scan it waits for, and is never forgotten.
- *Identity*: the rows of one player are at one member, whoever read the name
  and whatever was merged meanwhile.

`hazards` in `PROJECT.json` lists the places in the code where each can go
wrong, with the properties that would show it, or the reason none does.

## 2. Plan

| Order | Module | What | State |
|---|---|---|---|
| 1 | `ScanLoop` | the scheduler, every activation and fault | done |
| 2 | `ScanLoopProofs` | types, single flight, upload exclusion, pause; the next cycle is pending; the rotation's rows, browser and sessions | done |
| 3 | `ScanSession` over `ClaimLedger` | one scan, as an implementation of a ledger of claims | done |
| 4 | `ScanSessionProofs` | deletion, no rollback, failed means empty | done |
| 5 | `LoginBridge` | sessions, teardown, the pause of the loop | done |
| 6 | `ResourceCapture` | a game day is written once, closed and in full; marker, dates, deletion | done |
| 7 | `ExternalLoop` | polls, backfills, `restartClan`, late answers | done |
| 8 | `Digest` | the bots: one digest per rollover, after its scan | done |
| 9 | `Roster` | who a name belongs to, with merges beside the readers | done |
| 10 | `ExternalLoopProofs`, `ResourceCaptureProofs` | types; polling goes on, discarded loops start nothing; closed days, the marker's promise, repeats | done |
| 11 | `LoginBridgeProofs`, `DigestProofs` | types and `NeverLeftPaused`; next digest, repeats, waiting | done |
| 12 | `RosterProofs` | types, `MergedStaysMerged`, `NotSplit`, `ExactWins` | done |
| 13 | `ScanLedgerProofs` | types, `ClaimedIsRecorded`, `FoundIsRecorded`; the safety half of the refinement of `ClaimLedger` | done |
| 14 | Onboarding as an activation of `ScanLoop`; orphaned browsers of `LoginBridge` | two launchers of one profile; a start that fails during a latched teardown | open: needs a second loop |
| 15 | quality ladder, guards estimator, points board | pure modules | if worth it |

The order puts first what every other part depends on (the lock), then what
loses data when it is wrong (the scan), then what blocks the operator (the
bridge), then the parts that share nothing with them but the database. No module to be proved about has a RECURSIVE operator.

## 3. Modules

### ScanLoop

A *task* is one activation of an asynchronous entry point; its `pc` names the
await at which it is suspended, and its other fields what it captured in local
variables (the clan, the browser, the session row). Each handler is cut at its
awaits and nowhere else, so `FinishScan` for instance releases the lock, goes
on in `runCycle` and switches the clan in one step, as the code does.
Synchronous entry points (pause, resume, the watchdog, the interval, upload
slots) are single steps.

| Model | Code |
|---|---|
| `scanInProgress`, `running`, `timer`, `hasNextScanAt`, `skipNextScheduling`, `pauseWatchdog` | the fields of `ScanLoop` with those names |
| `clanId`, `session` | `this.clanId` (the clan new rows are stamped with) and `this.session` |
| `browser[b]` | the clan whose profile the Chromium `b` was launched with |
| `rows` | pairs of the clan a row is stamped with and the account it was read from |
| `Start`, `TimerFires`, `RunCycle`, `NextClan` | `start`, `scheduleNextCycle`, `runCycle` |
| `ManualScan`, `ScanAll`, `Calibrate`, `Collect` | `triggerManualScan`, `triggerManualScanAllClans`, `captureCalibrationScreenshot`, `collectResourcesNow` |
| `CloseDone`, `LaunchOk`, `RelaunchOk`, `LaunchFails` | `closeBrowser`, `launchForClan`, `relaunchBrowserSession` |
| `AuthOk` ... `ScanAborted`, `MaintenanceAbort` | `performAuthCheck`, `executeScan`, the finalizers |
| `BeginCapture`, `CapturesOver` | `captureMightBestEffort`, `captureResourcesBestEffort` |
| `Reboot` | the end of the process, for whatever reason; the disk survives |

A launch that throws inside a cycle is caught by nothing and ends the process
(`Reboot` in `LaunchFails`). A timer armed for the end of a maintenance window
is `"deferred"`: it is at least five minutes away and does not fire between
two awaits of seconds; when it fires during a sweep, `RunCycle` arms it again,
now without that restriction. The `await import('fs')` at the head of the
per-clan loop (`loop.ts:951`) is no cut: what may happen there may also happen
at the close that follows, and with one clan, where nothing follows,
`runSingleScan` tests the lock again.

Left out: the state machine and error counter (labels), the page parked after a
calibration, member capture inside a scan (ready clans have their members), the
might baseline flag, the needs-reauth flag, lengths of delays, errors of
`closeBrowser` (swallowed by the code).

### ScanSession and ClaimLedger

`ClaimLedger` says what a scan owes its clan: a chest that is claimed is
recorded, once and for good, and none is recorded before. `ScanSession` is the
code: `executeScan`, both phases of `scanCardsPipelined` on each tab, and both
finalizers.

A chest is a tab and a position. A click on Open claims the top chest and the
rest move up, so the claimed ones are a prefix and the tab is the number of its
top chest. A batch is a screenshot (a crop showing the `PerBatch` topmost
cards) and `PerBatch` clicks; the crops are read after the last batch. The
local variables of a sweep are reset when it ends (`FreshSweep`).

| Model | Code |
|---|---|
| `Begin`, `OnGiftsTab`, `NotOnGifts`, `NavigationThrows` | `executeScan` before the sweep |
| `Screenshot`, `NoCards`, `KickSeen`, `Click`, `BatchDone`, `CaptureEnds`, `CaptureThrows` | the capture phase |
| `ReadCrop`, `SweepRead`, `SweepKicked` | the OCR phase |
| `GiftsSwept`, `OnTriumphalTab`, `SwitchThrows`, `TriumphalSwept` | the second tab |
| `Succeed`, `Abort`, `Landed`, `Kept` | `finalizeScanSuccess`, `finalizeScanFailure`, `persistedChestCount` |
| `DeleteSession`, `Restart` | `DELETE /api/sessions/:id`, `failStalePendingSessions` |

`Faults` chooses what may go wrong. The refinement mapping takes `claimed` to
the prefix and `copies` to the number of rows of each chest.

### LoginBridge

A *request* is an HTTP request for start, save or cancel; its `pc` names its
await. `BeginTeardown` is the synchronous half of `teardown()`, `Release` the
end of the asynchronous one, after which the hook resumes the loop and the
request that waited, if any, goes on in the same step. `launchGeneration` is
kept as `watched`, the browser whose death events carry the current generation.
A browser may die or stop answering (`wedged`) at any time; a call to a wedged
browser ends only by its deadline. The scan loop is reduced to its two flags.

Left out: the GPU detour of a launch, Xvfb, the adaptive quality of the stream,
contents of messages, the roles that may call a route.

### ExternalLoop

One `ExternalLoop` object per clan polls a tracker; `restartClan` replaces it.
An *instance* is such an object, old or new, and a *call* is one coroutine
suspended inside `ingestSnapshot`. The tracker's content is a version number;
the etag it sends stands for it.

| Model | Code |
|---|---|
| `loop[c][i]`: `running`, `timer`, `inFlight`, `backfilling` | the fields of an `ExternalLoop` |
| `manager[c]` | the map of `ExternalLoopManager` |
| `snapshot`, `done`, `code`, `deleted` | the tables of snapshots, trackers, clans |
| `TimerFires`, `Continue` | `runOnce`, `runInitialBackfill`, `backfill` and what each does when its ingest returns |
| `Answered`, `NotModified`, `InsertSnapshot`, `IngestThrows` | the awaits of `ingestSnapshot` |
| `RestartClan` | `restartClan`: stop, discard, start another |
| `PutConfig`, `PutChestTracker`, `PostBackfill`, `PostFetch` | the routes |
| `DeleteClan`, `RestoreClan`, `UpstreamMoves`, `Reboot` | environment |

### ResourceCapture

The game's list of gifts of resources is read once a game day, from the top
down to the *marker* (the newest settled row of the last run), and what lies
between is inserted. Rows are dated by subtracting the age in the list's header
from the game date; header and game date turn at different hours (`LabelTick`,
`GameTick`).

| Model | Code |
|---|---|
| `rows`, `batches`, `cursor` | the tables; `cursor` is the marker with the game day of the last run |
| `run` | the local variables of `runResourceCapturePhase` |
| `StartRun` | the gate, the marker, the date floor |
| `SweepToMarker`, `SweepToEnd`, `SweepToFloor`, `SweepCutShort` | the reasons the sweep ends for |
| `Record`, `RecordFails`, `PersistCursor` | date alignment, withholding, the insert, its compensation, the marker |
| `ReportDryRun`, `NavigationFails`, `Restart` | early ends |
| `DeleteBatch` | `DELETE /batches/:batchId`, which also clears the marker |
| `Contribute` | the game merges a row into the list of today |

`Hazards` chooses whether runs take place at any hour and whether deletions
race with runs.

### Digest

A clan's *context* is its entry of `clans`; a *client* is the connection of a
token, which clans may share. Activations are cut at the awaits of Discord.

| Model | Code |
|---|---|
| `ctx[c]`: `timer`, `due`, `owes` | `ClanBotContext`: the digest timer, the digest that waits for a scan |
| `client[t]` | `clients`: logging in, ready, and its users |
| `reported`, `posts` | the app-config rows of what was sent; what the channel saw |
| `BootNext`, `Boot`, `PutDiscord` | `startDiscordBot`, `reloadClanBot` and the settings route |
| `LoginResolves`, `LoginFails`, `ClientReady`, `ReadyNext`, `Registered`, `Destroyed` | the awaits of `startClanBot`, `stopClanBot` and the ready handler |
| `DigestTimer`, `Fallback` | the timer of the rollover, the timer of the fallback |
| `OnClanScanCompleted`, `ScanBegins`, `ScanEnds` | `onClanScanCompleted` and the scans it follows |
| `Post`, `Record` | the sending of a digest up to its record |
| `Rollover`, `Crash` | environment |

Timers are late by less than a scan, a fallback or a day: a rollover waits for
the timers of the one before it (`Overdue`, `Settled`).

### Roster

A *name* is a spelling, up to case; `Key` drops spaces and punctuation as
`despace` does. `Near` says which spellings a matcher takes for one another by
distance, `Distance` which of them it prefers, and `Confused` which `ocrNormalize`
makes equal, for the gift scan alone. That a scan refuses the limit of the edit
budget to a reading it has met twice (`repeatedReadings`) is a choice. An activity copies the roster and the rules when it begins (`run`).

| Model | Code |
|---|---|
| `member`, `rule`, `holds` | the tables `members`, `merge_rules`, and whose member the rows of a reading are |
| `UpsertMember`, `Recognised` | `upsertMember` |
| `ApplyMergeRules`, `LoadMergeRules` | `applyMergeRulesCached`; a rule hit by its key gives whichever row the database lists first |
| `MatchKnownPlayer`, `ResolveMember`, `FuzzyMatchMember` | the three matchers |
| `ScanBegins`, `ReadCard`, `CropSaved`, `ScanEnds` | the OCR phase of a gift scan |
| `MightBegins`, `MightEnds`, `ResourcesBegin`, `ResourcesEnd` | the might capture and the resource capture |
| `CaptureMember` | `captureMembers` |
| `AddMergeRule`, `DeleteMergeRule`, `AddAlias`, `RenameMember`, `Deactivate`, `RestoreMember`, `Reassign` | the routes and the inactivity sweep |

`split` collects the names that the code is known to file at two members, so
that `NotSplit` can speak of all the others: names filed by distance, by
confused characters or by rules older than a merge that left no alias for them,
merged from or into a name nobody had, renamed, typed by an admin, freed of
their rule, made members again in spite of their rule (`Revived`), or filed
under one of these. `orphaned` collects the aliases that went with a member when
it was merged away. `MergedStaysMerged` speaks of neither.

A name is revived where the alias that a merge leaves does not reach. It is
looked up as it is spelled, so an activity whose rules are older than the merge
makes a member of another spacing of the merged name. And merges may be chained,
`a` into `b`, `b` into `c`, `c` into `d`: each deletion takes the aliases of the
member along (`merge-repo.ts:321`) and rules are applied once (`:614`), so that a
reading of `a` leads to `b`, which becomes a member again although its rows are
at `d`. The comments at `:130` ("stops future scans re-splitting the name") and
`:360` ("keeps fixing them") do not mention it. The attempt to prove `NotSplit`
without the excuse led to it, and TLC then showed it with four names.

`Given` is what an activity decides about a reading: for a gift scan when the
card is read, since saving the crop only carries it out, for the captures when
the row is stored.

## 4. Runs

### Passing

| Run | Instance | What it shows |
|---|---|---|
| `rotation` | 3 clans, 2 tasks, uploads, failing launches, restarts; liveness | rows match the account, one browser, no page closed under its user, every row closed; every clan scanned for ever if uploads end and the process stays up |
| `operators` | 1 clan, every operator action, fault and restart | one activation at most holds the page, none beside an upload, a paused loop stays without a timer |
| `maintenance` | 2 clans, maintenance with calibration, collection, uploads, restarts | the next cycle is pending whenever the loop is idle, also when a special case has claimed the scheduling |
| `session_ledger` | 5 + 2 chests, batches of 2, 2 scans, faults that lose nothing | `ScanSession` implements `ClaimLedger`; every scan ends |
| `session_early_end` | 3 + 1 chests, every early end of a sweep | what was claimed is recorded once the scan is over |
| `session_rows` | 2 + 1 chests, kicks, OCR and database failures, deletion, restart | failed means nothing landed, `chests_found` is what is recorded, a deleted session stays empty, nothing is rolled back |
| `login_bridge` | 2 requests, 2 browsers, 1 clan; liveness | the loop runs again once the bridge is at rest; teardowns and sessions end |
| `external_loop` | 2 clans, 1 code, 2 instances, 2 calls, 2 weeks, 2 contents, 2 events; liveness | a polling loop never runs dry, a discarded one begins no further ingest, what is stored converges to what the tracker shows |
| `resource_capture` | 4 days, 2 looks, 1 event; liveness | nothing below the marker is missing, only closed days are written, repeats have a reason, every day the list shows is recorded in the end |
| `digest` | 2 clans, 2 tokens, 1 rollover that ends a week, 1 event; liveness | the next digest is scheduled, none goes out twice without a known reason or before its scan, and each goes out |
| `roster` | 3 spellings of 2 players, 3 members, 3 readings a scan, 2 events | the rows of a player are at one member, an exact spelling goes to its owner, a merged spelling stays merged |

### Violations

A violation checks what a comment of the source says, and TLC shows a run of
the code that contradicts it.

| Run | What happens |
|---|---|
| `resource_delete_race` | An admin deletes a batch, and with it the marker, while a run is in flight. `persistCursor` then stores the marker the run read at its start: the deleted rows are below it and are never read again, which `resources.ts:278-280` says the clearing prevents. |

### Behaviours met and not given a run

*Scan loop*

- A launch that throws between two clans of a cycle (`loop.ts:1002`) is caught
  by nothing; the process ends, and the next one begins with clan 1. A clan
  whose launch always fails therefore starves the clans after it. TLC shows it
  when `EveryClanIsScanned` is stated without `started`: boot, close, a launch
  that fails, boot again. The property excludes a process that never stays up.
- `triggerManualScan` switches the clan and waits for the browser before it
  takes the lock (`loop.ts:771-785`). A second manual scan in between leaves
  `clanId` and the page at different clans, and rows are recorded under the
  wrong one. `RowsMatchAccount` is checked for the rotation only.
- A manual scan that throws has cancelled the pending cycle and schedules none:
  the loop is running, idle and without a timer.
- A maintenance abort arms the timer while the cycle goes on to the other
  clans; a second cycle may start between two of them and launch a second
  browser.
- A maintenance abort of a manual scan leaves `skipNextScheduling` set; the
  next cycle consumes it and ends without a timer. With two clans, of two
  overlapping cycles the one that ends first may consume the claim of the other
  after the timer has gone off; the other still schedules, so `NeverStranded`
  holds. (The `maintenance` run has no manual scans.)
- `pause()` refuses only while the lock is held; a cycle that is switching
  browsers goes on to scan after it (`loop.ts:989-1013`).
- The pause watchdog is not armed again when it finds a scan running
  (`loop.ts:401`).
- A calibration screenshot may take the lock while a cycle is switching; the
  cycle then closes its page.
- A cancel during a start resumes the loop and leaves the start going
  (`api.ts:454`).

*Scan of one clan*

- The crop of a batch is kept before its clicks; when one throws, the chests
  behind it are recorded though they are still on the tab, and recorded again
  by the next scan.
- A missed click records a card twice, and a kick between a screenshot and its
  clicks records unclaimed chests; the code documents both.

*Login bridge*

- A start that fails while an earlier teardown is latched leaves its Chromium
  behind: its own `teardown()` returns at once.
- `save()` takes its clan before it waits for the page to settle and the
  browser after it. If another clan's session has replaced its own meanwhile,
  that login lands in the first clan's file. The wait must outlast a cancel and
  a start: likely only when the first browser is wedged.

*External loop*

- A deleted clan's loop goes on, and since its settings are no longer found it
  polls the share code of clan 1 in its name (`external-loop.ts:157`;
  `clan-repo.ts:210-211` says that a deleted clan is invisible). A restored
  clan is not polled until its settings are saved or the process restarts.
- An initial backfill that is stopped half-way is marked done all the same
  (`external-loop.ts:363`), and the weeks it left are not fetched by itself.
- An answer older than another may be stored after it; the next poll repairs
  it, since its etag is then out of date (`Converges`).

*Resource capture*

- A run at another hour than the others (a collection on demand between
  midnight and 17:00 UTC) dates rows one day off, and withholds genuine rows of
  the shifted days as already held; `MarkerPromise` and `RepeatsAreExplained`
  then fail. The passing run keeps to the hours of the schedule.
- Two sweeps of a day that are both cut short, or a crash in the very first
  run, record rows twice.
- A list that stops moving is taken for its end, and a wrong row for the
  marker; both are readings of pixels and left out.

*Digests*

- A client that becomes ready while a digest is being sent catches up on it and
  posts it twice; so does a crash between the post and its record.
- A refused login leaves the clan's context behind; saving the same settings
  again takes the in-place path and does not log in.
- `stopClanBot` awaits the end of a client and then deletes it from the map,
  with a clan that attached to it meanwhile.
- A post that Discord refuses is recorded as sent.
- With a scan interval of half a day or more the fallback is a day or more away,
  and the next rollover replaces the digest that waits.

*Members*

- The gift scan applies the merge rules after it has matched by distance, and
  its matcher does not know aliases, although `merge-repo.ts` says the rules
  come first and that every read path honours an alias: a merged spelling that
  is close to another active player is filed there.
- A rename keeps no trace of the old name; a rule that leads to it creates a
  member of that name again.
- Aliases of a member are lost when it is merged into another; deleting a rule
  leaves the alias it made.
- `upsertMember` compares aliases as they are spelled, `exactMatchMember`
  without spaces.
- A merge into a name nobody has, while another spacing of it exists, leaves
  two members of one key; with circular or chained rules the result depends on
  the order in which the database lists them.
- A merge during a might capture makes its transaction fail on the foreign key,
  and the day is captured again; a merge while a crop is being saved loses the
  rest of that crop's cards.
- After an outage of the scanner the first completed scan satisfies the guard
  of the inactivity sweep, which then removes whoever is not in that one scan.

### Bounds, and why they are enough

- *Tasks = 2*: the hazards of the loop are between a suspended activation and
  one other. Single flight and the exclusions are proved for any number.
- *Browsers = 4* is one per place that can refer to one (the session, two
  tasks) and one to launch, so a launch is never refused for want of a name.
- *NClans*: 3 in `rotation`, so that there is a clan before, at and after the
  one that fails; 2 for maintenance and for mixing two accounts; 1 for
  `operators`, where every operator action and fault fits (single flight has
  also been checked with 2, and is proved for any number).
- *MaxUploads = 1*: the code tests for more than none.
- *Chests, PerBatch, MaxBatches*: the longest list (5, batches of 2, 3 batches)
  ends with a partial batch; with two batches the cap bites before the list
  ends. Two scans let the second meet what the first left.
- *SlowLimit* 1 or 2: below and at the cap on batches.
- *Requests = 2, Browsers = 2* for the bridge: an old session that is being
  released and a new one. With 2 clans instead of 1 (not a run: 6 million
  states) the same invariants hold.
- `external_loop`: a discarded loop and its successor, each with a call in
  flight; two events let settings be saved twice, or once beside a failure. Two
  clans on one code, so that an etag of one may be sent for the other. Two codes
  as well do not finish in the time of a run; one clan with two codes was checked
  beside it (3 events, 0.2 million states), and there a validator that is not
  kept by code violates `Converges`. Two contents, so that one may overtake the
  other; two weeks of backfill, so that it can be stopped between them.
- `resource_capture`: two rows a day are the `MinRun` of the code's marker and
  enough for an alignment; a list of four days is longer than the margin of the
  date floor. The race needs three days and two events (two deletions, or a
  deletion and a failure).
- `digest`: a rollover before which nothing, and after which a daily and a
  weekly digest is owed; clans on the same token or on different ones; two
  suspended activations, since the hazards are between a send and one other
  activation. One event: a crash, a failed login, post or record, or saved
  settings. The invariants are proved for any number of each.
- `roster`: two spacings of one player and a name close to one of them; three
  members, so that each spelling can have one; two events are a merge and
  something that undoes or repeats it; a fourth member adds no state. Checked beyond the run, to the
  end: 3 events with 1 reading (5.0 million states); 3 names of one key each, 4
  members, 1 reading (1.1 million), which it takes for one merge to follow
  another; 2 names, 4 events (0.3 million), each with the inductive invariant
  that the proofs use.
- Counters are bounded by guards of the code (`MAX_BATCHES`, `MaxUploads`);
  `MaxSessions` is a bound of the model.

Deadlock is checked for `ScanLoop`, which never stops. `ScanSession` ends after
`MaxSessions` scans, `ResourceCapture` and `Digest` after their last day,
`Roster` when its events and members are used up, and in `LoginBridge` and
`ExternalLoop` all may rest. Symmetry is used where only invariants and action
properties are checked, over interchangeable names of tasks, requests and
browsers.

### Fairness

- `ScanLoop`: timers go off, and each await of a task ends. The code gives
  every Playwright call, capture and close a deadline or catches it. Nothing
  is assumed of operators, uploads, the watchdog or restarts.
  `EveryClanIsScanned` is claimed only if uploads are over at last, since
  uploads that keep landing on one clan's turn do starve it, and if the process
  stays up from some time on: whoever ends it again and again, most of all a
  launch that always fails, keeps the rotation at its first clans.
- `ScanSession`: the scan goes on.
- `ExternalLoop`: timers go off, and requests end, since each carries a timeout.
  Nothing is assumed of admins, restarts or the tracker.
- `ResourceCapture`: the clocks tick and the scheduled capture of a day takes
  place before the day is over; its steps go on.
- `Digest`: one weak fairness condition on everything that goes on by itself:
  answers of Discord, timers, the clock, the process that the container
  restarts. Nothing is assumed of scans: a digest goes
  out without one. `login()` resolves before the client reports that it is
  ready, as in discord.js 14.
- `Roster`: none; it has safety properties only.
- `LoginBridge`: requests and teardowns go on since all their calls carry
  deadlines (`utils/deadline.ts`), and the session cap goes off. Nothing is
  assumed of the client, the idle timer or the browsers, which may hang for
  ever.

### Mutants

Every property of a passing run is violated by a mutant of the code
(definitions marked `Fault:`), for instance a latch waited for without a
deadline, crops dropped by an exception, a lock released only on success.

## 5. Proofs

All for every value of the constants, under the assumptions named in the
modules that declare them (`ConstantsAssumption`, `SessionAssumption`,
`BridgeAssumption`, `ExternalAssumption`, `CaptureAssumption`,
`DigestAssumption`, `RosterAssumption`), which say no more than the types of the
constants, that what must exist exists, and that names for nothing are not
names of something.

**ScanLoopProofs.** *TypeCorrect*: `TypeOK` is not inductive, since a task that
records a row needs the clan and browser it captured earlier; `WellFormed` adds
that. The proof goes in three parts (flags, data, tasks), one step per action.
*LockIsExclusive*, *UploadsAreExclusive*: single flight is not inductive
either. That a calibration or a collection holds the lock follows from what it
is and not from its await, so `OnTrack` says at which awaits each kind can be;
and an upload is kept out by `NoOverlap`, which covers a collection that has
not begun to scan. `LockInv` is the conjunction. Every step either keeps the
lock as it is (`KeepsLock`), takes it when it is free (`TakesLock`), or gives
it up (`DropsLock`), and the proof sorts the actions accordingly.
*PauseIsKept*: `PausedSchedulesNothing` is inductive; the one delicate case is
the maintenance abort, which claims the scheduling only if the loop runs.

*NextCycleIsPending*: `NeverStranded` looks at idle loops, so the invariant must
say who will arm the timer while one is busy. A cycle that ends arms it, unless
it finds `skipNextScheduling` set, which it then resets. So either the timer is
armed, or a cycle is past that question (`Recycles`), or one is before it
(`Turns`), and a second one too if the flag is set (`Promised`); and a set flag
belongs to a cycle still to end (`ClaimHasCycle`). Only manual scans and "scan
all", which take the timer away, are excluded (`LeftAlone`); the run
`maintenance` shows the same without pauses, interval changes and failing
launches.
*RotationKeepsAccounts*, *RotationKeepsOneBrowser*, *RotationClosesSessions* and
*RotationKeepsPage* are about the rotation with uploads, failing launches and
restarts only (`Undisturbed`); the other entry points may act, or arm the
timer, beside a cycle that is switching browsers (section 4). One cycle at most is suspended (`Cycling`), since nothing
arms the timer during it, and what it has captured agrees with the variables
(`InStep`): it has the clan of the instant, its browser is the only one open and
plays that clan, its open session row is of that clan.

**ScanSessionProofs.** Rows are inserted for the scan in progress, so its
status must be known while it runs (`Live`), sessions not begun or deleted must
have no rows (`NoStrayRows`), and the two places that fail a scan without
asking the triumphal table rest on the order of the tabs (`Ordered`). From
`DbInv` follow *DeletionIsFinal*, *FailureHidesNothing* and the action property
*NothingIsRolledBack*: the `DELETE` that the finalizer issues for a failed scan
never finds a row.

**ScanLedgerProofs.** *ScanTypesCorrect*: `ScanInv` adds to the types that a
batch begins only below the limits of a sweep (`WithinLimits`).
*EarlyEndsLoseNothing* looks at the time between a claim and its row: every
chest above the top of a list is recorded or on a crop that has not been read
(`Covered`), and while the scan clicks, the last crop shows what it clicks on
(`Aimed`). It assumes that no fault takes a crop or a row away (`Harmless`);
kicks, stalls, failing probes and dying browsers are all allowed.
*FoundMatchesRows*: the rows on the Gifts tab are those that the sweep and the
tally of its sweeps have counted (`Tallied`), since each crop is read once
(`CropsAhead`); it needs only that counting does not fail.
*ScanKeepsLedger* is the safety half of the refinement: initial states of
`ScanSession` are initial states of `ClaimLedger`, and steps are steps or
stutters. Chests are claimed in the order of the list, so a chest has one row
below the first that waits to be read and none from there on (`OnceEach`), and
the crops that wait follow each other without a gap or an overlap up to the
chest opened next (`Chained`). The latter is what a lost click, a dead browser
or another login breaks, and `Lossless` leaves these out.

**LoginBridgeProofs.** *BridgeTypesCorrect*, *PauseEnds*: `NeverLeftPaused` is
inductive over the types. Something keeps a bridge from rest (`Busy`): a
session, a start, a teardown or a request under way. A step of the environment
leaves all that as it was or begins a teardown (`Calm`); the others are starts,
and requests or teardowns that come to their end, and the lemmas about those
show that the last one out resumes the loop.

**ExternalLoopProofs.** *PollingGoesOn* needs to know whom the calls in
flight belong to. `ClanInv` says of one clan that each of them is of a code and
a loop (`Belongs`), that only a running loop has a timer, that only the
manager's instance runs or backfills, and that a running loop has a timer or a
call in flight; `PollerInv` says so of all clans, with the types.
*DiscardedStartsNothing*: a step that puts a request on the way does it for the
instance the manager holds, or by hand (`Silent`). Every action
touches one clan, so that each proof step looks at that clan and carries the
invariant of the others over.

**ResourceCaptureProofs.** *DaysAreWrittenClosed* follows from `SettledInv`:
what a run has read is older than today, and history does not change for
settled days. *MarkerKeepsItsPromise* needs in addition that dates in one run
and on disk mean the same day (`DatesInv`, for sweeps between 17:00 UTC and
midnight) and that what a run is about to write, with what is on disk, fills
the list down to its anchor (`PromiseInv`); it is proved for deletions that
keep out of runs (`Hazards = {}`), since with a race it is false.
*RepeatsHaveAReason* (`RepeatInv`) holds with the race as well.

**DigestProofs.** *DigestsKeepComing* and *DigestsWaitForTheirScan* follow the
timer, the context and the activations of one clan. *DigestsGoOutOnce* is the
hard one: of a digest at most one of these is there, a context that waits with
it, an activation on its way to post it, a post not yet recorded, a record
(`SoleInv`), unless it is excused. It rests on the day a context may still
speak of (`DayInv`): a timer is armed for the next rollover only, what waits is
of the last one, and later rollovers have no post. Most actions are `Onward`
steps, which only move what there is along this chain; posting, recording,
rollovers, crashes and completed scans have a lemma each. The proof depends on
the bounds of the model on lateness (`Overdue`, `Settled`).

**RosterProofs.** *MergesLast*: `MergedStaysMerged` needs the invariant that a
spelling with a rule is an alias of some member (`Aliased`), but for the
excuses. Scans, captures and the sweep only let the roster grow (`Grown`):
members keep name and aliases, and a member is created only for a spelling that
is neither, so growth composes over the rows of a list. Merges, renames and new
aliases create nobody; of these a merge is the hard one, since the aliases of
the member merged away go with it. That an oldest member exists at all, among
those that fit, is the well-foundedness of the natural numbers.

*RowsStayTogether* is `NotSplit`. That rows of one name are at one member says
nothing of where the next one goes, so `HousedInv` says where a name leads. The
roster and the rules are in order (`InOrder`): one member at most is known by a
name, spellings of one name have one rule, a name with a rule is nobody's own,
an alias comes from a rule, and whoever is known by a merged name is called what
its rule says. Every row of a member who is there is at whoever is known by its
name or by the result of its rule (`AllHoused`), a crop whose name is decided
counting as a row. And the copies of an activity say nothing else of names that
are not excused: what a copied rule gives a rule still gives (`CanonKept`), what
a copied member is called it still is (`RosterKept`). `SoundUpsert` then shows
that `upsertMember` files a reading where its rows are; the matchers lead to it
or to the one member known by the name (`ResolveKnown`). Each row of a
list keeps this (`HousedMightRow`), both for the rows stored so far and for those
that are left if the transaction fails. Merges are the
hard part (`HousedMergeBoth`): two members, their rows, their aliases and the
rule move in one step, and every reading that led to the first must lead to the
second.

*OwnersKeepTheirRows* is `ExactWins`, about a step and not about a history, and
needs the types only: in the current roster and in the copy, a name that one
member alone is known by is found by each matcher before distance is considered
(`MatchOwner`, `ResolveKnown`, `ExactKnown`), and by `upsertMember` before it
creates anybody (`RecognisedOwner`).

**Only model-checked**: liveness, so also that claims are recorded in the end
(`Settled`, the other half of the refinement of `ClaimLedger`). Every invariant
and every action property of a passing run is proved. Liveness, `ENABLED` and
induction over data are out of the prover's reach.

## 6. Not modelled

Chromium, the game and OCR are environment: their outcomes are choices. Names,
points, timestamps, texts and layout are data no property here depends on.
The front end, its translations and the read-only routes, most of the lines of
the repository, hold no state that anything else relies on. A might capture
that drops or merges rows of its list, reading and stitching pages, aggregations
over rows (points, rankings, guards, the calendar), the formatting of messages
and the import of files are computations over data, and would be pure modules.
Onboarding runs a second scan loop with a browser of its own and is left out,
as is what it leaves behind when it fails.
Everything is listed with its reason under `components`.
