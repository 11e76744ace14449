# loopany: a TLA+ development

loopany runs *loops*: a prompt, a schedule and a folder, worked on by a coding
agent on the owner's own machine. A Node server keeps loops, runs and leases in
Postgres, fires the schedule and collects results; a daemon on each machine polls
the server for work, starts an agent per run, reports, and mirrors the loop's
folder to the server. This directory models the parts of that system in which
order, concurrency and failure decide what happens, checks them with TLC on small
instances, and proves the central ones with TLAPS for instances of every size.

| module | stands for | run | proved |
|---|---|---|---|
| `RunSlot` | what the run inbox promises: one slot per loop | - | - |
| `RunLifecycle`, `MCRunLifecycle` | ticks, polls, sweeps, reports, finish, stop, owner, crash, over the loop, run and lease rows | `RunQueue`, `RunVerdict`, `RunLiveness` | `RunLifecycleProofs`: invariants, `NeverReopened`, `SettledIsFinal`, refinement of `RunSlot` |
| `LoopTimers` | the scheduler's cron jobs and one-shot timers against the rows | `LoopTimers` | `LoopTimersProofs`: both invariants |
| `BlobGC` | sync, upload, snapshots and the blob collector | `BlobGC` | `BlobGCProofs`: both invariants |
| `LongPoll` | held polls, wake-ups, presence and the watch-set cache | `LongPoll` | `LongPollProofs`: both invariants |
| `RunReport` | the daemon's pass over a delivery and what the server makes of its report | `Commands` | `CommandProofs`: `NothingSkipped`, `OutageSurfaced` |
| `FolderMirror` | the folder watcher of the daemon against the server's sync | `FolderMirror` | `BlobGCProofs`: `ForcedFlushIsFresh` |
| `Accounts`, `MCAccounts` | teams, members, invites, machines, enrolment, creation of loops | `Accounts` | `AccountsProofs`: all three invariants |
| `CliVerbs` | what a run and an owner may change of a loop | `Commands` | `CommandProofs`: `CompletionAgrees`, `PreviewIsHonest`, `AuditComplete` |
| `CliTransport` | one command from its arguments to its exit code, against servers of three generations | `Commands` | `CommandProofs`: both invariants, `RunActsAsRun`, `TooOldHasCause` |
| `LocalSetup` | what the CLI leaves on a machine: the shim, the hooks, the skill | `Commands` | `CommandProofs`: `HookCanRun` |
| `DaemonProcess` | the pidfile, boots, exits, `up`, `down`, `update` | `Processes` | `ProcessProofs`: both invariants |
| `AgentProcess` | one child of the daemon: signals, timers, pipe, event stream | `Processes` | `ProcessProofs`: `SurvivorsAreNamed` |
| `RateLimit` | the token buckets of the machine routes | `Processes` | `ProcessProofs` |
| `DbWatchdog` | the database watchdog | `Processes` | `ProcessProofs` |
| `Timeline` | the cross-loop timeline, from the rows to what it draws | `Processes` | `ProcessProofs`: `FireShownOnce` |
| `Survey` | the pages of the CLI about a machine's loops and runs | `Processes` | `ProcessProofs`: both invariants |
| `Onboarding` | the wizard and the two dialogs that wait for another computer | `Dashboard` | `DashboardProofs`: `CreatedIsNoticed` |
| `LoopPage` | the page of one loop, with its undo window | `Dashboard` | `DashboardProofs`: `DeletesAreMeant` |
| `RunPage` | the page of one run, beside what the gateway writes of it | `Dashboard` | `DashboardProofs`: `SettledPageIsWhole` |
| `Channels` | the push channels: dialog, rows, routes, sending | `Dashboard` | `DashboardProofs`: `RouteLeadsSomewhere` |
| `TeamTabs` | the tabs of one user, their teams and the cookie they share | `Dashboard`, `TabScope` | `DashboardProofs`: `PinnedToItsTeam` |
| `TeamsDialog` | the dialog in which teams are managed | `Dashboard` | `DashboardProofs`: `SettledDialogIsCurrent` |
| `MCProcesses`, `MCCommands`, `MCDashboard` | small parts that share no state, side by side in one run | | |

`PROJECT.json` lists, for every definition, the lines of the source it models, and
for every property a mutant of the code that breaks it (the operators commented
"Mutant:" in the modules; they take part in nothing else).

## Inventory

### Server (one Node process, `packages/server`, and its Postgres)

Node runs a handler alone up to its next `await`; between two awaits every other
handler, timer and request may run. Most statements autocommit, a few operations
(`deleteLoop`, the team operations, `updateLoop` with its clamp) are transactions.
That is what makes the server hard: a handler reads a row, awaits, and acts on what
it read; and a deploy or a crash may cut any handler between two awaits.

* **Run queue and gateway** (`gateway/index.ts`, `scheduler/index.ts` `runLoop`,
  `db/store.ts`, `gateway/tokens.ts`). State: run rows (`pending`, `running`,
  `done`, `error`, `canceled`), lease rows (one per delivered run: active, then a
  grace window, then gone), the loop row, the machine's online flag, the in-flight
  latch `Scheduler.running`. Operations: tick, poll, report, sweep, finish, cancel.
  They meet only in the rows. Hard: two polls that race, a tick that supersedes the
  run a poll is claiming, a sweep that acts on rows it read, reports that are late,
  repeated or never come, `finish` and the stop button on one run, deletion under
  all of them. Correct if: one open run per loop, a run is handed out once, a
  skipped run never ran, a verdict is final, every open run closes.
* **Scheduler** (`scheduler/index.ts`, and every writer of a loop's schedule in
  `server/loopApi.ts`, `gateway/cli.ts`, `gateway/index.ts`). State: a cron job and
  possibly a one-shot timer per enabled loop, in memory; `enabled`, `cron`,
  `nextRunAt` in the row. Each writer awaits its write, then re-registers. Hard:
  edits, finished runs, the circuit breaker, ticks that consume a one-shot, and a
  boot's catch-up all overlap. Correct if: timers agree with the rows once the
  writers are through, and nothing due is forgotten.
* **Artifact store** (`gateway/sync.ts`, `gateway/retention.ts`,
  `gateway/blobstore.ts`). State: file rows, snapshots of runs, blob rows, and bytes
  in a store of its own (R2). Operations: sync, putBlob, snapshot, prune,
  collect. Hard: two stores without a common transaction; a collector that works for
  many awaits on a keep-set. Correct if: a row means bytes, referenced bytes stay,
  unreferenced ones go.
* **Long-poll waiters, watch sets** (`gateway/index.ts`). Parked polls in memory,
  woken by the dispatcher; a newer poll supersedes an older one; a cached watch set
  that is left out of an answer when the daemon's digest shows that it has it. Correct
  if no wake-up is lost between a poll's first look and its park, a machine whose
  polls are answered never looks offline, and edits reach the daemon.
* **Reports** (`gateway/index.ts` `report`, `reclaimRun`, `notifyRunFailure`). State: the
  workflow's cursor in `loop.state`, the verdicts, the failure streak read from the rows.
  Hard: late, repeated and reclaimed reports in overlapping handlers. Correct if the cursor
  passes nothing nobody saw, the circuit breaker trips, and no outage stays silent.
* **Connect keys, enrolment, idempotent creation** (`gateway/tokens.ts`,
  `gateway/index.ts`, `lib/binding.ts`). Keys that bind a machine and a new loop to a
  team; a content key makes a repeated `loopany new` return the first loop. Correct
  if a retry creates nothing twice as long as the first is answered and remembered.
* **CLI verbs** (`gateway/cli.ts`, `gateway/validate.ts`): what an agent may do to its own
  loop, gated by its lease, and what the owner may edit. State: the loop's configuration,
  its completion stamps, a run's audit log. Correct if a dry run tells the truth, stamps
  agree with goal and switch, and every command is in the log.
* **Notifications** (`gateway/notify.ts`, `webhookGuard.ts`, `server/notifyFns.ts`). State: the
  team's channels and each loop's route to one. A message is sent best-effort after a verdict, to the
  channel its handler finds; a webhook's redirects are followed a few hops. Correct if a route leads to a
  channel that is there. **Prompts and deliveries**: pure text. **Rate limits** (`gateway/rateLimit.ts`): token buckets by wall clock.
* **Teams, members, invites** (`db/store.ts`, `server/teamAdmin.ts`): transactions at READ
  COMMITTED. Correct if a team never loses its last owner and an invite is used
  once. **Authentication and scoping**, **machines**: filters on queries, presence.
* **Database connection and watchdog** (`db/index.ts`, `server/dbWatchdog.ts`):
  failed pings are counted, excused while the event loop lags, and end the process.
* **Boot and HTTP surface** (`server/boot.ts`, `main.ts`): starts the intervals the
  fairness below rests on. **Read models, templates**: no state of their own.

### Dashboard (React, `packages/server/src/components`)

* **Onboarding** (`OnboardingWizard.tsx`, `ComposeModal.tsx`, `MachinesModal.tsx`,
  `lib/onboardingState.ts`). Each screen mints a machine or a connect key, polls for what
  happens on another computer, and may be left, resumed or opened anew with requests in
  flight. The wizard's progress is kept in the browser. Correct if a created loop is
  noticed, and no machine row stays behind that nobody asked for.
* **Loop page** (`LoopDetailView.tsx`, `actionUi.tsx`). Stays mounted from one loop to the
  next; a delete waits in an undo window. Correct if a form is about the loop of its page and
  the deletes that are committed are those that were meant.
* **Run page** (`RunView.tsx`). Finds its run in the loop's detail or by paging back, polls while it
  is open, then reads changes and trace once. Correct if what it rests on is all there is.
* **Channel dialog** (`NotificationsModal.tsx`, `ChannelAddForm.tsx`): a form whose answers find whichever
  form is on display, a list with tests that clear themselves.
* **Timeline** (`LoopTimeline.tsx`, `server/timeline.ts`): past runs and fires to come, put together from several
  queries on one side and unordered answers on the other. Correct if no fire is drawn as both.
* **Tabs and teams** (`routes`, `DashboardView.tsx`, `TeamSwitcher.tsx`, `auth.ts` `requestScope`): a tab's url names its
  team, a cookie all tabs share names the last one used. Correct if a tab keeps to its team.
* **Teams dialog** (`TeamsModal.tsx`): chains of requests that overlap. Correct if it ends up showing what the user changed.

### Daemon (`packages/daemon`)

* **Poll loop and runner** (`daemon.ts`, `runner.ts`): polls, runs a workflow or an agent per
  delivery, resumes a session after a transient failure, reports, retries a report that got
  no answer once.
* **Agent processes** (`spawn.ts`, `runner.ts`): a process group, a timeout, an abort, a kill
  timer, a drain timer and a stream of events. Correct if a stopped child is over for its
  caller, and what it printed is read whole.
* **Folder watcher** (`watcher.ts`, `artifacts.ts`): debounced flushes of the folder's
  manifest, uploads of the hashes asked for, a forced flush before a report, a skip
  of manifests already acknowledged. Correct if the last state of the folder arrives.
* **Process identity and upkeep** (`pidfile.ts`, `ensure.ts`, `control.ts`, `update.ts`): one
  daemon per machine by pidfile, handover on update. Correct if the daemon that polls is the
  recorded one and no stranger is killed.
* **Command line** (`route.ts`, `cli-client.ts`, `callback.ts`, `create.ts`, `log.ts`, ...): a verb acts for
  the run around it or for the owner, and falls back to the routes of an older server. Correct if a
  command takes effect once and its exit code tells the truth.
* **Setup** (`setup.ts`, `skill-install.ts`, `bin-shim.ts`): writes a shim, the agents' settings files, the
  skill. Hard: files shared with other tools, commands that overlap or are killed, directories that refuse a write, the cache
  of npx. Correct if a hook names a command that is there.
* **Workflow runtime**: a child process with its own tools.

What every component's status is, and why, is in `components`; what can go wrong in
the code and which property watches it is in `hazards`.

## The modules

### RunLifecycle

A database row is a record in a table variable: `loop`, `run`, `lease`. A row that
does not exist has a phase or a mark of its own (`unborn`, `gone`, no `stored`), so
that identities are used once. What a row holds is reduced to what a guard reads: a
loop is a set of marks and the number of the queued edit instruction; a run has its
phase, role, loop, outcome, the edit it was delivered with and an *age*, the time
nothing was heard of it, in the steps the sweep tells apart (`RUN_TIMEOUT_MS`,
`DEFERRED_MAX_MS`).

Each handler has a set of slots (`Fires`, `Polls`, `Sweeps`, `Reports`, `Finishes`,
`Cancels`), and a slot holds what the handler remembers across awaits: where it is
(`pc`), the rows it read, those it has still to work through. An action is the code
from one await to the next. So `TickBegin` is `runLoop` up to `getLoop`, `TickInspect`
its look at the open runs, `TickRetire` one `supersedePendingRun`, `TickAdd` the
`addRun`, `TickDispatch` and `TickUnmark` the rest; `PollClaim` is one conditional
UPDATE and `PollRegister` the lease and the delivery after it; `SweepBegin` reads all
open runs and `SweepReclaim` writes one of them some steps later, as `sweep` does.
`store.ts` helpers are operators that say what the statement does to the table
(`WithPhase` = `updateRun`, unconditional; `Superseded`, conditional on `pending`).

The machine is `agent`: what the daemon does with a delivered run. A poll's answer may
be lost (`PollAbort`), a report may be sent twice and its answer lost
(`ReportArrive`, `ReportAnswer`), an agent may go silent (`AgentDies`). A poll that has
claimed is lost with a crash of the server too; `Restart` keeps the rows and empties
every slot. The owner's edits of a row are single actions here, as each is one UPDATE;
that they also re-register timers is the business of `LoopTimers`. Deleting a loop is not one step:
`deleteLoop` is a READ COMMITTED transaction, and `DeleteBegin`, `DeleteRuns`, `DeleteLeases` and `DeleteCommit` are its
statements. `deletion` has the rows each of them found; others see those rows until the commit, and whoever writes one waits
for it (`LocksKept`). `strays` is a history variable: a run that was added after the loop's runs were deleted and
that a poll read before the commit (`store.ts:159-177`; `runs.loopId` has no foreign key, `schema.ts:237`).

Left out: prompts and payloads, durations, the texts of errors, notifications (the
streak that trips the circuit breaker is a free choice, `MayPause`), the cadence gates
of `maybeFlagEvolve` (a free choice too), statements that fail in the middle of a handler
other than a poll.

### RunSlot

The abstract promise: a loop has one slot, a run enters an empty slot, may start, and
leaves for good. `ImplementsSlot` maps a run's phase to its stage; every step of
`RunLifecycle` is a step of the slot or leaves it alone.

### LoopTimers

`cron` and `timer` are the scheduler's two maps, `row` the schedule columns. A *job* is a
handler that writes a row and then brings the timers in line with what the write
returned: creation, an owner's or an agent's patch, run-now, the report of an edit or
evolve run (which re-reads the row first, `JobRead`), the delay of `maybeFlagEvolve`, the
circuit breaker, deletion (timers first, row second). Write and continuation are two
actions, `JobWrite` and `JobApply`. `runLoop` is cut at its awaits where it reads the row,
consumes a due one-shot, adds the run and re-arms. `Restart` is a crash followed by
`start()`; `CatchUp` is its misfire sweep.

A time is the *time left*: 2 is "later", 1 is inside the 1.5 s `runLoop` counts as due, 0
is due. `TimePasses` ages the row, the timer and every copy in a handler alike.
`missed` is a history variable: a cron occurrence fell into the outage, and no run, edit
or deletion has answered it since. `shot` is another: what became of the `nextRunAt` that was written last. It is *owed*, then
*taken* when a tick consumes it, and it *ran* when the run is there; or the owner withdrew it, or it met one of three ends without a run,
*cleared* (`ShotWritten`), *replaced* or *crashed*.

Two assumptions are stated where they are used. The continuations of writes to one row
run in commit order (`resumes`): `updateLoop` is a transaction of several statements that
holds the row's lock, so a second one still has round trips to make when the first has
returned. And a handler that is refused by a row that is gone ends there. Left out:
expressions croner rejects, one-shots beyond the 24.8 days one `setTimeout` can hold and
their re-arming in stages, a dispatcher that throws, a deletion or another statement that fails, shutdown.

### BlobGC

`file`, `snaps` and `blobs` are tables, `bytes` the blob store, and `sync`, `put`, `report`,
`gc` the handlers between their awaits, in the order of the source: the file row is written
before the bytes are asked for, bytes before their row, and the collector deletes bytes
before the row. `SyncCheck` and `PutCap` may find the storage cap exceeded, as a free choice.
The collector reads the keep-set in two queries, lists the old blobs, then works through
its candidates, re-reading the snapshots only if their *number* has changed.

One `try` of the collector stands around both deletes (`retention.ts:99-114`): `GcFail` is a byte delete that throws, or a row
delete that throws after the bytes are gone.

Three history variables appear in no guard. `held`: something has referred to the candidate all the while since the collector took it
up. `unseen`: contents of snapshots written since the collector compared the number of snapshots, or that left the number as it was, since one was
replaced or pruned. `raced`: contents whose upload a byte delete overtook, or whose collection a crash or a failing
row delete cut in two, until their bytes are uploaded again or their row is dropped.

Left out: sizes, the mirror of the task file, front matter, folders of several files (a
manifest repeats the modelled steps per path), and the pruning order of the loops.

### LongPoll

One machine. A request of the daemon arms the machine's waiter *before* it looks for runs
(`Send`, then `Claim`), the dispatcher wakes whatever waiter it finds (`Dispatch`), and a
request may be superseded, time out, or be cut off by a daemon that gave up, died or started
again. Time moves in units of 5 s (`LONG_POLL_WAIT_MS` 20 s is 4, `ONLINE_TTL_MS` 30 s is 6), and
what is due happens before the unit is over; the presence boundary is met exactly, since a
heartbeat younger than `Refresh` is skipped and a poll is then held for `WaitFor`. The watch set is a
number; a poll that read it before an edit may store it in the cache after the edit.

### RunReport

One loop with a workflow that reads a feed. `job` is `runDelivery`: the gate, the agent, its
resumes, the report; `handler` is `report`, cut at its awaits (`Read`, `Cursor`, `Record`, `Retire`); the
sweep reclaims, the owner cancels and enables again. `late` remembers failures that were reported
after the sweep had already reclaimed their run: such a report stamps the row again and can
lengthen a streak whose alert was decided before, and in the same way a late *success* can move
`loop.state` backwards (items are then shown twice, never skipped). `OutageSurfaced` and `BreakerHolds` leave
these rows out by name. `unheard` remembers failures whose alert came while that of another was under way, or was cut off
(`AlertLost`). A report may end at each of its awaits, by a write that throws or a restart (`Fails`); `dropped` remembers the items it
had passed without a row, and those that a failed report carried the cursor past. `reclaimRun`'s own three writes are one step
(`index.ts:423-428`).

### FolderMirror

A file is its content, its stat, and whether its mtime is still racy. `EventArrives` and `TimerFires`
are the debounce, `Stat` and `Hash` the walk with the stat cache, `Skip`, `Post`, `PutBlob` and `FlushEnds` the
flush, `FlushNow` and `FlushNowAgain` the flush before a report. `handler` is `sync` on the server. Calls are lost
or given up on with their effect still to come, both sides restart, and the folder moves: the
closed watcher's flush goes on as an orphan. Left out: the caps on files and bytes, the mirror of the task
file, which run a change is attributed to, and the uploads of an orphaned flush.

### Accounts

`req` holds requests in flight, each at one of its awaits; a transaction that takes the owners' rows
`FOR UPDATE` holds `lock` from its read to its commit, and all others read what is committed. A device
token and the machine it names are one identity, and a claim is such a token too. The key of a create is its machine
and claim, since the client hashes the machine with the whole body, claim included (`create.ts:80`); the rest of the
body never differs here, and what the server remembers of a key is in `idem`. Left out: names, renaming,
channels, the open mode without accounts, the results and progress of claims (see `Onboarding`).

### CliVerbs

The verbs of a run (`reschedule`, `set-cron`, `set-schema`, `set-ui`, `set-workflow`, `finish`, ...) behind the
lease's capabilities, and the owner's `edit`, cut where the handlers await: resolve, look at the keys in
use, write, append to the audit log, stamp. `Preview` and `Rejections` are `editLoop`'s dry run, `Write` with
`updateLoop`'s derived stamps is the effect. Left out: the verbs that only print; the verdict of croner and
of the time zone table (a value is acceptable or not); the window of 100 recent runs, which covers
all runs here; the timers' re-registration (`LoopTimers`); `new` (`Accounts`).

### CliTransport, LocalSetup

`CliTransport` is one call: what it says for itself (`Misused`), the credential, the request, `Admit` and `Serve` on the
server, the fallback to the legacy route, the look for the loop of a directory before `log` and `show`, and what is
made of the answer. An answer may be lost whole (`Cut`), or its body after its headers, which the client then takes for an empty one
(`BodyLost`). A server is of one of three generations, as the client takes them, and may be deployed in between;
the lease, the loop and the machine may go. Left out: the words of help and the picker's keys.

`LocalSetup` has CLI processes beside each other and the other tools of the machine. A settings file is read, merged,
emptied and filled (`writeFileSync`), so a reader may find it torn, or in a syntax it cannot parse, and takes either for no settings
(`Parsed`). `bin` has the places where a `loopany` may be: the shim, whose write may be refused, a global install, the cache of npx that is
on PATH while the command runs and pruned later (`Prune`). `removed` and `asked` are history: what the user took away, and a hook asked for
(`setup hooks`) where there was no `loopany` that lasts. What the skill's installation puts where is not kept.

### DaemonProcess, AgentProcess

`DaemonProcess` has a table of pids, each free, a daemon at one point of its boot, polling or exit, or a
stranger's; a look at the pidfile and the write or removal after it are two steps. `raced` is a
history mark of a daemon that claimed the file while somebody else was between the two. Left out: the
version file, a pidfile that cannot be written, how server and token are found, skills and hooks. A start time is
an identity here, and the code compares the texts of `ps lstart`, which depend on time zone and locale: two programs under different ones would
take one process for two.
`AgentProcess` is one child with a process of its own that may ignore SIGTERM, leave the group or
hold the pipe; an event travels as two halves and a newline, and is read in chunks cut anywhere. Left out: Windows,
where a stop is a `taskkill` of the tree (`spawn.ts:37`).

### RateLimit, DbWatchdog

`RateLimit` keeps both limiters with their lazy refill and the eviction of the stalest bucket; `forward` and
`granted` are history: how far the clock has moved forward in all, and what each bucket let through.
`DbWatchdog` is the watchdog's tick; `silence` is the history of pings since the last answer.

### Timeline, Survey

`Timeline` has the rows with what stamps them (a cron job that fires late, a one-shot that a tick takes along, claim and
report), the handler at its three reads (`ReadLoops`, `ReadRows`, `Respond`), and a page that asks again and cancels
nothing. A run remembers, as history, which fires it answers; a tick may take a one-shot up to 1.5 s ahead of its time
(`scheduler/index.ts:293`), and an answer remembers which runs did so after its loops were read (`Early`); `ProjectFires` and `InRange` are the walk over the schedule
and the capped query. Left out: pixels, labels, hovering.
`Survey` is one request of the CLI among changes of the runs: `homeDevice` with one query per loop, the list of loops,
`log` and `show`, and the two programs that decide which loops a directory stands for, the server's `ScopeDir` and the
daemon's `LoopDir`. Left out: columns computed from the loop's own row, wording, the picker.

### Onboarding, LoopPage

`net` is a few requests with their answers; a screen that is left makes its answers deaf, as the
`alive` flags of the effects do, and those that have no such flag are heard. `missed` and `discarded` are
history: results that were read and reached no screen, machines a screen let go of unawares. The dialog that asks for a key
stays mounted: when a blank one is opened again, the effect that mints still sees the host of the opening before, so that it mints then and again when
the host is chosen (`ComposeModal.tsx:120-138`, `Open`, `PickHost`); `d.twice` says so. Left
out: the simulation buttons of development, bundles, the progress checklist, the choice of a
notification channel, dismissal.
`LoopPage` has the page's requests, each with the loop of its closure; `late` marks a detail or form that
came from an answer about the loop shown before.

### RunPage, Channels

`RunPage` has one run per loop, its row and what the gateway writes of it, verdict and snapshot in two writes and a
later report after `finish` or a reclaim. `Render` is a React render: the run found in the detail or by paging, and
the effects that follow from its phase (`ChangesFor`, `TraceFor`). `crossed`, `failed` and
`unread` are history: the late detail of another run's loop took the place of this one's, a page of the search failed, the diff was read before the
snapshot was taken or not at all. A transcript that cannot be read is said so on the page (`error`) and not read again.
`Channels` holds a request at one of its awaits. A deletion is a transaction of two statements: `DeleteDetach` updates the
loops that point at the channel and locks them, `DeleteCommit` makes it seen; `raced` is the history of channels a route
to which was written from a look before. What a Slack token can see is named by the token. Left out: names and the
validation of a config beyond accepted or refused.

### TeamTabs, TeamsDialog

`TeamTabs` has tabs with their url's team and what they show, `Scope` as `requestScope` resolves it (the team asked for,
else the cookie's, else the personal one), `fetchLiveData` as three requests that each resolve it anew, and what moves a tab
from one team to another. `lost` is history: the user lost the team while the page was open.
`TeamsDialog` has the team rows reduced to who the user is there and which change wrote each fact last, and a request with the
rest of its chain (`ThenOf`: what an operation reads anew); a change is made or refused, by rules that are those of
`Accounts`. Left out: the error banner, highlights, what is typed but the new name.

## The runs

Safety runs use `Spec`; where a symmetry is declared, the values are never compared with anything but each
other; liveness runs use none. `CHECK_DEADLOCK FALSE` stands where the system may really stop:
every identity is used up, the requests are bounded, or the screen is done with. `BlobGC` and `LongPoll`
may not stop (the collector's interval, the daemon's loop) and are checked for deadlock.

| run | asks | bounds | states |
|---|---|---|---|
| `RunQueue` | Do racing ticks, polls, a sweep and a throwing dispatcher keep one open run per loop and implement `RunSlot`? | 1 loop, 2 runs, 2 ticks, 2 polls, 1 sweep | 420 924 |
| `RunVerdict` | Is a verdict final once the lease is retired and the handlers in flight are through, a lease's grace only for runs that are over, a running run one of an existing loop, and nothing reopened? | 1 run, 2 reports, 1 each of tick, poll, sweep, finish, stop; the loop may be deleted, a statement at a time | 5 448 251 |
| `RunLiveness` | Does every open run close, with no help from the machine? | 1 run, 1 crash, 1 report, 1 edit; pause, resume, evolve | 779 184 |
| `LoopTimers` | Do timers match rows, is a missed occurrence made up for, every one-shot served but for three ends? | 1 loop, 2 expressions, 2 jobs at a time, 3 in all (the creation is one), 1 crash | 901 645 |
| `BlobGC` | Does a blob row have bytes, do bytes stay that something refers to throughout, are unreferenced blobs collected? | 1 loop with one file that comes and goes, 1 content, 1 each of sync, put, report, collector, retention 1, 1 crash, any failures of the collector | 1 195 801 |
| `LongPoll` | Is no wake-up lost, is a machine whose polls are answered online, does the daemon end up with the right watch set? | 1 daemon, 2 runs, 2 requests, 1 edit, 1 fault; the real proportions of the timers | 2 941 108 |
| `FolderMirror` | Is a forced flush fresh, and is the folder mirrored once it rests? | 1 file, a small and a large content, 2 writes, 1 fault, 2 requests | 2 708 440 |
| `Accounts` | Does an invite let in one, is the last owner kept, does a retried create return the first loop? | 2 users, their teams and a shared one, 1 invite, 1 machine, 2 loops, 2 requests at a time of 3 | 2 087 915 |
| `Commands` | Do stamps agree with goal and switch; does a command take effect once and is its 0 true; does every hook name a command that is there; does the cursor skip nothing but what failed reports drop, is no outage silent? | 1 run, 2 keys, 2 commands of 3; one call, 2 deploys; 2 setups, 1 agent, 1 other tool; 3 runs, 2 reports at work, 1 item, a breaker and a reminder at 3 | 6 241 240 |
| `Processes` | Is the polling daemon recorded, are strangers spared and survivors named, are buckets bounded, does an outage end, is no fire drawn twice but one taken early, does the home page miss nothing newer and agree with `log`? | 2 pids, 2 commands, 2 births; 2 events; 1 address, 2 credentials, bursts 5 and 2; both thresholds 2; 2 loops with 2 fires, 2 runs, 1 change, 1 request; 2 loops in 5 pairs of places, 3 runs, 5 changes | 3 628 377 |
| `Dashboard` | Is a created loop noticed, are deletes those that were meant, does a route lead to a channel, has a settled page diff and transcript, does a tab keep to its team, is a settled dialog current? | 1 machine, 2 keys, 2 requests; 2 loops, 3 requests; 1 channel, 1 token, 2 requests of 4; a run 2 pages back of 2; 1 tab, 2 teams, 2 changes of membership; 2 teams, 2 requests, 2 changes | 2 441 053 |
| `TabScope` | Are the channels of a tab's dialog those of the tab's team? (No: see below) | 1 tab, 2 teams | |

Each run takes less than three and a half minutes on two workers. The states are distinct ones, after symmetry.

*Why these bounds are enough.* What is at stake between ticks concerns one loop: no action
of `RunLifecycle` reads a row of another loop, but for `poll` and `sweep`, which treat
the runs of all loops one after another. Two runs are the least in which one supersedes the other or
follows it; two slots of a kind are the least in which a handler races its like (two polls,
two triggers, a report and its retry). The theorems do away with these bounds for
everything they cover. In `LoopTimers` the hazards are overlaps of two writers, or a writer and a
tick; a third job is there because the first must create the loop. In `BlobGC` a hash is
collected without regard to any other, so one content with one request of each kind
meets every overlap; retention 1 makes pruning happen on the second snapshot. In `LongPoll` a second
request is the least that supersedes one, and the second run goes pending while the first is carried. `RunReport`
needs three failures, two of them overlapping, below a breaker and a reminder that come at the third: at 2 every second failure is
told of anyway, and that two at once may both be silent could not be seen. `MaxUpsets` also counts the deliveries made while an alert is under way. In `FolderMirror` paths do
not interact but through the manifest, which one path changes three times. In `Accounts`, `CliVerbs` and `Channels` each
guarded pair is a race of two requests that a third one (a promotion, a redeem, a deletion) prepares. The theorems do
away with these bounds for everything but liveness. In `Timeline` a second request would only bring an answer that
another could have brought, since the properties are about one answer; `Survey` needs a third run for one to
be older than what a loop's newest two hide. A tab never writes what another reads but the cookie, so `SwitchElsewhere` stands for all
other tabs. With three births
`DaemonProcess` alone has 2 903 861 states and the same result.

A type invariant stands in every module. It is proved for `RunLifecycle`, `LoopTimers`, `BlobGC`, `LongPoll`, `Accounts`,
`DaemonProcess`, `CliTransport`, `FolderMirror`, `RunReport` (inside its invariants), `DbWatchdog` and `RateLimit`; for the others it was checked while they were written and is not among the runs' properties, which are kept for
what could really go wrong. The same holds of a few properties at the end of their modules that say less or overlap with another:
`StreamIsWhole` and `StopSettles` (AgentProcess), `FormIsOfItsPage` (LoopPage),
`BreakerHolds` (RunReport), `GoneIsGone` (RunPage),
`PickIsOfItsToken` (Channels), `NoStrayMachine` (Onboarding), `TallyIsOfLanes` (Timeline). `GraceIsOver`, `ClaimedOnce` and
`SkippedNeverStarted` (RunLifecycle), `PreviewIsHonest` and `AuditComplete` (CliVerbs), and `RunActsAsRun` and `TooOldHasCause`
(CliTransport), are in no run because they are proved.

### Fairness

`RunLifecycle` assumes only that the sweep's interval fires and its handler goes on
(`boot.ts:84`), that time passes, and that an agent ends or is killed. Nothing is
assumed of the daemon's polls and reports, of ticks, or of the owner; so `OpenRunsClose` rests on the
sweep alone. `LoopTimers` assumes that handlers in flight go on, that croner and
`setTimeout` fire, that time passes, and that open runs end, which is what `OpenRunsClose`
shows. `BlobGC` assumes that handlers go on, that the maintenance interval fires
(`boot.ts:96`), that grace windows pass, and, strongly, that neither the blob store nor the database refuses
a delete for ever: a failed delete leaves the row to the next pass, so it can be
disabled again and again between attempts. `LongPoll` assumes that handlers take their next step, the daemon's loop
goes on and time passes; faults are finitely many. `FolderMirror` assumes that events arrive, timers fire, and
flushes and syncs go on; calls fail finitely often, since a folder nobody can post is not mirrored.
For `StopSettles`, `AgentProcess` assumes only that the kill timer and the drain timer fire: neither the child nor a process of its own
ever has to end.

### Where the code falls short of its words

`TabScope` refutes what the channel dialog says of itself, "Push channels for this team" (`NotificationsModal.tsx:56`). The lists
and keys of a tab carry its team, as `DashboardView.tsx:38-40` says of the lists, and `PinnedToItsTeam` holds. The dialog is given no team
(`DashboardView.tsx:296`) and its calls carry none, so they follow the cookie, and without one fall to the personal team
(`notifyFns.ts:47`): a tab on one team's page lists, adds and deletes the channels of the team another tab used last, or of the user's own.

These other statements of comments and docs do not hold either; each was found while the module was written, and TLC shows a
trace of a few steps of two handlers when the definition is put into the run's configuration as a property
(the modules keep them under "statements made in the source that the code does not keep").

* `CanceledSticks` (RunLifecycle; `loopApi.ts:421` "the report handler ignores a late report for a canceled run so it
  sticks"): a `finish` admitted before a stop writes `done` over `canceled` (`gateway/index.ts:1608`).
* `NeverFalselyFailed` (RunLifecycle; `gateway/index.ts:392` "is never falsely failed"): `sweep` fails a run that it
  read as silent and whose report came in since (`gateway/index.ts:424`).
* `EditDelivered` (RunLifecycle; `scheduler/index.ts:144` "the next tick runs an `edit` agent that applies the
  instruction"): the report of an edit run clears a newer instruction that no agent saw (`scheduler/index.ts:154`).
* `FutureOneShotKept` (LoopTimers; `db/schema.ts:210`): a tick clears the `nextRunAt` an edit has put in place of the due
  one (`scheduler/index.ts:293`).
* `NoDanglingBlob` (BlobGC; `retention.ts:25` "We never leave a live blobs row pointing at deleted bytes"): an upload
  records its row after the collector deleted its bytes.
* `NoShotCleared` (LoopTimers; `db/schema.ts:210` "run once at this time, then resume cron"): the timer of a run-now fires while
  an edit or evolve run is open and returns (`scheduler/index.ts:274`); when that run ends, `finishEdit` or `finishEvolution` takes the
  `nextRunAt` that has passed for a spent one and clears it (`scheduler/index.ts:154`, `341-346`), and nothing ever ran.
* `HeldIsKept` (BlobGC; `retention.ts:85` "a snapshot a concurrent report() writes mid-pass is still caught"): the number of snapshots is
  compared before the candidate is checked, and a snapshot that replaces one, or for which one is pruned, leaves it as it was.
* `DeletedPinsNothing` (BlobGC; `store.ts:163`): a sync or report in flight writes rows of a deleted loop.
* `FailedRunKeepsCursor` (RunReport; `gateway/index.ts:1380` "a failed run must never advance
  loop.state"): the normal path stores `body.cursor` with no look at `ok` (`gateway/index.ts:1465`).
* `NewFolderIsWatched` (FolderMirror; `watcher.ts:647` "is retried on the next poll"): `reconcile` runs only when
  the answer carries the set, which the daemon's unchanged digest prevents (`daemon.ts:166`).
* `TooOldMeansOld` (CliTransport; `cli-client.ts:138` "a server that predates the axi text spine"): a 404 sends the client to
  the legacy route, whose answers have no text; this server's own dispatch answers 404 as well, for a loop deleted
  while its command was on the way, and the user is told that the server is too old.
* `OthersSurvive` (LocalSetup; `setup.ts:114` "other SessionStart entries, other events, and other root keys are preserved verbatim"): a settings
  file that cannot be parsed, for its comments or because another writer has just emptied it, is taken for none and
  written over whole (`setup.ts:121-122`); a key added between our read and our write is lost, and what shares an entry with our hook goes with it.
* `CopiedIsAwaited` (Onboarding; `ComposeModal.tsx:141`): a blank dialog that was opened before asks for two keys, and the second answer takes the
  place of the one the user copied meanwhile; the copied key's loop is then never noticed.
* `SettlesOnceFinished` (RunPage; `RunView.tsx:341` "transcript + diff settle once it finishes"): see `SettledPageIsWhole` below.
* `NeverDrawnTwice` (Timeline; `loopApi.ts:197`): a one-shot that a tick takes up to 1.5 s early, after the loops were read, is
  drawn as a run and, since its time is still to come, as a projection.
* `MarksStartRuns` (Timeline; `types.ts:174`): the time of a run's mark is its row's stamp, which the report writes anew
  (`gateway/index.ts:1509`).
* `RendersWhatWasScoped` (Timeline; `types.ts:196`): an answer for the zoom before may come last, and its window is what the page
  keeps (`LoopTimeline.tsx:189`).
* `OutcomesAgree` (Survey; `gateway/index.ts:949`): `show` takes the last outcome from the latest few runs (`cli.ts:530`), the
  list of loops from the last exec run however old.
* `DetailOfSelected` (TeamsDialog; `TeamsModal.tsx:47`): a late detail of the team selected before stays on display.

The passing properties name the races that the code leaves open, so that they say what is true beside them:

* `SettledIsFinal` speaks of runs no handler is still working on.
* `RunningHasLoop`: a run added by a tick after a deletion's delete of runs, and read by a poll before its commit, is
  delivered for a loop that is gone: nothing ties `runs.loopId` to the loop (`schema.ts:237`). It ends as any other.
* `OneShotServed`: besides what `NoShotCleared` and `FutureOneShotKept` show, a crash between the clearing of a one-shot and its `addRun`
  loses it.
* `RowHasBytes`: a byte delete that overtakes an upload, a crash between the two deletes, and a row delete that throws leave a
  row without bytes, so that later syncs do not upload them, against `retention.ts:111` "no live row ever points at deleted bytes".
  `KeptWhileReferred`: what nothing refers to for a moment may go; a file row written then is told to upload again by the next sync.
* `MirrorConverges` leaves out a folder that was missing when its watcher should have been opened, a request that a
  later one overtook (the closed watcher's too), and a manifest that was acknowledged once and is met again after a
  sync of unknown fate: the watcher skips it and the server keeps the newer rows (`watcher.ts:500`).
* `LastOwnerGuarded`: the role is read before the owners' lock, so a member who was promoted in between is removed
  as a member though they are the last owner by then (`store.ts:627`, against the comment at `store.ts:611`).
* `RetryReplays`: a retry that overlaps its first request makes a twin; the key is recorded at the end (`gateway/index.ts:818`).
  A loop may also be inserted for a team that was deleted after the membership check (`store.ts:685`), and
  `createMachine` homes a machine in the active team, which `gateway/index.ts:490` says a home never is.
* `CompletionAgrees`: under READ COMMITTED enabling a loop can miss a `finish` that commits in between, and a goal can be
  cleared between `finish`'s check and its stamp. `AuditComplete`: two commands at once lose an entry. Beside them, `stateSchema: null` clears the schema with no look at
  the keys in use, one may come into use after the look, and a printed configuration is refused when its schema misses one.
* `ZeroMeansDone`: the owner's `home` and `progress` never fail, and a run's `show` ends with 0 when its loop is gone.
* `HookCanRun`: `setup hooks` writes the bare name when no `loopany` lasts, and a hook outlives the removal of its command.
* `NothingSkipped`: the items a failed report carries the cursor past, and those of a report that ends, by a crash or a throw, between the
  writes of cursor (`gateway/index.ts:1465`) and row (1496), are in no row.
* `TooOldHasCause`: a body that is lost after its headers is read as empty (`cli-client.ts:128`, `log.ts:226`), and a server of today
  is then called too old.
* `FireShownOnce`: the one-shot of `NeverDrawnTwice`.
* `OutageSurfaced`: two runs that fail at once, one reclaimed by the sweep and one reported, are each counted as the second of a streak, and
  neither alerts, since the first and every fifth do (`notify.ts:68` "we alert on the first failure"). So does a late report that
  lengthens a streak (see `RunReport`), and an alert is lost with the process.
* `DaemonIsRecorded`: two boots, or a boot and a command, can pass between each other's look and write, and two
  daemons poll (`ensure.ts:155` "a live verified daemon means never spawn a second one"); `down` removes whatever record is
  there; `update` may take the old daemon's presence of up to 30 s for the new one's.
* `SurvivorsAreNamed`: a process of the child that ignores SIGTERM outlives it when the child exits first, because settling
  disarms the kill timer (`spawn.ts:34` "must not survive the workflow").
* `CreatedIsNoticed`: the result of a key is removed by its first read, so a lost answer leaves the wizard waiting;
  a mint of an earlier opening, or the other of two, replaces the key the user copied. `NoStrayMachine`: a second Cancel closes the
  dialog on a newer machine. On the loop page a late answer shows the loop before on the page of the next.
  `DeletesAreMeant`: a closed tab abandons its armed delete; the answer of a delete takes the user off another loop's page.
* `RouteLeadsSomewhere`: a patch from a stale page, or a new loop, that looked at the channels before a deletion
  committed writes a route to what is gone (`store.ts:841` "no dangling ref"); its messages then go nowhere, silently.
* `SettledPageIsWhole`: a page that read the diff between verdict and snapshot says "an earlier run" for good, as one whose
  request for it failed; one that shows a run as over stops looking, so it misses the report that completes a finished or reclaimed run; and a
  transcript that could not be read is not asked for again. A failed page of the search ends it as "no longer available", and a late detail of another loop takes the place of this one's.

## The proofs

`RunLifecycleProofs` proves, from `ConstantsOK` alone, for any sets of loops, runs and
slots, any number of edits and crashes:

* `Invariance`: `Spec => []IInv`; from it `TypeCorrect`, `OneOpenRunHolds`, `ClaimedOnceHolds`,
  `SkippedNeverStartedHolds`, `GraceIsOverHolds` and `RunningHasLoopHolds`;
* `NeverReopenedHolds`: a run that is over stays over, whoever writes its row;
* `SettledIsFinalHolds`: once the lease of a closed run is retired and the handlers that had the run are through,
  its verdict is final, and no handler takes it up again; a deletion alone still touches its row;
* `ImplementsSlotHolds`: `Spec => Slot!Spec`, the refinement of `RunSlot`.

*Why the safety properties are not inductive alone, and what `IInv` adds.* `OneOpenRun`
needs `TicksOK`: the latch `inFlight` makes the tick of a loop unique, and once
it has decided to add a run, every open run of the loop is one it still has to retire, so
when `TickAdd` comes the slot is empty. `ClaimedOnce` and `SkippedNeverStarted` need
`UnclaimedOK`: a run that is not yet claimed has no lease, no agent, and no poll holding it.
`RunningHasLoop` needs the part of `PollsOK` that ties a pending run about to be claimed to a
loop that is still stored, and `DeletionsOK`: once a deletion has found the loop's runs, an open run it has not found is pending and no
poll is about to claim it, but for the `strays`. So what commits takes every other run along, and an orphan added by a late tick is never
loaded for a claim. `GraceIsOver` needs `SweepsOK`: the run whose lease is about to be given
its grace is already over. `RowsOK` and `RequestsOK` say that handlers only hold runs that
exist.

`SettledIsFinal` needs nothing beyond types: a poll, a sweep and a cancel start from an open run, a
report and a finish from a lease, a lease from the poll that claimed, and a tick from a run of its own. What makes it
true is that no handler takes up a run but from such a row, so its proof is a tour of the places where one does.

*Layout.* `RunLifecycleProofs` first shows that each action keeps `TypeOK`, over row lemmas that
say a changed row is still a row, and states once what a step may do to each table
(`RunsStep`: besides `TickAdd` and `PollClaim`, a step only closes runs; `LeasesStep`,
`AgentsStep`, `StoredStep`, `HeldStep` likewise); then it has one lemma per
conjunct of `IInv`, by cases over these. It has some 2600 proof obligations.

Of the two parts of the server that count, `ProcessProofs` proves `OutageIsBoundedHolds`: the process never lives through more than
`FailureThreshold * StarvedCeiling` pings without an answer, whatever the two constants. The bound alone is not
inductive, since a starved ping leaves the failures where they are and a failure resets the starved count; the invariant
`Blocks` adds that every counted failure stands for at most `StarvedCeiling` pings and the starved count for the rest.
It needs two facts about products, which are lemmas.

It also proves `RateIsBoundedHolds`, of the form `RateBounds => (Spec => []RateIsBounded)`: for every set of
clients, every burst, refill and cost, and every course of a clock that is set back and moves on. The invariant is a
conservation law per bucket, over the history of what it granted and of how far the clock has moved forward since it was
made: cost of what was granted, what it holds, and what its age would refill do not exceed the burst and the refill
of the forward moves. One lemma says it of a new row, one of a row that spends, one of a step of the clock; the clock
set back only lowers the age. `RateBounds` is a definition and `MCProcesses` assumes it, so TLC evaluates it.

`LoopTimersProofs` proves `CronAgrees` and `MissedAnswered` from `TimersConstantsOK`, for any loops, expressions, handlers and crashes.
`CronMatchesRow` speaks of a loop whose continuations have all run; the invariant says what the continuations still to come will
make of the cron job. They queue per loop in commit order (`Queued`), each with the row its write left behind. `Last`: the
last of them saw the schedule the row has now. `Links`: a continuation that only re-arms the one-shot (`now`, `flag`) saw the
schedule of the one before it, since its write did not change it. `Base`: the cron job is what the row says if the queue is empty,
and what the head saw if the head only re-arms. So applying the head either schedules what it saw or leaves what was there, and
both are what its successor relies on. `Births` keeps the creation of a row to itself: while it is under way no other handler
has the loop. A loop that is being deleted is exempt (its timers go first), and so is one that is gone.
For `MissedIsCaughtUp`, `MissedOn` adds that the loop is enabled and its tick has not passed the point where it answers;
`MissedJobs` that only the owner's handlers are about and that a continuation waiting is a run-now that will start a tick, so that it
does not disarm the one-shot the sweep relied on; and `MissedBoot` that a loop the sweep has yet to look at has its timer armed
with the shot the sweep saw, or a tick under way. `TimersTyped` is the type theorem; it needs the queues, since the rest of an
empty queue is no queue.

`BlobGCProofs` proves, from `BlobConstantsOK`, for any loops, contents, retention, requests and crashes,
`RowsHaveBytes` and `ReferredIsKept`. `RowHasBytes` is not inductive, since the row is inserted two awaits after the bytes were
stored and a collector may run in between: the invariant `StoredInv` adds `UploadsStored`, that an upload past its bytes still has
them or has been overtaken, and then its content is in `raced`. `GcFail` after the bytes are gone puts its content there too, and the next upload or
the next pass takes it out. For `KeptWhileReferred`, `KeptInv`
says what the collector knows at each of its steps: `SnapsSeen`, that whatever a snapshot mentions once the pass has scanned
them was read by it or is in `unseen`, and `HeldRefers`, that while `held` is true the candidate is indeed referred to, by a file or a snapshot.
So a held candidate that passes the check was in no live file row then, hence in a snapshot, and in one the pass had not read. `StoreIsTyped` is the type theorem. What a table of snapshots refers to is a set
(`Mentions`), and lemmas say that appending adds one content and pruning adds none, so that no fold is needed.

It ends with `ForcedFlushIsFreshHolds`, of `FolderMirror` from `MirrorConstantsOK`, for any files, contents, requests, writes and faults: what the
flush of a report brings is not older than the report. The bytes of a file pass through a stat cache, a manifest, a request and a row, and `MirrorInv` says of
each what it still knows.

* *The cache* (`CachesHold`): a safe entry was hashed of a file whose mtime was past, so if the stat is the same then the content is, and
  the file is young no more; a write in between would have changed its stat. That is the racy guard of `watcher.ts:259`.
* *The manifest* (`WalkInv`): every path a forced flush has walked holds a content the file has had since `flushNow` was called (`WalkFresh`), whether it
  was hashed or taken from the cache. A flush that was already going on may have walked it before, hence the second flush.
* *The request and the rows* (`ServerInv`): while nothing has overtaken it, the request in flight is the only one that still writes what it likes
  (`Behind`: the others are late, and a late one that writes shows in `disturbed`); what it has passed is in the rows, and the bytes are stored,
  inlined or asked for (`Progress`). After it, bytes are stored, asked for or refused (`PutHolds`), so a flush that ends with none refused has them all.
* *The skip* (`AckHolds`): a manifest that was acknowledged, with no request of unknown fate since, is what the rows hold, so a flush that sends
  nothing is as good as one that does. Without `unsure` this fails at the first lost answer.

`MirrorTypeOKHolds` is the type theorem; it needs that a request's files to write are in its manifest (`TodoHolds`).

`LongPollProofs` proves `NoWakeupIsLost` and `PresenceIsKept` from `PollConstantsOK` for any number of runs, polls, edits and
faults, and for every hold, refresh period and TTL with `Refresh + WaitFor <= OnlineTtl`: the source's own numbers meet it
with equality. For wake-ups, `WaitInv` adds that the machine's waiter is exactly the request nobody has settled
(`WaiterUnsettled`; one waiter per machine, however many requests are in flight) and that a dispatched run that is pending
while a request is unsettled is still ahead of that request, to be listed or claimed (`Foreseen`). So a request never parks
over work that was there before it looked, and work that comes later finds its waiter. For presence, `PresenceInv` says how
old the heartbeat may be at each stage: a poll past its stamp found it within `Refresh`, a hold adds what it has lasted
(`RequestHeard`), and a daemon whose polls are answered is one unit away from the next (`DaemonHeard`). `PresenceKept` alone says
nothing of the time a held request has yet to wait. `PollIsTyped` is the type theorem.

`AccountsProofs` proves `InviteIsGrantedOnce`, `LastOwnerIsGuarded` and `RetryIsReplayed` from `AccountsConstantsOK`, for any users,
teams, invites, machines, loops and requests in flight. Each has its invariant:

* `OwnersInv` for the last owner: a request that has looked, found an owner and is about to take that role holds the lock on the
  team's owner rows (`TakersHoldTheRows`), and a team whose rows are held has two owners (`HeldTeamsKeepOne`), since nobody else takes
  one from it meanwhile.
* `InvitesInv` for invites: an invite that has let somebody in is spent or gone (`UnspentLetNobodyIn`), and a link about to
  be stored has an id that no other request has (`OnItsInvite`, `IdsAreFresh`), so it is never stored over a spent one. That
  nobody counts more than one is not inductive by itself: it says nothing of what a live row has let in.
* `RetryInv` for creation: what the server has recorded for a machine and a claim is what was answered
  (`RecordedAsAnswered`), and the loop recorded, or about to be, was born on that machine (`RecordedWereBorn`,
  `RecordersWereBorn`), so that a replay which does not happen is explained by a loop that is gone.

`CalmStep` sorts the steps once: most take no owner, and touch no lock, invite or record, and each invariant has a proof for the
few that stir. The assumptions are the code's: every user has a personal team (made at sign-up), and the operation names are
those the server has. `AccountsAreTyped` is its type theorem.

`ProcessProofs` proves `DaemonIsRecordedHolds` and `StrangersAreSparedHolds` for any pids, commands and births, from
`DaemonBounds`: no process has the pid that stands for an absent file.

* `RecordKept`: while a daemon polls whose claim met nobody between a look and a write, the file is its own and *nobody
  else* is about to write or remove it (`Undisturbed`). That is inductive because whoever looks now finds the pid alive and
  its start time in agreement, whether ps tells it or not, so that no boot and no command reaches a removal; a command that
  would kill it makes it leave its poll loop first. A second claim inside a window is what `raced` records, and exempts.
* `BirthsApart` and `RecordsOfDaemons` for the strangers: no two processes are of one birth, and a recorded birth was a
  daemon's, so a stranger that has the recorded pid differs in it from the record, hence from the start time that agreed
  with the record when the command looked. `TargetsKnown` says that a command about to signal knows a pid.

`ProcStep`, `FileStep` and `CommandStep` state once what a step may do to one process, to the file and to one command.
`DaemonTyped` is its type theorem.

It proves `SurvivorsAreNamedHolds`, of the daemon's children, from a statement about the two signals (`Signals`): a member of the
group that lives after SIGTERM is deaf or came later, and after SIGKILL there is none, nor a child that could start one.
Who ends first, which timer fires first and how often the child is told to stop do not matter. The stream is left out of
the invariant: what a chunk carries is a fold over it, and changes no process.

`DashboardProofs` proves the six invariants of `Dashboard`, each of its own part and its own `Spec`, for any number of requests in
flight. The screens have one shape, a reply is about what was asked some time ago, so their invariants say what each reply
in flight may still bring and what the screen is owed:

* `PinnedToItsTeamHolds` (`TeamTabs`, from `TabsConstantsOK`: the personal team is a team). `TabsInv` says of the tab and of its
  three requests in flight that they hold the team of the url, or the personal one after the user lost the former; a tab
  that still asks, asks for a team the user has, or `lost` says otherwise.
* `SettledDialogIsCurrentHolds` (`TeamsDialog`, from `DialogConstantsOK`: the dialog's nine operations, requests numbered). Until the dialog is current, some
  request in flight still brings it the list (`ListIsComing`), and one the detail (`DetailIsComing`), with what is left of its chain (`Chained`).
  The property follows, since with nothing in flight there is nobody left to bring it. The proof showed that `Operate` could
  start in a closed dialog when nothing was busy, which `TeamsModal.tsx` cannot: the guard is corrected.
* `RouteLeadsSomewhereHolds` (`Channels`, for any channels): a request about to write a route found its channel there, or
  the channel is in `raced`; a deletion about to commit has detached the loop (`Foreseen`). Removing one element from the sequence of
  rows keeps the others (`RemoveAtKeeps`).
* `DeletesAreMeantHolds` (`LoopPage`, for any constants): the loop in its undo window is meant and gone neither way (`WindowFits`), and a delete
  in flight is of a loop that was committed (`PageCallFits`). Nothing is said of what the page shows, on which no delete depends.
* `SettledPageIsWholeHolds` (`RunPage`, for any constants): a copy of the run that says over, shown or in an answer, is of a run that is over and has its
  session, unless the record was completed since (`OverFits`); a body that shows such a run has asked for its diff, and for its transcript if it
  knows of a session (`BodyAsks`); and the diff is there, is asked for, or was read when nothing more was due, or `unread` says why not (`DiffFits`).
  They survive the gateway because of how a record may change once it is over (`Grows`).
* `CreatedIsNoticedHolds` (`Onboarding`, from `OnboardingConstantsOK`: no key stands for none): the result of a key whose loop ran is there to be read,
  or in an answer for it, or in `missed` (`Told`). A dialog that was not given a stale key and did not ask for two (`Sole`) has one mint in flight that is not
  old (`MintsApart`), so that the key it will show is the one the user can have copied.

`CommandProofs` proves `TakesEffectOnceHolds` and `ZeroMeansDoneHolds` for any number of deploys, with any generation
of the server after each. Two things make a second request harmless and a 0 honest, and they are the invariant:

* `AskedOnce`: a request that had its effect is answered, or lost for good, and its status is not the 404 that makes the
  client ask the older endpoint. An effect comes with 200 or with a thrown 500, never with a refusal; so the client falls back only
  where nothing happened.
* `Honest`: an answer that would end the command with 0 says that it is done, but for a run that shows a loop it has lost. The
  lemmas `RefusalsRefuse`, `DenialsRefuse` and `OutcomesHonest` say it of what the routes, the routers and the verbs answer, and
  `SentSame` that the rendering, which depends on the generation, changes neither status nor code.

On top of it, `Entitled` gives `RunActsAsRunHolds`: what a run is let in for is neither an edit nor a new loop, since its
credential is looked at before the device's token; and `Caused` gives `TooOldHasCauseHolds`, which needs that the older endpoint
is asked only after an answer that has a cause already, and that an answer without its text was an old server's or lost its body. `CallTypeOKHolds` is the type theorem.

Of `CliVerbs` it proves `CompletionAgreesHolds`, `PreviewIsHonestHolds` and `AuditCompleteHolds`, from `VerbsConstants`, for any
metrics, runs, commands, edits and requests in flight. `VerbsConstants` says what the wire allows: a known verb or field, and a
value of its kind, well formed or not. The invariant `VInv` has, besides types, two parts:

* `CarriesFit`: what a request is about to write has passed validation, however long ago, and what `finish` is about
  to stamp is the completion and nothing else. So no write sets `done` but a stamp, and `updateLoop` clears it exactly when the patch drops
  the goal, or enables a loop it saw completed; `FitRow`, `WriteAgrees`, `StampAgrees` and `PreviewedRow` say what that makes of a
  row, and both action properties are read off them at the two actions that write (`RowSteps`, `LeavesByWriting`).
* `LogKept`: while no two commands of a run were between reading its log and writing it back, the log has as many entries as commands
  were concluded, the one command that has read it knows all of them, and there is only one. `AuditComplete` alone does not say
  what the command in flight is about to write over the log.

`HookCanRunHolds` is of `LocalSetup`, for any agents, commands and other tools. `HookInv` says of every command a hook names, in a file, in the copy
a command is about to write, or as the one it resolved, that it *fits* (`Fit`): it is a place other than the cache of npx where a `loopany` is, or was
until the user removed it, or the bare name that was asked for. Nothing but the user takes a place that fits away, `Prune` included, and a shim
that was refused is in none.

Of `RunReport`, `NothingSkippedHolds` and `OutageSurfacedHolds` are for any runs, reports at work, retries, reclaims and stops, from
`ReportConstantsOK`.

* `SkipInv` for the cursor: every item up to `loop.state`, and up to the cursor any run or request began from, is in a row, in the output of a
  report that has moved the cursor and is about to write its row, or in `dropped` (`Covered`, `Ground`). What is in `dropped` is named
  where it is dropped, by a failed report that stores its cursor and by one that ends between its two writes; all else the step of each handler has
  to hand on (`CoveredStays`).
* `OutageInv` for the alerts: a streak of which nothing has been surfaced is *one* failure, whose alert is still under way (`SilentIsNew`), but for what is `unheard`, so
  that the alert will count one. That needs the streak to grow by exactly the run that failed, hence that stamps are in order (`Stamped`), and that a run
  recorded as done is never failed again: its daemon came to one verdict, and all its reports carry it (`Agreed`, `DoneStays`).
  The attempt at this proof showed that the model had been too kind: no run was delivered while an alert was under way, a guard the code does not
  have, and a reminder at every second failure hid that two failures at once alert nobody. The guard is gone, and `unheard`
  names the case.

The two pages in `ProcessProofs` need what an answer in the making knows of rows that change meanwhile.

* `FireShownOnceHolds` (`Timeline`, from `TimelineConstantsOK`): a run that answers a fire of the cron was made no earlier than that fire, and the
  projection begins when everything has been read, so its fires of the cron are later ones. A one-shot is not so: it may be answered before it is due.
  One that waits has been answered by nobody (`Waits`), so of what an answer holds as waiting only a run that was not there when
  the loops were read can have taken it (`KnownOK`), and did so either when it was due (`RowOK`), and then the projection begins later, or early, and then it
  is in `early`. Hence `Apart`, whatever was edited or fired between the three reads; the answers in flight, the one on display and the handlers are of that kind (`CallOK`).
* `NothingNewerMissingHolds` (`Survey`, from `SurveyConstantsOK`): of a loop already read, every run that has not been touched is among the rows gathered
  or has `HomeRuns` newer ones there (`GatheredEnough`). It survives a read, because a run left out of its loop's newest has that many
  newer ones among them (`LeftOut`); a later read only adds rows; and a change is stamped anew and touched. Rows read at different times still have
  stamps of their own, and a row that has a run's stamp is that run as it is now (`GatheredOnce`). That the newest `k` of at least `k` rows are `k`
  (`KNewest`) is an induction over `k`, made with a least counterexample, and `Latest` finds the newest of a finite set in the same way.
* `SameFolderHolds` (`Survey`): the server's `ScopeDir` and the daemon's `LoopDir` differ only for a loop in a scratch folder (`SameDir`), and what is within
  such a folder is within the folder of all of them (`DeeperWithin`, a lemma about prefixes).

*Only model-checked:* liveness (`OpenRunsClose`, `OneShotServed`, `UnreferredIsCollected`, `WatchConverges`,
`MirrorConverges`), which is out of the prover's reach, with `StopSettles`; and `StreamIsWhole`, which is an
induction over the text.

## Not modelled

`components` gives the reason part by part. Authentication is a library's; the read models, the templates, the prompts
and most of the dashboard are functions from rows to text or screens. Of the parts that are modelled, their sections above say what is left out. Failing
statements are modelled only where the code handles them (a dispatcher that throws, a report call that throws, a blob
store or a database that refuses the collector a delete, a shim that cannot be written) and in `RunReport`, where a write of a
report or an alert may throw. The storage caps of `sync.ts` are projected from one reading each, so two
syncs may exceed them together (`sync.ts:173`), and bytes whose row was never recorded stay for good (`sync.ts:210`,
reached by `BlobGC`): nothing in the source promises otherwise. The stages of a one-shot beyond 24.8 days (`scheduler/index.ts:237`) and a
deletion that fails after the timers are gone (`loopApi.ts:382`) are not in `LoopTimers`.

## Order of work, and what is left

The modules were written in the order of the damage their subject can do: `RunLifecycle` with `RunSlot` and
its proofs, `LoopTimers`, `BlobGC`; then how runs and edits reach a machine (`LongPoll`), what comes back (`RunReport`, `FolderMirror`), who
may do what (`Accounts`, `CliVerbs`), the processes, the screens, and the command line with what it leaves on a machine.

Left, models: `LongPoll` composed with `RunLifecycle` (a claim pass there is one step here and several there); a run of `FolderMirror`
with two files; failing statements in `LoopTimers`. Left, proofs: the type invariant of `CliVerbs` with its bound on the logs, and those of the
screens, whose invariants carry only the types they need.
