# Qubicl: TLA+ models, model checking and proofs

Qubicl gives agents *computers*: containers with a desktop, a browser, files and
processes, reached through a gateway and managed by a command line program and
a dashboard on the host. This directory holds TLA+ specifications of the parts
that are protocols: who may act on a computer and what is ended when that
changes, what a viewer's human control means while connections come and go,
how processes share a limit and outlive errors, how a file is replaced, and
what an interrupted operation of the host leaves behind.

Paths such as `control/src/lease.ts` are under `src/packages/`. `PROJECT.json`
maps every definition to the lines it stands for, lists the runs, the hazards
and the mutated forms (`..._Bug`) that show that each property can fail.

## The system

### Control service, one per computer

| component | state | operations | with whom | hard | correct when |
| --- | --- | --- | --- | --- | --- |
| input ownership (`control/src/lease.ts`) | epoch, generation, lease, human control, chained revocation jobs, failed revocations, waiting clients | acquire, wait, verify, renew, release, revoke, take and release human control, reset the epoch | called by the executor; calls its revocation handler | asynchronous jobs, a method that looks at the object again after an await, failing handlers | a new owner enters when every earlier one is fenced; no revocation is forgotten; a stale proof stays stale; nobody waits for a free computer |
| control service (`executor.ts`, `server.ts`) | gateway epoch and its transition, calls in progress, publications | observe the epoch, dispatch a tool call, check ownership after it, handle a revocation | gateway (requests), runner (processes), lease manager | requests of an old gateway arrive late, responses of the runner are lost, ownership changes during a call | no session process outlives its owner; an epoch transition revokes every publication |
| command runner (`processes.ts`, `pty.ts`, `internal-runner.ts`, `remote-runners.ts`) | commands and terminals in memory, services that wait or restart, saved definitions, task records in a file | start, stop, stop all, end an owner's sessions, restart after a crash, shut down, load | called by the executor; the kernel's process groups | a restart racing a stop, slots freed on paths that start nothing, groups that cannot be ended, records written in part, restart of the runner | the limit holds, what was stopped stays stopped, no group is without a record, outcomes survive |
| published ports and file previews (`previews.ts`, `ports.ts`) | publications, shares, liveness | publish, share, revoke, proxy | executor, gateway | publication during an ownership change | a publication ends with its listener, or when its epoch ends |
| files (`bounded-files.ts`, `file-mutations.ts`) | the home directory, hidden names during a mutation | read, search, write, create, edit, make, copy, move, remove | executor; the processes of the computer use the same directory | the directory changes between any two system calls, a call fails, the service ends | what others put there is not lost; an overwritten file is there until the new one is; the answer tells what is on disk |
| OpenTerminal compatibility (`open-terminal.ts`) | none of its own | a foreign API over the executor's operations | executor | as the executor | as the executor |
| browser, desktop, viewer helpers (`browser*.ts`, `desktop-*.ts`, `viewer-actions.ts`) | ordered queues at the executor and at the session runner, observations in progress, dialogs, pointers | input and observation, dialog responses, pointer updates | executor, lease manager (asked before each browser input), Chromium, X11 | requests that are given up but go on, ownership that ends while an operation waits, a dialog in the middle of a batch | at most the input that was on its way reaches the screen after its owner lost control; what was reported as not started is not started; a pointer is of the owner |
| network policy, skills, web (`egress.ts`, `policy.ts`, `skills.ts`, `web.ts`) | the policy in force | classify, fetch, list | executor | - | pure decisions |

### Gateway, one per host

| component | state | operations | with whom | hard | correct when |
| --- | --- | --- | --- | --- | --- |
| gateway (`gateway/src/server.ts`, `routes.ts`) | tickets, viewer sessions, viewer sockets, the queue of control transitions, grace timers, its epoch | open a session, upgrade a socket, take and release control, release abandoned control, prune, proxy | browsers, control service | reconnection during a release, lost answers, sessions that expire while they control | input only behind the fence and from the owner; an owner that is gone is noticed |

### On the host

| component | state | operations | hard | correct when |
| --- | --- | --- | --- | --- |
| state directory and its lock (`cli/src/state.ts`) | `cli.lock`, `cli.lock.reclaim` | take, release, reclaim | crash between any two file system calls, reused inodes, slow writers | one operation at a time; stale locks go away |
| lifecycle transactions (`transactions.ts`, `commands.ts`, `storage-command.ts`) | config, secrets, directories, Compose document, containers, journal | create, rename, delete, restore, apply, backup restore, purge, storage set, recover | interruption between any two durable writes, partial recovery, containers that change from outside | each command takes effect at once or not at all; no revoked token comes back |
| computer lifecycle (`cli/src/lifecycle-operations.ts`) | `computer-lifecycle.json`, the containers of the computer | start, stop, restart, recover | interruption and failing Docker calls, containers replaced or moved from outside | what is changed is on record; recovery finishes it |
| backups (`cli/src/backups.ts`) | archives, staging directories, `backup-create.json`, paused containers | create, verify, restore, prune, recover | interruption while the containers are paused | no computer stays paused; a backup is of one moment |
| dashboard service (`cli/src/dashboard/application.ts`) | plans in memory, records of operations on disk | plan, preview, execute, cancel, restart | state that changes between plan and execution; its process ends during an operation | an outdated plan is not executed; what it reports as over is over |
| migrations and updates (`migrations.ts`, `lifecycle-command.ts`) | receipts and journals | migrate, update all | interruption | resumed or rolled back |
| container runtime, gateway access, secrets and SSH access, dashboard client, command line, shared contracts, images and scripts | - | calls to Docker and other programs, user interface, data | mostly input and output | - |

Interaction: a gateway stamps every request with its epoch; the control service
observes the epoch before it routes the request; tool calls verify the lease
before and after they call the runner; each loss of a lease enqueues a
revocation job that calls the executor's handler, which ends the owner's
session processes in the runner. Human control is taken and released by the
gateway on behalf of a viewer session. The command line program and the
dashboard change routes, files and containers under the lock of the state
directory, and each change of several steps has a journal.

## Modules

| module | models | code |
| --- | --- | --- |
| `LeaseManager` | the object as a record, its methods as functions from record to record | `control/src/lease.ts` |
| `Lease` | the object under requests, its timers and its jobs | `control/src/lease.ts` |
| `InputOwnership` | abstract: what the object promises, with no queue, job or timer | - |
| `ControlService` | the executor and the server around the object | `control/src/executor.ts`, `server.ts`, `previews.ts` |
| `InputQueues` | desktop and browser input from its arrival to its effect, over the methods of `LeaseManager` | `control/src/executor.ts`, `desktop-native.ts`, `desktop-observation.ts`, `browser.ts`, `browser-ownership.ts`, `remote-runners.ts`, `viewer-actions.ts` |
| `Processes` | the command runner: its table, its files and the process groups | `control/src/processes.ts`, `pty.ts` |
| `BoundedFiles` | one mutation of a directory, one system call per step, while others use the directory | `control/src/bounded-files.ts` |
| `ViewerControl` | human control as the gateway sees it | `gateway/src/server.ts` |
| `StateLock` | the lock of the state directory, one file system call per step | `cli/src/state.ts` |
| `Transactions` | the lifecycle transactions, one durable write per step | `cli/src/transactions.ts` and the commands that use it |
| `ComputerRegistry` | abstract: commands that change the set of computers, the trash and the tokens at once | - |
| `HostOperations` | start, stop, restart and backup of a computer, asked for by commands and by the dashboard | `lifecycle-operations.ts`, `backups.ts`, `docker.ts`, `commands.ts` and `dashboard/application.ts` in `cli/src` |
| `MC...` | instances of the above with their symmetry | - |

| module of proofs | about |
| --- | --- |
| `LeaseManagerProofs` | the methods of the lease manager: the lemmas that the proofs of the next three rest on |
| `LeaseProofs` | `Lease` and its refinement of `InputOwnership` |
| `ControlServiceProofs` | `ControlService` |
| `InputQueuesProofs` | `InputQueues` |
| `ViewerControlProofs` | `ViewerControl` |
| `ProcessesProofs` | `Processes` |
| `DirectoryProofs` | what is kept in directories: `StateLock`, `Transactions` with its refinement of `ComputerRegistry`, and `BoundedFiles` |
| `HostOperationsProofs` | `HostOperations` |

`DirectoryProofs` extends three modules, which is why their actions and formulas
have names of their own (`LockInit`, `LockSpec`, `FilesInit`, `FilesSpec` and
so on).

### How they correspond to the code

*Lease.* Node does not interrupt a synchronous stretch of a method, so a public
method is one action. It composes the functions of `LeaseManager` exactly as
the method calls them: most begin with `ExpireIfNeeded`, and those that free
the computer end with `DrainWaiters`. `takeHumanControl()` is the exception: it
awaits the jobs there are and then looks at the object again, so each of its
calls has a phase. The chain `previous.catch().then()` is `queue`, `running`
and `todo`; one call of the handler is one step that succeeds or fails. The
random identifier in a proof is left out, so that uniqueness of proofs is
something to show (`StaleStaysStale`) and not assumed.

*ControlService.* A request is sent, arrives (`observeGatewayEpoch`), waits for
epoch transitions, is routed, and, when it starts something, runs while
everything else goes on. `gateway.broken` is a rejected promise that stays in
`gatewayTransition`. The module reuses the functions of `LeaseManager`. Of the
runner it knows which session processes live (`live`).

*Processes.* `table` is what the manager holds: the stage of each command, the
terminals, the services that wait for a slot (`pending`), those of them that
could not be started, and, beside it, the process groups the kernel still has
(`alive`). A synchronous stretch is one action; what is awaited splits an
operation in two, so a stop, a bulk stop, the end of an owner's sessions and the
restart of a service each have a stage in which everything else may happen.
`FillSlots` is the attempt to start what waits, which the code makes in some
places and not in others. `Appends` is the append to the record file, which may
fail with or without the record in the file, in part (`ShortWrites`), or after
a compaction. Errors that reach no handler end the runner (`RunnerEnds`).
Between operations that have to be finished one at a time, at most
`MaxRequests` are in progress.

*BoundedFiles.* One directory with few names; an object is an inode. `mutation`
is the mutation in progress, with what it holds under hidden names
(`.qubicl-...`) in `hidden` and the identities it has noted. An identity is the
inode and whether its change time and its size are others since it was taken:
`Same` compares both, `SameRenamed` the size, because a rename changes the time;
`Noted` says what happens to an inode to each identity of it. `Make`, `Change`,
`RenameEntry` and `UnlinkEntry` are the workload's. The end of the service
(`Restart`) forgets the mutation; `left` is what then stays under hidden names.

*InputQueues.* A call of an input tool is verified and admitted (`Admit`), waits
in the executor's queue, is verified again and sent (`DispatchDesktop`,
`DispatchBrowser`), and is answered; `desktop` and `browser` are what the session
runner has of it, which outlives the call when it is given up (`Abandon`,
`AbandonProbe`). The desktop helper knows nothing of owners; each browser input
asks for its owner, is sent when the answer arrives, and asks again after it. A
dialog that opens answers every operation of the browser, and its response
(`AdmitResponse` to `RecheckResponse`) goes past both queues. Pointer intents are
`ApplyPointer`, at any time and for any proof that was ever issued, since a
publication may be late. `late`, `behind` and `told` are history: the inputs of
ended owners that took effect since ownership last changed, what was ahead of an
input in the runner, what a caller was told. The executor's strict check after a
call, for tools that start processes, is in `ControlService`.

*ViewerControl.* `transitions` is the chain of `serializeControlTransition`; its
head goes through the phases of one operation. A request to the control service
is executed and answered, executed with a lost answer, executed later, refused,
or not delivered; which answers may be lost is the constant `LosesAnswer`.
`mishap` is history: it is set by the faults that leave the fence standing
without an owner by design, and reset when the fence comes down.

*StateLock.* `withStateLock` unfolded into the calls of `open`, `write`, `stat`,
`read` and `unlink` of its four ways to create a lock file and four ways to
remove one. A command may crash at each of them. Inodes are reused.

*Transactions.* One command runs at a time (that is `StateLock`). `Begin` is
`prepareStateBeforeCommand`; a command either recovers only the durable state or
goes on to the containers (`run`). `Interrupt` is any error or the end of the
process at any step.

*HostOperations.* One operation holds the lock (that is `StateLock`) and is at a
place of the code, `command.at`, in one of its functions, `command.within`. A
call to Docker goes through its containers one by one, each of which it may
change, refuse, or fail on with or without the effect; the answer comes after the
last one. Containers have an identity, which counts how often they were made,
so that a container that somebody replaced is told from the one on record. A
command passes `prepareStateBeforeCommand` and is refused when a journal is
pending; the dashboard executes a plan when the fingerprint of journals and
containers under the lock is that of the plan. `Crash` ends the process between
any two steps, and with the helper its plans; `HelperStarts` reads the records
of its operations again. `frozen` (what a backup has paused) and `since` (how
many outside changes there were when a capture began) are history.
Simplifications: a container that was created and one that has exited are the
same; the restarting status, restart policies and containers with unexpected
labels are left out; the observation of a group is one step; Compose `up` on a
paused container is an error; the records the helper writes when an operation
ends are one step.

## What is checked

Every run finishes its whole state space. `CHECK_DEADLOCK FALSE` is set
everywhere because every system may stop: its bounds are reached, no request
comes, or every command has crashed.

| run | question | bounds |
| --- | --- | --- |
| `lease` | Does ownership move only through fences, are revocations and waiters kept, do takeovers end, does the object implement `InputOwnership`? | two clients, one takeover call at a time, four generations (two full changes of owner with a revocation between them), one epoch reset, two jobs: enough for a job that inherits the failed targets of another while a third change waits |
| `control_service` | What becomes of calls that start processes and cross an ownership change? Which publications does the transition to a second gateway leave, also when its fence fails? | two requests in progress of seven kinds, of which one may be the late one of the old gateway; two gateways; two generations at an epoch, enough for an owner and what ends it; a next owner comes at the next epoch, which calls of the first one reach (owners that follow each other at one epoch are in `lease`) |
| `input_queues` | How many inputs take effect after their owner has lost control? Is an operation that was reported as not started ever started? Whose pointers are shown? | two calls, one client whose leases differ by their generation; two changes of owner (generations and epochs added up), so that an input can meet the end of its owner and a next one; two unfinished pieces of work per tool, so that one can wait behind another that is given up. With two calls the queues are never full: the refusal at 32 is in the guards and not reached |
| `processes` | Does the limit hold, is every free slot used, does what is stopped stay stopped, can every group be found, is a bulk stop complete, do outcomes survive? | a session, a task, two services (one that restarts once, one that never does), a terminal and one slot, so that each of them can hold or miss it; one retained record, so that compaction drops some; one stop, bulk stop or owner's end at a time beside the calls that need no await |
| `files` | Is anything lost, does the answer tell what is on disk, does an edit remove only what it has read? | two names (the least for a move) and four inodes (source, target, staged, and one that the workload makes in between), failing calls, a crash; names and inodes are symmetric |
| `viewer` | Is input fenced and the owner's, is abandonment noticed, is no fence stranded? | two sessions, two sockets, two queued transitions and the timers' own |
| `state_lock` | Do commands exclude each other, and is a stale lock removed? | four commands, two of which may crash (an owner that dies, one that takes the lock in between and dies, a reclaimer, and one that comes and finds the reclaimer's file); three inodes, for the two files and one that is made while the identity of another is remembered; they are used again |
| `transactions` | What does an installation look like when no transaction is pending? Do the files implement an atomic registry? Are revoked tokens safe? Does recovery end? | two computers and two names, so that names move from one to the other; four transactions, interrupted any number of times, with `storage set` and containers that are stopped and started by hand |
| `host_operations` | Is every pause undone, do operations exclude each other, are backups of one moment, is what is changed on record, is what is reported as over over, does recovery end? | two containers (the least that can be in different states), two operations besides recovery, one that is interrupted or one call that fails, one change by hand of one container (they are alike); commands are all five kinds, plans of the dashboard are a stop, a backup and a recovery |

Some properties are phrased around behaviours the code has on purpose or in a
corner, and say so: `AuditPasses` excuses thresholds set by `storage set`, which
does not rewrite `metadata.yaml` until another transaction does
(`storage-command.ts:73`), and `RecoveryEnds` of `HostOperations` the cases
described below. `OnlyLateOnesLeft` allows publications of calls that crossed an
epoch transition, which `control_publication` shows, and `StaleLockReclaimed`
three cases that are described under *Met while modelling*. In run `viewer` the
answer of an automatic release is not lost; those of a take and of a restoration
are.

Violations of what the documentation, a test or a message says, each a run:

* `control_orphan`. A session process whose start response was lost is never
  checked after the call, so it survives the ownership change
  (`executor.ts:223`, against `docs/architecture.md:78`). The compatibility
  route fences this case, which is why `control_service` loses responses only there.
* `control_publication`. `publish_port` verifies its lease, awaits the list of
  ports (`previews.ts:201`) and registers the publication without looking at the
  lease again. A call that is still in that await when an epoch reset clears the
  publications registers its own afterwards, and the capability that was given
  in the old epoch is valid in the new one, against the comment at
  `executor.ts:211` ("Epoch changes still revoke every capability").
  `OnlyLateOnesLeft` says what does hold: nothing registered before the
  transition is left, and the next transition revokes the late one. With
  `openInBrowser` the call is checked again and takes its publication back.
* `processes_torn`. After a record of a task was written only in part, the next
  record continues its line and is lost with it; a restart of the runner then
  finds a task that has exited as running, and records it as interrupted
  (`processes.ts:1480`, against `docs/runtime-reliability.md:34`).

Met while modelling and not runs of their own:

* A command that dies while it has `cli.lock.reclaim` leaves a file nobody ever
  examines; when the lock is stale then or later, every later command ends with
  "retry shortly" and the stale lock stays until somebody deletes the file
  (`state.ts:319`, against the test "a fresh lock owned by a dead PID is
  reclaimed immediately", `tests/unit/transactions.test.ts:443`).
  `StaleLockReclaimed` excuses it (`ReclaimerLeft`), and a record of that file
  that cannot be written (`GuardFailing`), which a retry gets over. Nor is the
  lock reclaimed at once when it was taken and left again behind a reclaimer
  that has already removed one, or that took the identity of the file before:
  that reclaimer ends with an error, and so does the command that meets its file
  (`Refused`); a retry after both does reclaim.
* When the fence of a gateway epoch transition fails, the rejected promise stays
  and every later request fails with it, the takeover that should retry the
  fence included (`executor.ts:1004`, against `docs/security-model.md:68`).
  `control_service` has the transition and its failure.
* Desktop input is verified when the executor sends it. If the runner is still
  busy with a request that was given up after 35 seconds (a `wait` action may
  take 60, `core/src/tools.ts:132`), the input waits there and is executed also
  after a takeover, against `docs/daily-driver.md:32` and
  `docs/security-model.md:85`. `FewLateInputs` does not count inputs that were
  sent behind such a request (`behind = "abandoned"`). Pointer updates are
  compared by generation and not by epoch (`executor.ts:871`); `PointerOfOwner`
  says what holds.
* When the answer of an automatic release is lost and no viewer is connected at
  that moment, the owner is kept though the fence may be down, and a viewer that
  reconnects forwards input without it (`gateway/src/server.ts:1042`, against
  `docs/daily-driver.md:38`).
* A copy onto a directory whose staged entries cannot be removed after the
  commit is answered with `recovery_incomplete` although it took effect
  (`bounded-files.ts:709`), and `mkdir()` may answer a plain error after it took
  effect (the directory it made is gone before it is opened, or cannot be
  opened); `OutcomeTells` names both. A change of the same size between the last
  comparison of an edit and its rename is not seen (`EditKeepsOthersWork` states
  what is). After a crash between hiding an entry and putting the new one in
  place the name is empty, and nothing looks for hidden names again.
* A group of containers that a backup paused and somebody then stopped in part
  is refused by the backup's recovery, which comes before that of the lifecycle:
  `qubicl recover` ends in the same error until the group is repaired by hand.

The type invariants are not among the runs' properties: each is proved. They
say, besides the types, the few relations between fields on which other
definitions rely.

### Fairness

* `Lease`: weak fairness of the revocation job and of the continuation of a
  call. Promise reactions run, and every kill in a handler has
  a deadline after which it throws. No fairness of clients, of the clock or of
  success: a handler may fail for ever.
* `StateLock`: a command whose process exists goes on. No fairness of starting
  commands or of time.
* `Transactions`: a command goes on until it ends or is interrupted; it may be
  interrupted every time. Recovery refuses to replace a container that is not the
  reviewed one, so `RecoveryEnds` excuses containers that were moved by hand.
* `HostOperations`: weak fairness of the steps of an operation (Docker is
  assumed to answer each call, successfully or not), and of `qubicl recover`,
  since `RecoveryEnds` is about an operator who repeats it while a journal is
  pending. No fairness of requests, of the dashboard or of success. The property
  excuses what the code refuses by design: containers on record that were
  removed or replaced, a paused group that was stopped in part, and one paused
  by hand while it is created.
* `ControlService`, `InputQueues`, `Processes`, `BoundedFiles` and
  `ViewerControl` are checked without. What must happen in them is stated as a
  relation that holds at each moment: a service waits only while the computer is
  full (`WaitingOnlyWhenFull`), a service in limbo is there only while work is
  frozen (`LimitHolds`), a timer, a queued release or a close event is always on
  its way (`AbandonmentNoticed`).

## What is proved

Every safety property that a passing run checks is also a theorem, for all sets
of actors, all durations, limits and bounds: the run shows it on an instance
small enough for TLC, the proof on all of them. So are the type invariants and
a few properties that no run has. Each theorem is about the specification
without fairness, which the fair one that some runs use implies.

| module | theorem | property | if |
| --- | --- | --- | --- |
| `LeaseProofs` | `TypeCorrect` | `TypeOK` | |
| | `GrantAfterFencing` | `PredecessorsFenced` | |
| | `RevocationsKept` | `NothingForgotten` | |
| | `HumanExcludes` | `HumanExcludesAgent` | |
| | `TakeoverFenced` | `TakeoverFences` | |
| | `WaitersWoken` | `NoLostWakeup` | |
| | `ProofsStayStale` | `StaleStaysStale` | |
| | `FirstCome` | `FirstComeFirstServed` | |
| | `Refinement` | `ImplementsOwnership` | |
| `ControlServiceProofs` | `TypeCorrect` | `TypeOK` | |
| | `NoOrphans` | `NoOrphanProcess` | `"exec" \notin LosesResponse` |
| | `PublicationsRevoked` | `OnlyLateOnesLeft` | |
| `InputQueuesProofs` | `TypeCorrect` | `TypeOK` | |
| | `LateInputs` | `FewLateInputs` | |
| | `NotStarted` | `NotStartedStaysSo` | |
| | `PointersOfOwner` | `PointerOfOwner` | |
| `ProcessesProofs` | `TypeCorrect` | `TypeOK` | |
| | `LimitKept` | `LimitHolds` | |
| | `NoIdleSlots` | `WaitingOnlyWhenFull` | |
| | `StopsAreFinal` | `StoppedForGood` | |
| | `GroupsAreRecorded` | `EveryGroupRecorded` | |
| | `StopAllCompletes` | `StopAllIsComplete` | |
| | `RunningTasksRun` | `RunningIsLive` | `~ShortWrites` |
| | `OutcomesAreKept` | `OutcomeKept` | `~ShortWrites` |
| `ViewerControlProofs` | `TypeCorrect` | `TypeOK` | |
| | `OwnersInput` | `InputOfOwner` | |
| | `Abandonment` | `AbandonmentNoticed` | |
| | `FencedInput` | `InputFenced` | `NoLostRelease` |
| | `FenceHasReason` | `NoStrandedFence` | `NoLostRelease` |
| `DirectoryProofs` | `LockTypeCorrect` | `LockTypeOK` | `~SlowWriter` |
| | `OneHolder` | `MutualExclusion` | `~SlowWriter` |
| | `ReclaimersTakeTurns` | `OneReclaimer` | `~SlowWriter` |
| | `TypeCorrect` | `TypeOK` | |
| | `AuditsPass` | `AuditPasses` | |
| | `NoConflicts` | `NeverConflicts` | |
| | `TokensRevoked` | `RevokedForever` | |
| | `RegistryImplemented` | `ImplementsRegistry` | |
| | `FilesTypeCorrect` | `FilesTypeOK` | |
| | `FilesKept` | `NothingLost` | |
| | `OutcomesTell` | `OutcomeTells` | |
| | `EditsAreOfWhatWasRead` | `EditKeepsOthersWork` | |
| | `OldEntriesOutlive` | `OldUntilNew` | |
| `HostOperationsProofs` | `TypeCorrect` | `TypeOK` | |
| | `PausesUndone` | `PausesAreUndone` | |
| | `JournalsExclude` | `OneJournal` | |
| | `BackupMoments` | `BackupsAreOfOneMoment` | |
| | `ReportsHold` | `ReportedOverIsOver` | |
| | `ChangesOnRecord` | `ChangesAreRecorded` | |

### From which assumptions

The constants satisfy the `ASSUME`s of the modules, which TLC evaluates in the
runs: durations are positive, there is at least one gateway, queues and the
table of processes have a limit of at least one, bounds are natural numbers,
the values that stand for "nothing" (`NoLease`, `WithoutProof`, `NoCall`,
`NoSession`, `None`, `NoFile`, `Absent`) are none of the values they stand
beside, and the sets that are counted (processes, terminals, containers) are
finite. Nothing is assumed of how many there are.

Four hypotheses are about what the world does, and for each the code does not
promise the property when they fail:

* `"exec" \notin LosesResponse`: the answer of the runner is not lost on the
  control service's own route. With it lost `NoOrphanProcess` is false (run
  `control_orphan`).
* `NoLostRelease` (`LosesAnswer \subseteq {"take", "restore"}`): no answer of a
  release is lost. A release that is executed late lowers the fence under the
  next owner.
* `~SlowWriter`: a process that exists writes the record of its lock within 30
  seconds of creating the file, which is what `state.ts:384` counts on.
* `~ShortWrites`: the record of a task is written whole or not at all. With
  torn records an outcome can change (run `processes_torn`).

### Along which arguments

None of the properties is inductive. Each module of proofs begins with the
invariant that is, the conjunction of named parts with a comment on each; TLC
checked every part on the instance of the run before it was proved. Then comes
one lemma per action, or per part and action where a part concerns few of them,
and a lemma that combines them. What follows is why the parts are needed.

*The lease manager* (`ManagerInv`). `PredecessorsFenced` needs `Remembered`
(what is revoked and not fenced is owed by a job or by the failed list),
because a grant happens when nothing is owed; that needs `QuietJob` (no job in
execution, nothing in `todo`), because beginning a job overwrites `todo`.
`StaleStaysStale` needs `Fresh`: issued proofs are not beyond the current epoch
and generation, so a grant cannot repeat one. `OnlyRevoked` says the converse
of `Remembered`, that no handler is called for the owner, which the refinement
needs. One lemma per method shows that it preserves `ManagerInv`, revives no
proof and only appends jobs (`Moves`); `Moves` is transitive, so a method that
composes helpers follows from their lemmas. *Lease* adds the waiting clients
(`Awake`) and, for each takeover call that waits, that the jobs it waits for
owe whatever of its targets is not fenced yet (`CallInv`), counted exactly as
the chain of promises counts them.

*ImplementsOwnership.* Every step of `Lease` is one of two kinds (`NextOwner`):
the owner stays, leaves or enters and nothing is fenced (`OwnerChange`), or one
former owner is fenced and nothing else (`FenceOf`). Each kind is a step of
`InputOwnership` or a stutter. `FirstComeFirstServed` comes from the same
lemma.

*ControlService.* A process belongs to its owner, to an owner whose fencing is
owed, or to a call that has still to check its proof, which was issued
(`ProofsIssued`). For publications the invariant follows the job that an epoch
transition waits for: as long as a publication registered in an old epoch is
there, that job has a target that clears it (`PurgeAhead`). Since proofs are not
of later epochs than the manager's (`InOrder`), what is left of an older epoch is
of a call that crossed the transition.

*InputQueues.* `QueuesInv` says who is in the executor's queues and that only
the head has been sent; `DesktopInv`, `BrowserInv` and `ProbeInv` relate what
the runner has to who waits for it, so that what waits there waits behind
something abandoned. Then at most one input is let through without having
waited, and `LateInv` says that after the first late one the rest are the
owner's. `Calm` is what these calls make of the lease manager, and
`PointersInv` that a job which removes pointers is ahead while they are a
former owner's.

*Processes.* `TableInv` counts slots and says that each living group has a
record, `SavedInv` where a saved service is (waiting, not removable, or in the
table), `WaitInv` that nothing which ends without looking for waiting services
was started before they were tried, `BulkInv` what a bulk stop has still to do.
`HistoryInv` relates records in memory, the record file and the process of a
task, where records are not torn.

*ViewerControl.* Of an owner without a viewer something is always on its way
(`Noticed`): the timer, a queued or executing release, the close event. The
fence (`FenceInv`) is down under an owner only after that owner's release,
while its viewers are paused; there is one owner, and the transition in
execution is about it. `ReasonInv` keeps why the fence is up.

*StateLock.* The lock and the reclaimer's file belong to one command from their
creation to their removal (`Owning`, `Guarding`). What a reclaimer goes by
stays true while it acts (`Condemning`): the file it will remove is of a
process that is gone, and only another reclaimer could replace it.

*Transactions.* A journal says the same of a computer in all its parts
(`JournalInv`), and whatever was interrupted, each directory is where the
journal needs it (`Needed`); that is why the recovery never conflicts. How far
the command is says what is done (`StepInv`, `DirectoriesDone`, `StateDone`,
`CommittedInv`, `ContainerInv`), so that at the end what is on disk is what the
journal says (`Consistent`). A restore whose directory is incomplete has
changed nothing (`Untouched`), so it can be undone. Tokens are those of begun
transactions, and those in a prepared journal are the present ones, or new
(`TokenInv`).

*ImplementsRegistry.* A transaction takes effect when its journal is written,
that of a restore from a backup when its directory is complete (the last
`FillStage`), and a purge and `storage set` at once. In the refinement mapping
a computer is as the journal has it from that moment on and as the files have
it otherwise; the two agree when the journal goes (`Consistent`), so every
other step, interruptions and recovery included, is a stutter (`InEffect`,
`OutOfEffect`).

*BoundedFiles.* An inode that is not free is at one place (`PlaceInv`); a lemma
for each way a system call moves one shows that it stays so, and needs that
what is renamed exists and that what it is renamed to does not: a table of what
is hidden at each step says so (`Shape`, `HidesOnly`, `HidesAll`). `Progress`
says which outcomes are possible at each step; from both follows what the
answer tells (`Told`). For edits the identity that was read and the one noted
of the hidden file are of one inode, and a change of the size changes both
(`EditInv`).

*HostOperations.* Where a command is determines which journals there are
(`ControlInv`, `JournalInv`). The dashboard does not look at the journals, only
at the fingerprint of its plan: operations are numbered (`NumberInv`), so a
journal that a plan has seen can come back only with another number, and a plan
whose preview found none (`PlanInv`) is executed only while there is none. The
calls to Docker name what the journal names (`CallsInv`), what is paused is in
the journal (`PauseInv`), and a capture finds the home still as long as nobody
used Docker (`MomentInv`).

### Only model-checked

`TakeoverEnds`, `StaleLockReclaimed` and both `RecoveryEnds` are liveness
properties: they need fairness and `ENABLED`, which the proof system does not
handle. TLC checks them on the instances above.

## What is not modelled

* Durations: a lease has a few ticks, a timer fires or not.
* The contents of homes, messages and tool results; of files, the size only.
* Of the executor: dispatch of tools that keep no state of their own.
* Of desktop and browser input: observations without an owner, the replacement of
  a text in steps, several dialogs or tabs at once, handlers that fail (they are in
  `Lease` and `ControlService`), positions and order of pointers, and that every
  call is answered in the end: with fairness the state space is too large.
* Of the runner: input and output, output journals and their paging, readiness
  probes of services, the protocol of terminals.
* Of files: symbolic links, parent directories and mount points, what directories
  contain, processes that touch hidden names, reading, searching and archives.
* Of the gateway: proxying, rate limits and tickets. That an abandoned owner is
  finally released depends on the control service answering, and only
  `AbandonmentNoticed` is checked. In `ViewerControl` the control service is not
  restarted, which would end the human control that the gateway has taken.
* Of transactions: gateway steps and image acquisition beyond their success or
  failure; upgrade and configuration transactions, which use the replacement
  steps that are modelled with other reviewed containers. A container that was
  created and one that has exited are the same, while `sameRuntimeBinding`
  (`docker.ts:2649`) compares the exact status: the code also refuses a source
  that went from one to the other by hand, a case `RecoveryEnds` excuses.
  `Purge` is one step, so an interrupted recursive removal is not seen.
* Of the host's operations: `up` and `down`, the update of all computers and its
  journal, live backups, checkpoints and clones, encryption, verification and
  pruning of backups, images, health probes and the gateway beyond their success or
  failure. Transaction journals, which also stop these operations, are in
  `Transactions` and not combined with those of `HostOperations`.
* Of the dashboard: login, sessions, the event stream and what is only read; the
  dashboard's stop of several computers at once.
* The components marked `not_modelled` in `PROJECT.json`, each with its reason.

## Plan

In order; the first is the most important part that is missing.

1. `Upgrades`: the update of all computers (`lifecycle-command.ts`) and the
   migration of the state directory (`migrations.ts`), with their journals.
2. The composition of `ControlService` with `Processes` in place of its set
   `live`, so that the fence that fails and is retried ends real groups.
3. Proofs of the safety properties that the first two add.
4. `InputQueues` in two parts, desktop and browser, small enough for the liveness
   of calls.
