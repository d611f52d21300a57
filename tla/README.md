# Verification of yandex contest invoker

The invoker runs groups of untrusted processes in an LXC container, under CPU,
memory and real time limits, connects them with pipes, tells some of them what
happens to the others and reports how each of them and the group ended. This
directory holds TLA+ modules for it, the TLC configurations that check them and
TLAPS proofs of every safety property that a passing run checks.

To check a configuration run TLC on its module, as in `tlc -config
starter_verdict.cfg MCProcessGroupStarter`; to check the proofs of a module,
`tlapm ProcessGroupStarterProofs.tla`. `PROJECT.json` names the module of each
run, maps every definition to the lines it models and lists the mutants,
hazards, findings and theorems. Paths below are relative to the repository;
`PGS` is `src/lib/detail/execution/AsyncProcessGroup/`.

## 1. The system

Two processes of the operating system take part. The *client* links the library
and calls `Container` and `ProcessGroup`; starting a group runs `lxc-execute`, in
whose container the *control process* (`src/bin/ctl.cpp`) reads a task from its
standard input, executes it and writes the result to its standard output. A
process of the group may link the library too and read events with `Notifier`.

    client                                  container
    cli --> Container --> Lxc =========> lxc-execute --> ctl
             |    |                          |
             |    +-- Filesystem             |
    ProcessGroup --- AsyncProcessGroup <---- ProcessGroupStarter
      (task)             (result)            |   ExecutionMonitor   (main thread)
                                             |   ProcessInfo[id]    (main + loader)
                                             |   Notifier           (io thread)
                                             +-- ProcessStarter --> child processes
                                                                      Notifier (reader)

| component | state | operations | what makes it correct |
|---|---|---|---|
| `PGS/ProcessGroupStarter` | pid to id map, io service, worker threads, `realTimeLimitPoint_` | constructor, `executionLoop`, `terminate`, `waitForAnyChild`, `memoryUsageLoader` | every group ends; nothing outlives its result; `wait()` is never called without a child; control groups are given up only when no thread reads them |
| `PGS/ExecutionMonitor` | `running_`, `terminated_`, `groupWaitsForTermination_`, `terminateGroupOnCrash_`, the result, the signals | `started`, `terminated`, `terminatedBySystem`, `allTerminated`, `realTimeLimitExceeded`, `runOutOfResourceLimits` | the sets partition the ids; verdicts are earned, explained and final; events agree with results |
| `PGS/ProcessInfo` | pid, control group, atomic `terminated_`, atomic `maxMemoryUsageBytes_` | `terminate`, `fillResourceUsage`, `updateMaxMemoryUsage...` | the high-water mark never falls; killing misses nobody |
| `wait`, `waitFor`, `waitUntil` in `PGS/ProcessGroupStarter.cpp` | interval timer, `untilPoint` | waiting for a child with a timeout | a child that was reaped is returned; the call comes back |
| `PGS/ProcessStarter`, `DescriptorMonitor` | `descriptors_`, `childCloseFds_`; used, required, free and moved descriptors | constructor, fork, `startChild`, `freeRequiredFds`, `moveMappedFd` | each stream arrives at its descriptor and nothing else is inherited |
| `PGS/Streams` | pipes | `getFd` | files, pipe ends and aliases become descriptors |
| `PGS/Notifier`, `EventWriter` | a queue and a connection per notifier | `spawn`, `termination`, `close` | events in order, close last, no reader stops the control process |
| client `Notifier` | descriptor, one inbound event, strand | `start`, `close`, `handle_read` | every event handed out once, in order; the error last |
| `AsyncProcessGroup` | control process, optional result | `wait`, `poll`, `stop`, move | one result, read once |
| `ProcessGroup`, `Process` | task, `container_`, `processGroup_`, `result_` | building the task, `start`, `stop`, `poll`, `wait`, `result` | the task sent is the one built; pointers tell the state; answers are final |
| `Container` | directory, `Lxc`, `Filesystem` | `create`, constructor, `execute` | one directory each, none left behind |
| `lxc/Lxc` | configuration, `lastStart_`, the LXC state | `prepare`, `execute`, `stop`, `freeze`, destructor | one group at a time; stop stops; what was mounted on exists |
| `lxc/Config`, `MountConfig`, `RootfsConfig` | configuration | `patch`, output | later settings win, the root stays the container's |
| `Filesystem`, `filesystem/*` | root | `push`, `pushLink`, `pull`, `setOwnerId`, `setMode`, creation of files, `keepInRoot` | a path stays in the root, symbolic links apart; a file is what was asked for |
| `ContainerConfig`, `process::DefaultSettings` | defaults | default and environment configuration | every process gets the defaults in force |
| `cli` | options | `main`, `execute` | success means that what output there is has arrived |
| `ctl` | - | `main` | a result, or a failing exit status |

What is hard here:

- *interleaving*: the main thread, the memory loader thread and the io thread of
  the control process, every child between `fork` and `exec`, tasks that outlive
  the child that started them, the kernel delivering SIGKILL later than `kill`
  returns; on the client's side an `lxc-execute` that comes up in its own time,
  `close()` called from another thread, clients that create containers at once;
- *signals*: a SIGALRM that comes too early, too late or to another thread, a
  SIGPIPE before it is ignored;
- *ordering*: crash, limits, deadline, two signals with a meaning of their own
  and the mark TERMINATED_BY_SYSTEM compete for one status field, and three
  causes for the verdict of the group; streams are moved over each other's
  descriptors in the order of a hash map; `chown` after `chmod` loses set-id bits;
- *partial failure*: process k cannot be started, setting up a child fails, an
  exception leaves `executionLoop` with threads running, a constructor throws
  after the directory was made, `lxc-stop` or `remove_all` fails;
- *timeouts*: `waitInterval`, the real time limit, the 200 ms grace of `Lxc::stop`.

`PROJECT.json` lists each hazard at its line with the properties aimed at it.

## 2. Modules

| module | models | lines it stands for |
|---|---|---|
| `ProcessStatus` | how a wait status and counters become a completion status | `PGS/ExecutionMonitor.cpp`, `process::Result` |
| `ProcessGroupStarter` | the control process: two threads, the children, the kernel, the clock | `PGS/ProcessGroupStarter.cpp`, `ExecutionMonitor.cpp`, `ProcessInfo.cpp`, `startChild` |
| `ProcessGroupExecution` | abstract: what the execution of a group promises | (the specification) |
| `MCProcessGroupStarter` | instances for TLC | - |
| `WaitUntil` | waiting for a child with a timeout | `wait`, `waitFor`, `waitUntil`, `IntervalTimer` in `PGS/ProcessGroupStarter.cpp` |
| `NotifierClient` | the reader of events | `src/lib/Notifier.cpp`, `AsyncReader` as `Notifier` uses it |
| `Notifications` | composes both with the main and io threads and the pipe between them | `PGS/ProcessGroupStarter.cpp`, `PGS/Notifier.cpp`, `EventWriter` |
| `Descriptors` | how descriptors reach a process | `PGS/ProcessStarter.cpp`, `Streams.cpp` |
| `ProcessGroup` | the life cycle of groups at the client | `ProcessGroup.cpp`, `AsyncProcessGroup.cpp`, `Container.cpp`, `Lxc.cpp` |
| `Maps` | one more entry in a map | `std::map` |
| `Filesystem` | files, as functions from disk to disk | `Filesystem.cpp`, `src/lib/filesystem/` |
| `LxcConfig` | patching configurations | `src/lib/lxc/*Config.cpp` |
| `ContainerConfig` | default configurations | `ContainerConfig.cpp` |
| `Container` | containers and their directories on one host | `Container.cpp`, `Lxc.cpp` |
| `Task` | the task and the calls that build it | `ProcessGroup.cpp`, `Process.cpp`, `DefaultSettings`, `AsyncProcessGroup.hpp` |
| `Cli` | composes containers with their clients | `src/bin/cli.cpp`, and those clients |
| `MCCli` | a host for TLC | - |
| `FoldTheorems` | what a loop over a sequence computes | - |
| `...Invariant`, `...Proofs` | inductive invariants and theorems, section 4 | - |

Operators whose comment starts with "Slip" are not part of any specification:
each is a mapped definition with a plausible mistake in it. `PROJECT.json`
"mutants" pairs each property with one of them, and replacing the definition by
its slip makes TLC report the property, so no property holds whatever the code
does.

### ProcessGroupStarter

`pc` is the main thread's place in the constructor and `executionLoop`, `lpc`
the loader's in `memoryUsageLoader`. One action is one stretch of code between
two points where the other threads, the children or the clock can make a
difference:

| `pc` | code | actions |
|---|---|---|
| `start` | loop over `task.processes` in the constructor | `StartProcess`, `StartFails`, `StartLoop` |
| `loop` | `while (monitor_.processGroupIsRunning())` | `TestGroup` |
| `scan` | `for (id : running())`, `runOutOfResourceLimits` | `CheckLimits`, `CheckLimitsDone` |
| `waitFor` | `waitForAnyChild(waitFor)` | `Reap`, `WaitTimesOut` |
| `kill`, `killCgroup`, `mark` | `ProcessInfo::terminate`, in the order `kill`, `cgroup::terminate`, `terminated_.store`; `caller` is where it returns to | `KillPid`, `KillControlGroup`, `MarkTerminated` |
| `reaped` | `ExecutionMonitor::terminated` | `MonitorTerminated` |
| `deadline` | `Clock::now() >= realTimeLimitPoint_` | `CheckDeadline` |
| `killAll` | "terminate each running process" | `TerminateNext`, `TerminateDone` |
| `collect` | `while (processesAreRunning())` with an unlimited `wait` | `Reap`, `AllTerminated` |
| `join`, `cleanup`, `unset` | `join_all`, "Closing control groups" | `JoinWorkers`, `CloseNonEmpty`, `UnsetControlGroup`, `ReturnResult` |

A child is `setup` between `fork` and `attachSelf` (SIGKILL by control group
misses it there), then `running` (before and after `exec`), `zombie`, `reaped`.
`descendants` are the other tasks of its control group. `kill` makes SIGKILL
pending and the kernel delivers it in a step of its own, so a process may still
exit, fork no more, or use more CPU in between. The task (`waits`, `crash`) is
chosen in `Init`, so one run covers every combination of
`groupWaitsForTermination` and `terminateGroupOnCrash`.

`ProcessGroupExecution` is what a group's owner is promised: processes finish
with a status, a crash that counts, the deadline or the end of the waited-for
processes closes the group, only then may the system terminate the rest, and
the report comes when all have finished. `ImplementsExecution` is the refinement
mapping (`Phase`, `groupStatus`, `Outcome`).

Abstractions, with their reasons:

- CPU counters are the set of limits they are over (`exceeded`, which only
  grows, as the counters do). Memory is a small number, because its mark is
  maintained by two threads that race.
- The wait status is an exit code of zero or not, SIGKILL, SIGXFSZ, SIGUSR2
  (which is `SIG_START_FAILED`) or any other signal.
- `cgroup::terminate` is one step: it freezes the control group before it sends
  SIGKILL, so no task can fork while it runs. It lives outside this repository.
- The loops over `running_` pick ids in any order; the code's order is that of an
  unordered set.
- Waiting with a timeout is "a dead child or nothing" here; that the timer and
  SIGALRM amount to it is what `WaitUntil` is for.
- `MarkTerminated` puts setting `terminated_` and the exchange-if-zero of the
  mark together with the callers' `terminatedBySystem`: a loader step between
  them has the same effect before or after.
- Exceptions inside `executionLoop` and the io thread are in `Notifications`.

### WaitUntil, NotifierClient, Notifications

`wpc` is the main thread's place in `waitUntil` or in the untimed `wait`.
SIGALRM is `alarm`: pending for the process until it interrupts `wait()` or is
missed, because it is taken by another thread or outside the call. The timer is
repeated ("in case event is missed") and disabled before the clock is looked at
again; one that was on its way then stays pending and hits a later call.

`NotifierClient` is the library's `Notifier` with one outstanding read, one
buffer and a strand. A read that fails because `close()` took the descriptor may
fail with either error the kernel can give; `close()` comes from a slot, where
`dispatch` runs its function at once, or from another thread, where it queues.

`Notifications` composes them: `emitted` is what the monitor's signals hand to
the writer, `written` how far the io thread got, `pipe` the kernel's buffer, and
process 0 of the group is the reader. Limits and verdicts are left out; that the
group is over is a free choice (`GroupIsOver`). Kept as the code has them:

- the control process drops its read ends (`pipes_.clear()`) before SIGPIPE is
  ignored, and in between a reader that is gone kills it (`WriteFails`);
- `ioService_.stop()` abandons what is queued. `allTerminated()` emits the close
  event when every process, the reader included, has been collected, so a
  reader in the group never hears it: it sees at most the end of the pipe;
- `work_` keeps `run()` alive on an empty queue, so `stop()` is needed to end it;
- an exception out of `executionLoop` destroys the io service under its thread
  (the FIXME says that the block after it is skipped). That is undefined
  behaviour: the control process fails as `main` would have it, or hangs;
- write ends of notifier pipes reach no child, which rests on the external
  library setting close-on-exec.

### Descriptors

The kernel's descriptor table, first the control process's, from
`ChildCloseFds` on the child's. `Resolve`/`ResolveAlias` are the two passes of
`ProcessStarter`'s constructor, `OpenFails` an `open` or `dup` that throws,
`FreeNext` one round of `freeRequiredFds`, `NoneFree` the round that finds no free
descriptor left, `MoveMapped` one `moveMappedFd`. Both moves are `MoveFd`, and
`MoveResult` has the assertions of `copyFd` and `closeFd` and the `dup2` between
them; a step that meets an assertion ends in `asserted`, one whose `dup2` throws in
`startFailed`. Kept as the code has them: `fdMap_` uses 0 for "not moved", and
`closeFd` passes a truth value as the position to `dynamic_bitset::set`. The control
process itself holds only its standard streams and the pipes; `MaxFd` stands for
`getdtablesize()`.

### ProcessGroup

Every public call of a group is an action whose `answer` is what the caller
sees: a value or the name of the exception. `proc[g]` is the group's
`lxc-execute`; `starting` is the time in which the container's state does not
show it yet. `stop()` is the only call with a middle: `client` is `killing`
while `Lxc::stop` runs and `waiting` in the `wait()` that follows, and
lxc-execute takes its steps in between. `start()` may be refused by a container
that runs already, or fail although it does not (`lxc-info` or `lxc-execute` could
not be run); ids of notifiers may be out of range. One thread makes all the calls,
which `Lxc::execute_` demands; a call that blocks is a disabled action.

### Filesystem, LxcConfig, ContainerConfig, Container

A disk maps host paths (sequences of names) to nodes with kind, owner, mode,
data and inode; hard links share the inode. An operation is a function from a
disk to a disk and whether it threw, and `Then` is "unless that threw". Failing
half way leaves the disk as it was by then. `KeepInRoot` and the order of
`chown` and `chmod` are what the code does, component by component and call by
call.

Symbolic links are created by the configuration (the default `/dev` has some) and
hold absolute paths. `keepInRoot` looks at names only, so on the host every call
follows them, and out of the root if that is where they lead. `Followed` is where a
path leads to the kernel, `Named` what it names when its last component is not
followed, and each operation takes the one its system call takes: `stat`, `chown`,
`chmod`, streams and `exists` follow, `lchown`, `remove_all`, `link` and the making
of a new name do not, `create_directories` goes through a link to a directory and
`copy` copies a link as a link. A path with more than `MaxLinks` links is one the
kernel refuses. A program in the container follows the same links below the
container's root (`Inner` in `Cli`).

`Container` follows one container per client from `idle` through `naming`,
`constructing`, `filling`, `alive`, `destroying`, `removing` to `gone` or, where
`create()` threw, through `undo` to `failed`. Every constructor may throw at its
start or its end besides where its own calls fail. `placed` remembers per path
what the client or the configuration asked for last; it is there for `FilesAsAsked` only. A
file that was reached through a symbolic link, or that an entry for another path
makes a link of, is not kept in it: what is there then depends on where the link
leads. `lxc` is the state the LXC tools show; `DestroyStops` lets
`~Lxc` fail to stop, which the code ignores. What `ConstructLxc` or
`CreateConfiguredFiles` do to the disk is one step: only the client that has the
name works below that directory. `create_directory` is the step clients compete
for.

An optional value is a set of at most one; `Patch` treats the fields of
`lxc::Config` as its three kinds: overridden, and the two that are patched field
by field when both sides have them.

### Task, Cli

`Task` has the calls of `ProcessGroup` and `Process` that build a task. A field
holds where its value came from (initialiser, default settings, replaced default
settings, a setter), not the value. `Cli` gives each client of `Container` a
role: `files` calls the file system, `builder` builds a task in any order and
starts it, `holder` has a container and drops it, and `cli` runs `main()` and
`execute()` from options to exit code. The program in the container is not the
repository's: it copies its standard input to its standard output and complains
on its standard error, which is enough to see whether the streams of the options
reach it and come back. `Succeeds` is a program whose streams were opened and that
ended by itself: `result` is "OK". Everything else is `Fails`: a stream could not
be opened (a configuration has made a directory of the name), the program crashed
or was cut short by a limit at whatever point of its writing (`Interrupted`), of
which `ctl` writes a result as well ("other"), or the control process died without
one ("none"). Only in the last case `WaitForTask` throws. What the result says of
the program, the command line program prints and does not look at: it pulls what
output there is and exits with success.

## 3. Runs

| run | question | instance |
|---|---|---|
| `starter_verdict` | Do exits, a limit and the deadline combine to the right statuses, verdict and events, and is it an execution as promised? (`TypeOK`, `MonitorPartition`, `WaitHasChild`, `LimitKillIsReported`, `GroupOkIsEarned`, `AbnormalHasCulprit`, `EventsMatchResults`, `LoaderHasControlGroup`, `ResultIsFinal`, `ImplementsExecution`) | 2 processes, every task, one CPU limit, exits 0 and not 0; 3.3 million states |
| `starter_limits` | Has every status of a process its evidence, and is the memory mark a high-water mark? (`StatusIsExplained`, `MemoryHighWater`) | 1 process, all limits, all wait statuses, memory 0..2 with limit 1 |
| `starter_timed` | With a real time limit, does everything end, and does nothing outlive its result? (`ReapedIsSilenced`, `Inductive`, `Termination`) | 2 processes, one leaves descendants behind |
| `starter_untimed` | Without help from the clock, are limits enforced and does the group end with the processes it waits for? (`LimitsAreEnforced`, `GroupEndsWithWaited`) | 2 processes that run for ever once they are set up, one CPU limit; they end by failing to start or by being killed |
| `notifications` | Does waiting tell the truth, whatever SIGALRM does? Do events arrive, in order and once, and can a reader keep the result back? (`TypeOK`, `WaitTellsTruth`, `EveryDeathIsTold`, `DeliveredInOrder`, `AbandonedUnheard`, `ErrorIsLastAndTrue`, `WaitForReturns`, `EventsReachReader`, `ReachesResult`) | 2 processes, a pipe for 1 event; 218 thousand states |
| `descriptors_with_stdin` | Do all streams arrive, and nothing else? (`TypeOK`, `NoStreamLost`, `StreamsArrive`, `SetUpSucceeds`) | every task over descriptors 0..4 that names 0, one pipe, 9 descriptors; 639 thousand states |
| `descriptors_without_stdin` | violation of `MonitorEndsTidy` | descriptors 1 and 3 |
| `group_lifecycle` | Is the state of a group consistent in any order of calls? (`TypeOK`, `PointersTellState`, `ResultsMatchTask`, `AnswersAreFinal`) | 2 groups of one container; 762 thousand states |
| `group_second_start`, `group_stop` | violations of `OneGroupAtATime`, `StopsItsProcesses`, section 5 | 2 groups |
| `container` | Are directories owned, files as asked, tasks as built, outputs delivered and paths kept in the root, whatever fails? (`TypeOK`, `OneOwnerEach`, `FilesAsAsked`, `TaskAsBuilt`, `CliDelivers`, `KeptInRoot`) | 2 clients in four casts, 3 names of which one is taken, 3 calls each, three configurations besides the default and three patches; 494 thousand states |
| `cli_limits` | violation of `LimitsReachTask`, section 5 | one `cli` |

Why these bounds are enough to be of use. Two processes are the least that have
one awaited and one not, one that crashes and one that is killed for it, one
reaped while the other is not attached yet, a loader that is at one while the
other is terminated, and a reader and somebody to read about; all the monitor's
rules speak of one process and "the rest". The statuses of one process depend on
nothing of another, so all limits and wait statuses are crossed with one
process. A single CPU limit with two processes suffices since the limits differ
only in the order `collectResourceInfo` looks at them, which `starter_limits`
covers. Memory 0..2 with limit 1 has a value below, at and above the limit and
lets a lost exchange lower the mark. A pipe for one event is full after the
first, so the io thread blocks with more queued. Five descriptors and one pipe
have chains and cycles of streams standing in each other's place, aliases of
each kind, and a pipe end left unused. In a table of nine (`MaxFd` = 8) four of the
five always have room to be moved and all five do not, so that the assertion of a
free descriptor is met and `RoomToMove` is on its boundary. All safety properties of these runs are
proved for every bound (section 4); the bounds of a run serve to have the interesting
cases happen and the slips found.

Three names (`Names`), one of them taken
(`Foreign`), and a counter of three (`Attempts`, ten in the code) let two
creators collide, run out of tries and find the last free name. Three calls
(`MaxCalls`) reach a file pushed over one that was pushed, its attributes set,
and a directory in its place; three building calls (`MaxBuild`) a process made,
a setting and one that comes too late. The casts are run side by side rather than
against each other except for creation, since clients share nothing but
`containersDir`. `MCConfigs` has a configuration that fails half way, one with
an fstab, set-id bits, a link to a directory of the host with a file made through
it, a file called `/stdout` and a directory called `/stderr` (so that the program
finds the one in its way and can do nothing about the other), one whose `/stdout`
is a link to a file of the host, and the default one. `MCRemotes` reaches beside the
root, through that link and at it. Two links (`MaxLinks`) are one more than any path
of the instance meets: none is refused for its links.

Deadlock is looked for in every run but `container` and `cli_limits`: there the
host stops when its clients are done. `Ended` says where the other systems may.

Fairness. In `ProcessGroupStarter`, `TimedSpec` and `UntimedSpec` ask for weak
fairness of the main thread, of the loader thread and of the delivery of SIGKILL
(the operating system runs runnable threads and delivers signals) and of
`ContainerDies` (a container whose init has ended is taken down). A child owes
nobody anything: it may never leave `startChild`, never exit and fork at will,
since it runs a stranger's program. `TimedSpec` adds that the steady clock
reaches the real time limit. `UntimedSpec` models a limit too large to matter:
the clock never gets there, so nothing but the loop itself can end the group. It
adds strong fairness of reaping a given child: `wait()` returns a dead child at
once, so for a round to end empty-handed in spite of one the scheduler must have
eaten the whole `waitInterval`, and it does not do that in every round. Which of
several dead children `wait` returns is the kernel's choice, but each can be
returned once.

`Notifications` asks for weak fairness of the main thread, of the io thread's
writing and returning, of the interval timer and of `untilPoint` passing, of the
death of processes that were killed, and of the io service of the reader, which
its owner runs. Strong fairness says that not every SIGALRM is missed: the timer
repeats every 10 ms until `wait()` comes back. Nothing says that the group is
ever over or that a process ends; `ReachesResult` starts from where it is.

## 4. Proofs

Eight modules hold proofs. Each covers every value of the constants that
satisfies the named assumptions, which only give the constants their types
unless said otherwise.

| module | theorems |
|---|---|
| `ProcessGroupStarterProofs` | `TypeCorrect`, `InductiveInvariant`, `PartitionCorrect` (`MonitorPartition`), `WaitCorrect` (`WaitHasChild`), `SilenceCorrect` (`ReapedIsSilenced`), `LimitKillCorrect` (`LimitKillIsReported`), `GroupOkCorrect` (`GroupOkIsEarned`), `AbnormalCorrect` (`AbnormalHasCulprit`), `LoaderCorrect` (`LoaderHasControlGroup`), `RefinementCorrect` (`Spec => ImplementsExecution`), `FinalCorrect` (`ResultIsFinal`), `ExplainedCorrect` (`StatusIsExplained`), `MemoryCorrect` (`MemoryHighWater`), `EventsCorrect` (`EventsMatchResults`) |
| `NotificationsProofs` | `TypeCorrect`, `WaitCorrect` (`WaitTellsTruth`), `DeathsAreTold` (`EveryDeathIsTold`), `OrderCorrect` (`DeliveredInOrder`), `ErrorCorrect` (`ErrorIsLastAndTrue`), `AbandonedCorrect` (`AbandonedUnheard`), and the invariants `InductiveInvariant`, `TransportInvariant` |
| `DescriptorsProofs` | `TypeCorrect`, `StreamsKept` (`NoStreamLost`), `ArriveCorrect` (`StreamsArrive`), `SetUpCorrect` (`SetUpSucceeds`), each for tasks that name descriptor 0 |
| `ProcessGroupProofs` | `TypeCorrect`, `InductiveInvariant`, `PointersCorrect` (`PointersTellState`), `ResultsCorrect` (`ResultsMatchTask`), `AnswersCorrect` (`AnswersAreFinal`) |
| `FoldTheorems` | none of its own: `FoldSteps`, the lemma about left folds that the loops below rest on |
| `FilesystemProofs` | `KeptPaths`, and a lemma per operation on a disk |
| `ContainerProofs` | `CreateFilesFulfils`, `PatchAssociative`, `PatchPrintable`, and a lemma per action of `Container` |
| `CliProofs` | `Invariant`, `TypeCorrect`, `OwnersHold` (`OneOwnerEach`), `FilesHold` (`FilesAsAsked`), `RootsHold` (`KeptInRoot`), `TaskBuilt` (`TaskAsBuilt`), `DeliversHold` (`CliDelivers`) |

**The control process.** None of the safety properties is inductive alone: each
speaks about the moments when results are recorded, and its truth rests on where
the main thread has been before. `Inductive` adds, in parts with a lemma each:

- `SetsInv` (`SetsStep`): what the id sets are at every control point, above all
  that a for loop visits running processes only and that the loop is never
  entered, nor a child waited for, with no process running;
- `ChildInv` (`ChildStep`): a child is reaped exactly when its result is recorded
  or about to be, which is what makes `wait()` safe;
- `VerdictInv` (`CulpritStep`, `BySystemStep`): in the loop, a running process
  marked TERMINATED_BY_SYSTEM is over a limit *now*. That is the argument behind
  `LimitKillIsReported`: `terminatedBySystem` overwrites the limit's status, but
  readings never go back under a limit (`OverrunGrows`), so `terminated()`
  finds it again;
- `SilenceInv` (`SilenceStep`): between `kill` and the monitor's record, what is
  left in the control group has been killed (`GoneStaysGone`: a dead process
  does not fork);
- `LoaderInv` (`LoaderStep`): the loader is off before and done after the life of
  the control groups.

`TypeStep` and the `...Step` lemmas have one step per action of the main thread
and one for the others (`BackgroundStep` says what these leave alone). TLC checks
`Inductive` in `starter_timed`. The refinement takes each action to `Finish`,
`Expire`, `Close`, `Report`, `Fail` or a stutter (`UnseenStep`); `Inductive` is
needed for "only then may the system terminate the rest". The properties of
results add evidence that is kept (`EvidenceInv`: readings grow, a reaped process
keeps its wait status), `MemoryInv` (nothing recorded was not used) and
`EventsInv` (who has no event has no control group, and a close comes after the
loops).

**Notifications.** `Inductive` says that a child that was reaped and not told is
held in `rpid`, and at which points of `waitUntil` it can be held; SIGALRM and
the clock change none of it. `Transport` is about the other end: `delivered`, the
buffer, `pipe` and the rest of `emitted` are one sequence cut in four (`FlowInv`),
one read is outstanding or queued at a time (`StrandInv`), and after an error
nothing is read (`ReaderInv`). Only when nobody can read, or after the close
event, is the count of what was written more than what is in the three.

**Descriptors.** The invariant follows the phases. While streams are resolved,
each has a descriptor of its own that refers to what was asked (`PlacedInv`) and
the ends of the pipes are there (`ParentInv`). While they are moved, `used` is
exactly where they are, two are never in one place (`MonitorInv`), and a
descriptor below `freeFd` is not looked at again (`FreeInv`), which makes the
misplaced bit of `closeFd` harmless. `0 \in Always` is needed: with descriptor 0
required no stream is moved there, and `getMappedFd` can take 0 for "not moved".
Section 5 has what happens otherwise. Whether a free descriptor is left is a matter
of counting: as long as the task names at most half of the table (`RoomToMove`),
there are at least as many free descriptors from `freeFd` on as streams that stand
in the way (`Ahead`), and a round uses up one of each. `SetUpCorrect` therefore leaves
two assertions that can fail, that one beyond half of the table and the one against
a pipe end that is named twice.

**The client.** In every state, those in the middle of a `stop()` included,
`container_` is null exactly when there is a result; `stop()` keeps the container it
has checked, and the task of a started group is the one that was sent. What follows
the wait in `stop()` (the result is read, the pointers are reset) is one step.

**Loops.** `keepInRoot`, the loop over the mounts of a configuration, the one
over its entries and the one over its files are left folds. `FoldSteps` takes a
fold over a sequence of any length apart: there is a function `g` with `g[0]` the
start, `g[i]` one step from `g[i - 1]`, and the fold is `g[n]`. It says nothing of
the invoker and is no result by itself. It follows from the way the community modules define folds, through an induction over a set of
naturals that rests on their being well-founded. The theorem is stated for a
constant operator, and each loop is an instance of its module (`DescendFolds`,
`PrepareFolds`, `CreateFolds`, `PromiseFolds`, `MountFolds`). So what a loop does
for every input is proved like any other invariant: it holds of `g[0]`, each step
keeps it, so it holds of `g[n]` (`Climb`).

**Files.** An operation is described by how far its effects reach. `Only(d, x, p)`
says that `x` differs from `d` at `p` and in directories made on the way,
`Within(d, x, a)` that it differs below `a`, and both that a file elsewhere is as
it was, save that owner and mode change under all names of an inode. Each
operation of `Filesystem` has a lemma with the suffix `Def`: how far it reaches,
and what is there when it did not throw. `KeptPaths` puts these together with
paths from outside: whatever components a path has, its target is below the root by
its names. Where a path meets a link, an operation reaches what the link leads to:
links hold members of `Leads`, so a call changes what is below the root or below one
of these, and `Clear(p)` says that `p` is not. What a call leaves is described for
paths that meet no link (`Straight`), where `Followed` and `Named` are the path itself;
`CreateFilesFulfils` says the same of a whole configuration, for entries that meet no
link of another entry (`Meets`) and whose source no link may lead to (`Direct`).

**Containers.** `ContainerInv` has three parts besides the control state
(`Control`). The disk is `Sound`: it is a tree, and a file that has several names
has its first one on the host, because `pushLink` only links files of the host.
That is why a `chown` in one container cannot reach what another was asked to
hold. `Ownership`: a directory is foreign, abandoned or held by one client, which
holds from the moment `create_directory` succeeds. `ClientOK`: while its files
are created nothing in a client's directory is a hard link (`Own`), from
`ConstructLxc` on its `config` names its root, and while it is alive what it asked
for is there (`Fulfilled`). `FilesAsAsked` alone is not inductive, as nothing in it
keeps two clients apart; `OneOwnerEach` is not, as it does not say who holds the
directory that is about to be removed. The steps of one client are of few kinds:
within the directory it holds (`HeldStep`, `CallStep`, `PushStep`), on the host
(`HostStep`), on no file at all (`IdleStep`), and the two that take and give back
a name (`NamedStep`, `RemovedStep`). Each kind has its lemma, which also gives
`KeptInRoot`, and each action is shown to be of one.

**Clients.** `GroupsInv` says of every group, before and after it was sent, that its
fields are the last that were set and its pipe ends those of pipes it has made;
there is one lemma for every call that builds a task. `CliInv` ties the steps of
the command line program together: which task it has built at which point, that
what runs in its container is the task made from its options, and that the input
was pushed before. `ContainerInv` needs it because the program of the task writes
into the root, and it must be known where: the streams of another task could be
any file. A builder's task writes nothing, as nobody looks at its output.

`StepKeeps` says what one step of client `c` does (`StepBy`): it keeps the invariant,
it leaves the directories of the others and the files of the host alone
(`StaysInRoot(c)`, of which `KeptInRoot` is the weaker half), and it does not touch
the state of another client's program (`Others(c)`). On this rests the last theorem.

**What is delivered.** `CliDelivers` speaks of the end of `main()`; what makes it true
happens steps before, in a container that is gone by then. `DeliverInv` follows the
data on its way, on top of `IInv`: from `Feed` on, the file `/stdin` of the container
is the input (`FedOK`); once there is a result, nothing runs in the container and
`/stdout` and `/stderr` hold what the program wrote, all of it if it succeeded
(`WrittenOK`); what was pulled stays pulled, through the removal of the directory and all that others do (`PulledOK`).
The step that matters is the end of the program: `StreamsOpen` and `CliInv` say that
its streams are the files of the options, `StreamWritten` that a stream which could be
opened holds what was written and that nothing else changed, and `SucceedsWrites` that
a program that succeeded had both. Where a configuration has put a file in the way it
is truncated; where it has put a directory, opening throws, the program is not started
and the result says so. After that, a crash or a limit, `CliDelivers` still has the
files there, with what the program had written. It promises nothing of a file that is
a link or that links may lead to. `DeliverKept` covers the steps of the container
itself, `OthersDeliver` those of other clients.

What is assumed of the host and of callers: nothing but containers is made under
a name `unique_path` can answer, save the foreign directories that are there from
the start (`HostAssumption`, `NamesAssumption`); the local path of a push, link or
pull, and the files given to the command line program, are the host's, not in a
container's directory (`CallsAssumption`, `StreamsAssumption`); what a configured
file is made from is the host's as well (`ConfigsAssumption`), and so is what
symbolic links hold (`LeadsAssumption`); the directories mounts are made on have no
"." or ".." in their names, which `prepare()` would append to the root as they are
(`MountsAssumption`). A client that
pushes from or pulls into another container's directory is outside the theorems.
`TextsAssumption` is technical: it tells the provers that the names in the modules
are strings.

Only model-checked, and why:

- liveness (`Termination`, `LimitsAreEnforced`, `GroupEndsWithWaited`,
  `WaitForReturns`, `EventsReachReader`, `ReachesResult`): ENABLED and fairness are
  beyond the prover;
- the findings of section 5, which are not true at all.

## 5. Findings

- `descriptors_without_stdin`: `getMappedFd` takes 0 for "not moved". For a task
  that names descriptors 1 and 3 but not 0, the stream standing on 1 or 3 is
  moved to 0, the lowest free descriptor, then looked for at its old place:
  `dup2` fails, the process is reported START_FAILED, and the assertion of
  `~DescriptorMonitor` is false on the way out. A container's default settings
  name 0, 1 and 2, so ordinary tasks do not meet this; that naming 0 is all it
  takes is proved.
- `group_second_start`: the container's state is checked before `lxc-execute` is
  started and nobody waits for it to come up, so the second of two groups
  started in a row is not refused; it fails later, without a result.
- `group_stop`: `stop()` stops the container and not the group. 200 ms after the
  start `Lxc::stop` gives up silently, so the processes of a container that comes
  up later run to their end; and a group that has ended without being asked for
  its result takes down whatever runs in the container now.
- `cli_limits`: `main()` of the command line program stores the limits in local
  variables that shadow the members of the same names; `execute()` passes the
  members, which nobody sets, so no limit reaches the task.

Met while modelling, with no run:

- `addNotifier` accepts a pipe end that is not for writing, although
  `ProcessGroup.hpp` says it throws; the control process then fails an assertion
  (`ControlEnds`).
- `result()` of a group that runs throws HasNotStarted although it was started: it
  looks at `container_`, which only tells whether the group has terminated
  (`AskResult`).
- `kill(pid_, SIGKILL)` in `waitForAnyChild` is sent after the pid was reaped, so
  it would reach a process that got the same pid meanwhile.
- A program that dies of SIGUSR2 by itself is reported START_FAILED.
- The deadline overwrites a verdict reached in the same round, so a group whose
  processes all ended in time is REAL_TIME_LIMIT_EXCEEDED if the clock passes the
  limit before the comparison; `ProcessGroupExecution` allows this (`Expire`).
- `keepInRoot` looks at the names of a path only. A configured link that leads out
  of the root takes `push`, `setOwnerId` and `setMode` along to the host's files
  (`Followed`); `KeptInRoot` excludes what links lead to.
- `Lxc::prepare` appends the directory of a mount entry to the root as it is, so a
  ".." in it would lead out (`PrepareEntry`); `MountsAssumption` excludes it.
- The command line program exits with success whatever became of the program it ran:
  `execute()` prints the result and does not look at it (`WaitForTask`).
- A task that names more than half of the descriptors there are can meet the assertion
  that a free one is left, although there are enough: `freeRequiredFds` never goes back
  to descriptors it has passed (`NoneFree`).
- `Filesystem::pull` is documented as "Pull remote directory tree."; of a
  directory it copies only the directory itself (`Copy`).
- `Container::create` says "We will try for counter times" with a counter of ten;
  nine directories are tried, the tenth name is not (`OutOfTries`).

## 6. Not modelled

Formatting and parsing (events, configuration files, JSON, serialisation of task
and result), logging, the text of command line options and of what `cli` prints;
control group parameters, the hierarchies a control group is in, rlimits, current
path and identity of a child, which are single system calls that either succeed
or end in `ChildSetUpFails`; the external libraries (control groups, liblxc and
the `lxc` tools, asynchronous io, the POSIX wrappers) except for what the code in
`src/` sees of them; symbolic links whose value is relative, has ".." in it or
leads into a container's directory. In `ProcessGroup` one thread uses a
container at a time, as the library demands.

Some hazards of `PROJECT.json` have no property, because what goes wrong is what the
code does and no comment or test says otherwise: the deadline that overwrites a
verdict of its round, SIGPIPE before it is ignored, the exception that leaves
threads behind, the file a failed `push` has removed, the processes left under a
removed directory. The models show each of them.

What could be added: several notifiers and readers in one `Notifications`, for
which the io thread's queue would be one per notifier; a client that crashes and
leaves its container behind, once the code has a way to find such containers.
