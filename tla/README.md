# Verification of the avetti runtime: service supervision

The repository bundles what an Avetti Commerce server runs on: Tomcat, the
Commons Daemon sources that supervise it (jsvc on Unix, procrun on Windows),
the scripts that install, update, start and stop it, and configuration of
httpd/PHP, Solr and Maven. The logic of its own that can go wrong while a server
runs is in the supervision: two or three processes that share a pid file, react
to signals and end at bad moments, and scripts that act on what the pid file
says and on what the operator's last script left behind. That is what these
modules are about. Paths below are relative to
`src/tomcat/bin/commons-daemon-1.0.15-native-src/` unless they start with `src/`.

## Inventory

| Part | State | Operations | Hard because of |
| --- | --- | --- | --- |
| jsvc controller (`unix/native/jsvc-unix.c`: `main`, `run_controller`, `controller`) | `controlled`, the wait status, the pid file's name | fork, wait, unlink the pid file, restart or exit, forward signals | signals between two children, reap and unlink are two steps, several controllers on one file |
| jsvc child (`child`, `check_pid`, `handler`, `create_tmp_file`, `remove_tmp_file`) | `stopping`, `doreload`, its copy of `controlled`, an open descriptor and its lock | claim the pid file, create the JVM, load, start, loop, stop, destroy | open before lock, signal dispositions that change four times, aborts and crashes |
| jsvc commands (`wait_child`, `stop_child`, `get_pidf`, `check_tmp_file`; `src/tomcat/bin/daemon.sh`, `src/scripts/tomcat`) | the pid read, a round counter | `-wait`, `-stop`, the script's start and stop | polling of files that others change, stale pids |
| jsvc/JVM bridge (`unix/native/java.c`) | the VM | load, start, stop, destroy; `shutdown`, `failed`, abort from Java | requests before the handlers are set |
| jsvc logger (`set_output`, `logger_child`) | pipes, `logger_pid` | copy output to syslog, reopen | a new logger on each reopening |
| jsvc configuration (`arguments.c`, `home.c`, `location.c`, `replace.c`) | none that lasts | parsing, search, replacement | boundaries |
| procrun service (`windows/apps/prunsrv/prunsrv.c`) | service status, `gWorker`, `gShutdownEvent`, `gSignalEvent`, pid file handle | report status, start, stop thread, control and console handlers, `serviceMain` | threads without locks, events created late |
| procrun handles and pools (`windows/src/handles.c`) | handle lists, event threads | create, wait, send, close | close races the event thread |
| procrun processes and JVM (`windows/src/rprocess.c`, `javajni.c`) | worker threads, pipes, the VM | execute, wait, stop, destroy | waiting for a thread that waits |
| procrun commands (`docmd*` in `prunsrv.c`, `windows/src/service.c`, `registry.c`) | the service manager's entry, the keys under SOFTWARE | install, update, delete, start, stop, poll | two stores and no transaction, failures passed over, timeouts |
| catalina.sh (`src/tomcat/bin/catalina.sh`) | its own pid file | start, stop, stop -force | check, then act |
| deployment scripts (`src/scripts/update*.sh`, `recompile*.sh`, `setupdatabases.sh`, `restarttomcat.sh`, `tomcat.sh`) | databases, web applications, Tomcat up or down | migrate, deploy, retry once, stop and start Tomcat | one step of several failing |
| installation (`src/scripts/setup.sh`) | the same, and what is checked out | check out, find the databases, create or update them, deploy | what it takes for an empty server |
| dialogs, logging, bundled third-party code | - | - | not modelled, see below |

How they interact: `src/scripts/tomcat start` runs `jsvc`, which detaches; the
detached process is the controller and forks the child. The child writes its
own pid to the pid file (`/var/run/jsvc.pid`); the controller removes the file
when the child has exited. A stop reads the pid from that file and sends TERM
to the child, not to the controller; the controller forwards the signals it
gets itself. `jsvc -wait` also looks for `/tmp/<pid>.jsvc_up`, which the child
creates when the service is up.

What makes each part correct: one service per pid file; a service that is up
is named by the file; a stop that reports success has stopped it for good; a
wait that reports success has seen the service up; whoever claims the pid file gets it or
gives up, and a stop completes if the service lets it; the controller restarts
exactly what it should; the service manager is not told of an end before it
happened, a failure is not reported as an end in order, and the service
process ends when its worker has; a worker process is read while it lives,
gets a chance to end before it is killed, is dead once it was closed, and its
exit code, or that of the stop image, is the one that is reported; `catalina.sh` never
starts a second Tomcat and its file names the one there is; a service and its
settings exist together; what Tomcat has loaded fits the databases; a handle is
used by nobody, its own thread included, once it was freed.

procrun is one process: the service manager starts it and sends it controls,
the dispatcher runs `serviceMain` in a thread of its own, a STOP control or a
console event runs `serviceStop` in another, and the worker is either a Java VM
in a third thread or a process. They share `gWorker`, `gShutdownEvent`, the code of the VM and the one structure in which all of them report the status, without a
lock.

## Modules

| Module | Models |
| --- | --- |
| `Jsvc` | any number of instances (a controller and its child each) on one pid file, users, the Java code, strangers who take pids |
| `Supervised` | what an instance promises: the abstract life of a supervised service |
| `JsvcAdmin` | `Jsvc` with an administrator who starts and stops through the script or through `jsvc -wait` and `-stop` |
| `MCJsvc`, `MCJsvcAdmin` | small instances for TLC |
| `Procrun` | the Windows service process: `serviceMain`, any number of threads in `serviceStop`, the worker, the structure they report in |
| `ServiceLife` | what the service manager may see of a service |
| `ProcWorker` | a worker that is a process: the child, its pipes, the three threads that serve it, the threads that wait for it, kill it and free it, and the stop images these may run |
| `ServiceAdmin` | prunsrv as the administrator's tool: `//IS`, `//US`, `//DS`, `//ES`, `//SS` on two stores |
| `HandlePool` | the handles of procrun with their event threads, and the pool that `main` destroys |
| `Catalina` | runs of `catalina.sh start` and `stop` on one pid file |
| `Deploy` | the eight install and update scripts on databases, applications and a Tomcat that runs what it has loaded |
| `MCProcrun`, `MCProcWorker`, `MCServiceAdmin`, `MCHandlePool`, `MCCatalina`, `MCDeploy` | small instances for TLC |
| `JsvcProofs`, `JsvcAdminProofs`, `ProcrunProofs`, `ProcWorkerProofs`, `CatalinaProofs`, `HandlePoolProofs`, `ServiceAdminProofs`, `DeployProofs` | theorems and their proofs |

### Jsvc

The file system is `pidfile` (the inode the name is bound to), `content` (the
pid in each inode) and `upfile` (the ready files). Inodes are kept apart from
the name because `check_pid` opens first and locks later, and an inode that
has been unlinked in between goes on being locked, read and written. An inode
can be bound to the name again once nobody has it open.

`ctl[i]` is where the controller of instance `i` is in `run_controller`:
about to fork, forked but without handlers (`arm`), in `waitpid` (`wait`),
between `waitpid` and `unlink` (`reaped`), in `sleep(60)` (`backoff`); `killed`
is a controller that is dead while its child lives. `child[i]` is where the
child is: `open`, `lock`, `check`, `write` (`check_pid`), `init` (user switch
and `java_init`), `load` (the JVM exists, up to the handlers), `ready`, `up`
(the loop), `stopping`, `zombie`. The lock is not a variable: `lockf` locks die
with their owner, so who holds it follows from where the children are.

`target[i]` is the child's own copy of `controlled`: 0 in the first child, the
pid of its predecessor in a later one, its own pid once the handlers are set.
`Deliver` uses it because the code does: before the JVM a first child dies of
TERM, while a later one still has the controller's handler and forwards the
signal to its predecessor's pid; under the JVM's handlers the signal ends the
JVM with status 143 or 129; under `handler` it sets `stopping`.

`End` collects what the exit or death of a child does, `Settle` is everything
the controller does between `waitpid` and its next step. `status` keeps the
exit status of a controller that is gone, for `wait_child`.

Abstractions: sleeps have no duration; SIGINT is TERM; SIGUSR1, SIGUSR2 and
the logger do not touch the modelled state; the ways in which the start can
fail (exit status 1, 2, 3, 4, 5, 7 and -1) are one, since the controller treats
them alike; whole words are written and read, as the lock and a write of a few
bytes ensure. Unlinking the pid file always succeeds.

### JsvcAdmin

One command at a time: `AdmStart`, then for the jsvc tool the five looks of a round of
`wait_child`, each a step because others change what it looks at: the controller's exit status
(`WaitChild`, 715), the pid file (`ReadPid`), the pid file again (`CheckTmpFile`, 653), the ready
file of that pid (`OpenTmpFile`, 658), and the controller once more (`LastLook`, 732) before
it says "ready". `ScriptStop` or `StopChild`, then `Kill`, then `ScriptPoll` or `StopChildPoll`
are a stop. Rounds are not counted: a command with a limit may give up at any poll; the
script's loop has none. `get_pidf` and `wait_child` open the file for reading only, for which
`lockf` fails, so a reader does not wait for a writer: `Written` reads without the lock.
`Careful` restricts the administrator to stopping a service that is up while no start is
under way.

`wasUp` is a history variable, written by `Remember` in every step and read by no action:
the pids of the services that were up at some time during the wait. `ReadyMeansUp` promises no
more than that: between the open of the ready file and `return 0` the service may
have been told to stop, and no answer of `wait_child` can tell.

### Supervised and the refinement

`Phase(i)` maps an instance to a phase (down, starting, up, closing, reloading,
ended) and `Supervision` is the specification of `Supervised` under that mapping, in three
parts. `Safety`: a service that is up ends only by request, a reload leads to one more
start, and one that has ended for good is started only by another run of the command.
`Leaves`: the controller of such a service exits. `Obeys`: a request that was accepted is
carried out; this one only under the condition `JavaReturns`, since `child` calls
`java_stop` and `JVM_destroy` without a limit. Run `lifecycle` checks all of it for every
behaviour of `AdmFairSpec`; the proofs treat `Safety`.

### Procrun

`main` is where `serviceMain` is: `prepare` (before the control handler is
registered), `start` (`serviceStart`), `run` (started, RUNNING not yet reported),
`wait` (for the worker), `event` (for `gShutdownEvent`), `minute` and `destroy` (the two
calls of `apxDestroyJvm`), `stop` (about to report the end), `done`. `pc[t]` is where
a stopping thread is in `serviceStop`, line by line where another thread can
see the difference: the creation of the event, the start of the stop class,
its end, the STOP_PENDING report, the end of the worker, `SetEvent`. `worker` is
`gWorker`, `code` is `vmExitCode`; `halt` and `hooked` follow a Java thread in
`System.exit` through `__apxJniExit` and the two exit hooks to the end of the
process. `Exit` is `ExitProcess`: all threads die where they are.

`event` keeps the life of `gShutdownEvent`, which `serviceStop` creates anew
whenever a Java stop class is run, also while `serviceMain` waits for the one
before: `main` is then `lost` (nobody can signal that event any more) or `woken`
(it had been signalled). The event that `CloseHandle` closes is the new one.

`config.start` and `config.stop` are the modes (`exe` stands for the mode java too, a
process in both; `system` is the stop class `java.lang.System`); FAILED is STOPPED with a
service specific error.

`reportServiceStatusE` fills the one static structure `_service_status` field by field, without
a lock, and then sends it (848-863); so do `Call`, `Store` (one field a step) and `Send`, for
every thread that reports: `serviceMain`, the stopping threads, the control handler's
thread with an INTERROGATE, and a Java thread in the exit hooks. A thread goes on only
when its report has been sent (`Idle`). `shared` is the structure, `told` what the service
manager got last. Two calls that overlap may send a mixture, and lose an end or the error
of one: an end in order is told for a worker that failed, or STOP_PENDING is the last
word and the dispatcher never returns. `torn` remembers that calls have overlapped in
this process, and the two properties that such a mixture breaks (`FailureVisible`,
`EndsWithWorker`) say so; those that it must not break (`StoppedMeansEnded`,
`EventOpenWhenSet`, `ServiceManagerView`) make no exception for it.

What a run of the service is started with is a variable, `config`: its modes, whether a
stop timeout is set, and what may go wrong in it (`faults`).

Abstractions: all failures of `serviceStart` are one (any exit status but 0);
exit codes are 0 or 1; "fail" stands for a worker or a stop method that
ends with a failure, an exception in a Java one, and a stop image, whose own
exit code replaces the worker's; a wait with a timeout may end at any time, but a wait for
a minute only with "minute"; the two ways of killing the worker (at
the timeout, or `WM_CLOSE` at once) are one step. The memory of handles
is `HandlePool`'s subject; the library calls are as Windows documents them.

`ServiceManagerView` is the specification of `ServiceLife` with the reported
status for its variable, wherever `serviceMain` waits for those who report beside it
(`Orderly`): nothing goes back and nothing follows an end; and where moreover nothing can
keep it from going on (`Waited`) no start is left unanswered and STOP_PENDING ends in
STOPPED or an error.

### ProcWorker

`child` is the process and how it ended, `writers` who holds the write ends of the
pipes, `handle` whether our handle of it is open, `pipes` our ends. `reader[e]` follows the
threads that read its output (`test`: at the loop's condition; `read`: in
`ReadFile`), `monitor` the thread that waits for its end and stores the exit code.
`pc[t]` is where `serviceMain` and each thread of `serviceStop` are: `wait` in
`apxProcessWait`, `lock` before the spin lock of `apxHandleSendMessage`, then through
the `WM_CLOSE` handler, `test` to `release`. A timed wait calls that handler without
the lock, so that two threads may be in it; the model lets them. Fields that a thread
reads and another closes are read when the code reads them.

A reader ends when the pipe is broken or closed (`ReaderStops`), and also when it has read
a block of no bytes (`ReaderEmpty`, 149 and 175), with the child alive and its output unread
from then on. Nobody looks whether the three threads were made (635-641): `Execute` makes
any of them, and a wait that includes one that was not made fails at once (`WaitFails`),
so that `serviceMain` takes the worker for ended and closes it. When `CreateRemoteThread` fails
`__apxProcessClose` goes to its cleanup (363) without `TerminateProcess`: the child is
`spared`, its handle closed, and the reading threads of a child that lives are waited for.

A stop image is a second process that a stopping thread executes (`RunImage`) and waits for
before it comes to the worker. It has a monitor of its own, the same
`__apxProcWorkerThread`, which stores into the same `vmExitCode` (123): `ImageEnds` is its end
and that store, `image[t]` what was stored. So the code that procrun reports in the end is
the worker's or the image's, whichever ended last, and `CodeStored` says no more. When the
image's threads were not made it is closed while its monitor does not exist or still
waits (`StoresLate`).

When the threads arrive is `Procrun`'s subject: `ProcWorker` lets them arrive whenever
they like once the child was started, which is more than `Procrun` allows. In the
other direction `Procrun` takes for one step (`EndWorker`) what happens here between
`test` and `release`, with `KilledCodes` for the exit codes that this may leave; it has no
threads that were not made and no failing `CreateRemoteThread`.

Abstractions: output is not counted (a character comes whenever somebody holds
the pipe); the two standard handles that `serviceStart` also passes on, the
environment and the user token are left out; the waits of one and of two
seconds may end at any time.

### ServiceAdmin

There is one service. `entry` is the service manager's entry (`absent`, `present` or
`marked` for deletion, its account, whether it has a `Parameters` key), `reg` the key
under SOFTWARE with its Java options, `state` and `point` what `QueryServiceStatus`
returns. `pc[c]` is where command `c` is in `docmd*`: a step is one call of the service
manager or one access to the registry, and each may fail. `alone` and `quiet` say
what a property may assume: that nobody else ran during the command, that no two
commands have ever overlapped and no failure was passed over.

Abstractions: a command's account and option are named after the command, so
that a lost update can be seen; the other settings behave like one of these; the
description is part of `Names`; dependent services are part of a control that may fail;
the callback of `apxServiceControl`, which only prunmgr passes, is left out.

### HandlePool

A handle is named by the thread that made it: `main` makes the worker's, each thread of
`serviceStop` that of its stop worker. `type` is `dwType` (`open` stands for all
valid ones), `block` the memory, `listed`, `size` and `spin` the pool's list, `dwSize` and
spin lock, `seen` the size a thread has read under it, so that an update can be lost.
`event` and `watcher` are the handle's event and the place of its event thread, which
a process handle has and a Java handle has not. `pc[t]` goes through `apxHandleCreate`
(`alloc`, `add`, `link`) and `apxCloseHandle` (`close` to `free`); `cur` is the handle that
`main` takes from the list when it destroys the pool.

`orderly` turns false when `main` destroys the pool while a thread is between making and
closing its handle, which the code does not exclude: with a stop image there is no
`gShutdownEvent` to wait for, and with one there is a limit of a minute. From there on
memory is used after it was freed; the model follows that up to the first such use
(`stale`), and the safety properties are about the orderly case.

Abstractions: messages, hooks and the default handler, which nothing in prunsrv
uses; `gPool`, which `main` makes (1659), is a sub-pool of the system pool, and the only one:
its destruction is `main`'s, and nothing else hangs on the system pool while it lives; the handler of a kind of
handle is part of `Close` (that of a process is `ProcWorker`); a thread's handle is made once.

### Catalina

`file` is what `$CATALINA_PID` holds, `removable` whether its directory lets a file be
removed (if not the script empties the file instead), `proc[p]` what runs under
number `p`: a tomcat that is starting, ready, ending or dying of kill -9, another
program, or nothing. `pc[c]` is where a run of the script is, `left` its `SLEEP`.
`Alive` reads the file and asks for the process in one step; what is then done to the
file is another step, and so is every round of a wait. `calm` turns false when two runs overlap
or one is cut short.

Abstractions: a file that is neither readable nor writable, on which the script
gives up, is left out; so are `-security` and `kill -3`. `Bootstrap stop` reaches
whichever tomcat has the shutdown port.

### Deploy

A script is the sequence of its goals and service commands, each named by what it
does to which database or application; the interpreter of these sequences
(`GoalSucceeds` to `Finish`) has the retry and the exits that every script repeats after
every goal: a status of 2 runs the goal once more and does not look at the result,
any other failure ends the script. `Becomes` is what a goal leaves behind: the revision,
or `Broken` when it failed. `missed` are the steps that went wrong in this run
and were passed over; `sound` says that the last full update is complete and nothing
has gone wrong since.

`app` is what lies in the exploded directories, `loaded` what the running Tomcat has of it:
it loads when it starts, and again only when an application's `web.xml` was touched
(`Reload`: `autoDeploy` in `src/tomcat/conf/server.xml` 124 and `WatchedResource` in
`context.xml` 22; neither application's context is `reloadable`), which an update may do
or not. `fresh` says that it was started after the last script that does not restart it. Both
applications use all three databases, so what is served is right when both fit all three
(`ServedFits`).

`Found` is the `grep` of `setup.sh` over the names of the databases (437): it looks for
`' shop '` with a blank on either side in the names joined with blanks, so that the last one
is never found. A server has "tail" when a database that is none of the shop's comes last,
such as `test` or `sys`; one without those has not.

Facts that the translation brings up beside the properties:
`recompileshop.sh` lines 52-60 test the exit status of an `if`, so that its goal
for the shop's database is never run; no script knows whether another is running;
`restarttomcat.sh` deletes Solr's lock files even if the stop failed;
`updatecodefromsvn.sh`, `recompile.sh` and `setup.sh` leave a Tomcat that is up with the classes
it has loaded, on databases that were migrated under it.

Abstractions: one script at a time; one revision is checked out or not; what a
failed goal leaves is not told apart; as user avetti, `updatetolatestcommunitytag.sh` does
the same without `su`, after a second setup.

## Runs

| Run | Instance | Shows |
| --- | --- | --- |
| `claim` | 2 instances, 2 pids, 2 inodes, every fault, run and check mode, TERM from users, strangers may take both pids; symmetry and a view (347,002 states) | types, `ClaimInv` (inductive) and `SameFileExclusion` |
| `lifecycle` | 1 instance, jsvc tool, both signals, every fault but aborts and crashes of the child (62,324 states) | refinement of `Supervised`, `ReadyMeansUp` |
| `script` | 2 instances, script, careful administrator, forks and stops may fail (7,977 states) | `AtMostOneService`, `UpIsNamed`, `DownMeansDown`, `StopCompletes`, `ClaimCompletes` |
| `reload` | 1 instance, jsvc tool, HUP | violation: a stop during a reload succeeds and the service returns |
| `two` | 2 instances, script, any administrator | violation: two services after open/unlink/write |
| `service` | a control thread and a console thread; every start and stop mode with the faults of a service that only the service manager stops, in three groups (`Alone`), and the modes in which a console event, an INTERROGATE or a timeout matters (`Beside`) (287,992 states) | `StoppedMeansEnded`, `FailureVisible`, `EventOpenWhenSet`, `EndsWithWorker`, refinement of `ServiceLife` |
| `worker` | 2 stopping threads and `serviceMain`, with and without a timeout, with a stop image, every fault in some configuration (287,559 states) | `OutputRead`, `CodeStored`, `KilledLast`, `EndsWithChild`, `StopKills` |
| `admin` | 2 commands at a time, any call failing, any command cut short, a service that reports progress once (450,522 states) | `Configured`, `UpdateWorks`, `AddKeeps`, `CommandsEnd` |
| `pool` | `main` and 2 stopping threads, handles with and without an event thread, waits of a second that end, a start that fails (241,887 states) | `AliveWhenUsed`, `Counted`, `ClosesEnd` |
| `catalina` | 2 runs at a time, 2 pids, waits of one second, runs cut short, strangers that take pids, both kinds of directory (193,306 states) | `OneTomcat`, `NamedWhenUp`, `ForcedStopEnds` |
| `deploy` | 2 revisions, servers with and without a database after the shop's; every goal may fail once or twice (2,843,606 states) | `ServedFits`, `MigratedFirst`, `DeployedWhileDown`, `LostOnlyUnlisted` |
| `existing` | 2 revisions, a server with nothing after the shop's databases | violation: `ExistingKept`, a database of the shop that comes last in the list is made anew |

Bounds. Two instances are the least that can compete for the file, and each
may run, end and be run again without limit; nothing is counted, so the state
space is finite without further bounds. Two pids let a pid be reused by the
other instance or a stranger; two inodes let one be unlinked and open while
the name is bound to the other, and `Open` reuses an inode only when no process
has it open, so that with as many inodes as instances it never lacks one. The
`claim` run with three pids (2.0 million states) finds nothing new and is too slow
to keep. `MCJsvc`'s view leaves out what no step of `Jsvc` reads (the ready files,
the content of an inode nobody refers to, the status of a controller that is
off); it hides nothing its invariants look at except `upfile`'s type, which is
checked in every state that is reached first.

The temporal runs have no symmetry and no view. `two` switches deadlock
checking off: with all instances in use and a stop that waits for ever, the
system really has stopped; `worker` and `pool` do because the program ends, and `service` for
the reason given below. In all other runs deadlock is checked.

The bounds of `service`: one thread for controls, as the service manager
sends one at a time and no STOP once STOP_PENDING was told, and one for the
console, which is the least that can be in `serviceStop` together. A process may
be started again without limit, with another configuration. The faults come a few at a time,
as every report takes four steps more: those of the start with those of a stop class
that ends in failure; those of the Java runtime and of the stop worker's creation; a worker that
ends by itself or calls `System.exit`; and then what happens beside a stop: a console
event and a minute that is not enough, or an INTERROGATE. `Life!Safety` is checked for the
configurations in which `serviceMain` waits for the stopping thread (`Orderly`), which leaves
out what the code gets wrong or does not promise: a stop image, `java.lang.System` and a
second stopping thread (reports after the end), a worker that ends by itself (RUNNING is
followed by an end without a stop), a minute that is not enough, an INTERROGATE beside another
report. The run has deadlock checking off because the system really may stop: without a
Java runtime `serviceMain` returns before it can report anything, and the dispatcher never
returns; when the stop worker cannot be created the service stays in STOP_PENDING,
accepts no control and goes on; and an end may be lost. `FailureVisible` is limited to the
time before a Java stop class is run, because `onExitStop` reports STOPPED whatever the
exit code is, and to services without a stop image, whose exit code replaces the worker's.

In `worker` two stopping threads are the console's and the service manager's, as in
`service`. A third would find the same places: what a closing thread can see of the
others is which handles are open. A failing `CreateRemoteThread` is among the faults and is what
`spared` excuses in `OutputRead` and `StopKills`: both are false without it, although the
comment above `__apxProcessClose` (312) says that a process that does not end is terminated.

In `pool` two stopping threads and `main` are three that can meet at the list: one that
holds the lock, one that waits for it, and one that destroys the pool. The wait for the event
thread may time out but need not.

In `admin` two commands are the least that can race; their overlap is what `alone` and
`quiet` then exclude in the properties, while `CommandsEnd` and `SaTypeOK` hold whatever
overlaps. In `catalina` two pids let a tomcat's number change hands and let two tomcats
exist at a time; a wait of one second has a first, a middle and a last round. In
`deploy` two revisions are one to update from and one to update to; there is no
bound on the number of scripts that are run. `FewBroken` ends a behaviour where more than
one database or application is broken at a time (`MaxBroken`), and on the server with nothing
after the shop's databases where any is (`MaxBrokenBare`): TLC checks the states just
beyond the bound and goes no further, which leaves out scripts that go on with several
broken ones. The theorems have no such bound.

The three violations are what the code does: each quotes what the code says
of itself in `PROJECT.json`. `DownMeansDown` and `AtMostOneService` hold in
`script` and fail in `reload` and `two`; the difference is the administrator
(`Careful`) and the users' signals, which is the practical advice of this project:
stop only a service that is up, wait for the pid file to go, and do not mix
reloads with stops. `ExistingKept`, that `setup.sh` updates the databases that exist ("Updating
instead of overwriting existing DB.", 440), fails in `existing`; `LostOnlyUnlisted` is what
remains of it in `deploy` and by proof: `setup.sh` makes anew nothing that exists but
on a server it does not ask at all, or `preview` or `shop` when no other database follows
them.

More disagreements were found with earlier instances and have no run:
`jsvc -stop` reports success between the controller's `waitpid` and its `unlink`, when the pid
file it says it waits for is still there (`jsvc-unix.c` 760-767); the script's stop, run
while the service is starting, signals nobody and waits for ever for the
pid file of a service that stays up (`src/scripts/tomcat` 63-71); and with a stop
image the stop thread reports STOP_PENDING after `serviceMain` has reported STOPPED
(`prunsrv.c` 1086 and 1312). In `ServiceAdmin`, `//DS` marks a service that it could not stop
and erases its settings although `prunsrv.c` 655 says that it stops it, and `//IS` reports success
when the account or the settings could not be stored: steps of the model that
the properties allow for.

What the properties excuse is as much part of the result. A property that speaks of
orderly cases does not catch the hazard that makes a case disorderly; the list in
`PROJECT.json` says where. Overlapping or interrupted runs of `catalina.sh` do start two
Tomcats (`calm`); a Maven goal that fails twice is passed over (`missed`), so that an
application does meet a database that was not migrated; a stop of Tomcat that fails
lets the scripts deploy under it; a failing `CreateRemoteThread` leaves the child alive
(`spared`); `//DS` does not stop the service first; two commands at once lose an option
(`alone`); two reports at once hide a failure or an end (`torn`); a pool may be destroyed under
a stop (`orderly`). All these states are reached in the runs.

## Fairness

The controller and the child are processes that the kernel schedules: weak
fairness for each. A pending signal is delivered: weak fairness for each
signal. A waiter for `lockf` gets the lock when it is released again and
again, since the kernel queues waiters: strong fairness for `Lock`. A
command that has begun goes on. The fairness of the child is that of jsvc's own
code (`OwnSteps`: the claim of the pid file, the ready file, the way out of the loop), and of
signals except while the JVM's own handlers stand. Nothing is assumed of what administrators,
users, strangers, faults or the Java code do: `java_init`, `java_load`, `java_start`,
`java_stop` and `JVM_destroy` are called without a limit, and a service that hangs in one of them
keeps its pid file, while `src/scripts/tomcat` 66 loops for ever. What depends on their return
says so: `StopCompletes` and the liveness part of `Supervision` (`Obeys`) have the premise
`JavaReturns`, that no child stays in the Java code for ever; TLC refutes both without it.
`ClaimCompletes` and `Leaves` hold without it: every controller gets a child past `check_pid` or
exits, whatever the Java code of the other services does. With `UserSignals` empty a
service that is up need never end; `StopCompletes` speaks of a stop that was begun.

In `Procrun` the threads are scheduled and timed waits end: weak fairness for the
steps of `serviceMain`, of each report, of each stopping thread, of the exit hooks and of the
end of the process. That a stop class or a stop image ends is assumed of the
user's code (`StopWorkerEnds`): the code waits for it without a limit.
`apxDestroyJvm(INFINITE)` is assumed to return only if the worker has returned or
is a process, since a terminated Java thread is waited for for ever; that the
application leaves no other thread running is assumed of it. Nothing is assumed
of the service manager, the console or the worker.

In `ProcWorker` the threads of the program run, and a stopping thread that has begun
goes on; the spin lock is released by a holder that goes on and is asked for by
one thread at a time, so weak fairness is enough. The child, what it has started and a
stop image owe nothing: `EndsWithChild` begins when they have ended, because the code waits for
them without a limit. In `HandlePool` some thread that can go on does; that is enough, as
each has few steps to go, and it is not assumed that a wait times out or a stop
worker ends. In `Catalina` a run of the script goes on unless it is cut short, and
the kernel ends a process that was killed with signal 9; nothing is assumed of
tomcat, so `ForcedStopEnds` holds for a deaf one. In `ServiceAdmin` the commands are processes
that go on; the service need not report anything. `Deploy` states no fairness: Maven
may hang, and the scripts set no limit.

## Proofs

For every value of the constants (any numbers of instances, pids, inodes; any
subset of faults and signals), from `JsvcAssumption` and `AdminAssumption`:

- `TypeCorrect`: `Spec => []TypeOK`. Not inductive alone: the ready file is named
  by the child's pid, so `HasPid` (a child has a pid) is carried along (`TypeInv`).
- `ClaimHolds`, `SameFile`: `Spec => []ClaimInv` and `Spec => []SameFileExclusion`.
  `SameFileExclusion` is not inductive: that two children that were let through
  have different files depends on what is in the files. `ClaimInv` adds: children
  have different pids (`PidsDiffer`, kept by `Fork` because it takes a pid that
  is not alive, zombies included); a controller that will fork has no child
  (`Childless`); whoever holds the lock is alone (`LockExclusive`); a child that
  was let through finds its own pid in its inode (`OwnPidWritten`); nobody who
  has passed the check is about to write over it (`NoOverwrite`). The step that
  matters is `Check`: a child that goes on to write saw no live process in the
  file, but any child that was let through with the same file is alive and has
  its pid there. One lemma per group of actions.
- `SupervisionIsSafe`: `Spec => Service!Safety`, the initial states and steps of the refinement
  of `Supervised`, if no child aborts or crashes (`Orderly`). An aborted child exits
  with 123, and a crashed one is started again, whatever was asked of it: the abstract
  life has no such step, and the code does not promise one. The invariant it needs,
  beside `ClaimInv`, is `StopAsked`: only `handler` sets `stopping` and only
  `stopping` ends the loop. Each step of an instance is shown to lead from its
  phase to one that `Supervised` allows next (`Leads`) and to leave the others alone
  (`Alone`). `Childless` is what excludes, for instance, a controller that exits
  while its child is up.
- `AdmTypeCorrect`, `AdmSameFile`, `AdmSupervisionIsSafe`: the same for `AdmSpec`. The
  administrator's `Kill` may signal a pid that has changed hands, which is no step of
  `Jsvc`; it leaves alone all that `ClaimInv` and `Phase` speak of.
- `ReadyHolds`: `AdmSpec => ReadyMeansUp` if no child aborts or crashes, with either
  tool, any users and any instances. `ReadyInv`: only a child that is up has its ready file
  (`UpFiles`), which a crash would leave behind for the next process with its pid; a
  killed controller's status is not 0 (`KilledFails`); and between the open of the ready file
  and the last look at the controller the pid is that of a service that was up at the open
  (`FoundUp`), whatever it has done since.
- `OneServiceHolds`, `NamedHolds`, `DownStays`: `AtMostOneService`, `UpIsNamed` and `DownMeansDown`
  under `Scripted`: the script, the careful administrator, no other signals, no
  failing start, abort or crash. Instances, pids, inodes, strangers and modes are
  arbitrary and controllers may be killed, which is more than run `script` has
  instances of: TLC found the same with three instances, three pids, both modes, strangers on every pid and killed
  controllers (449,473 states) before it was proved. `SameFileExclusion` alone is
  not enough, since two services may be on two inodes once the name was unlinked.
  `ScriptInv` is about the name: it stays bound to the inode a child has opened until
  that child is done with it (`NameKept`), because a file is unlinked only by the
  controller of a service that has ended, this happens only during a stop, and then
  nobody else is served (`LeavesLast`) or starting (`NoneStarts`); nothing is signalled
  outside a stop (`Unasked`) and nothing starts again by itself (`Plain`), so that a
  stop that has ended leaves nothing (`AllDown`). Every hypothesis is needed: TLC
  refutes `UpIsNamed` as soon as starts may fail, children abort, users send signals or the
  tool is jsvc (whose stop ends before the unlink), and `DownMeansDown` when children crash.
- `PrTypeCorrect`, `StoppedHasEnded`, `FailureShown`: `PrSpec => []PrTypeOK`,
  `PrSpec => []StoppedMeansEnded` and `PrSpec => []FailureVisible`, from
  `ProcrunAssumption`: for any stopping threads, configurations and faults, with reports
  stored field by field. The inductive invariant `PrInv` has three groups. Before
  `serviceStart` nothing runs and nobody but `serviceMain` and an INTERROGATE reports
  (`Fresh`), and nothing but START_PENDING is told, stored or on its way (`Starting`).
  `serviceMain` goes past its wait only when the worker has ended (`WorkerWaitedFor`); who may
  start `System.exit` has registered the hook or is the worker (`HookFirst`,
  `WorkerHalts`); hence whoever says STOPPED, in a call, in the structure or to the service
  manager, says it when the worker is over (`EndIsOver`), which no mixture of fields can
  change. As long as calls have not overlapped, the structure holds what its one caller has
  stored (`OneReport`), and an end in order is said only when nobody is left who could
  fail (`EndInOrder`), which makes `FailureVisible` stable.
- `EventIsOpen`: `PrSpec => []EventOpenWhenSet`, for any threads and configurations: the
  property itself speaks of those without a console, an INTERROGATE or a minute that is not
  enough. Needed is that one stop is under way at most (`OneStop`): the service manager asks
  only a service that accepts it, RUNNING is said once, by `serviceMain`
  (`BeforeRunning`, `RunningOnce`), and a stop takes the controls away for good before it begins;
  a console event asks for nothing. So the event is made once, and set and closed only when
  that thread has left `serviceStop` (`OneEvent`).
- `LifeIsSafe`: `PrSpec => Life!Safety`, the steps of the refinement of `ServiceLife`, for any
  configurations: `Life` is the view of those that are `Orderly`, where `serviceMain` waits for
  the stop. `Ordered` says which states have been told, stored and are on their way when
  `serviceMain` is where (`StartSaid`, `StopSaid`, `AcceptSaid`, `EndSaid`), that nobody is in
  `System.exit` (`NoExit`) and that nobody reports after `serviceMain` has begun its last
  report (`LastReport`). Two calls may overlap even here (`serviceMain` says STOP_PENDING
  while the stopping thread does), but they say the same.

- `PwTypeCorrect`, `CodeIsStored`, `OutputIsRead`, `KilledIsLast`: the types, `CodeStored`, `OutputRead`
  and `KilledLast` for any stopping threads, configurations and faults, from
  `ProcWorkerAssumption`. `PwInv` adds to the types that the monitor is woken only by the end
  of the child (`WokenByEnd`), which makes `CodeStored` inductive; that nobody comes before
  the child is made (`AloneAtStart`); and that a thread on its way to kill it has closed its
  input (`InputClosed`), from which `KilledLast` follows. `LiveChild` strengthens `OutputRead`:
  while a child lives that was not spared no thread is past the point of killing it, so it
  is still marked as running, its handle and pipes are open, and its own write ends keep
  the readers from ending but by a block of no bytes.

- `CtTypeCorrect`, `OneTomcatHolds`, `NamedHolds`: the types, `OneTomcat` and `NamedWhenUp` of
  `Catalina`, for any number of runs and process numbers and any waiting times, from
  `CatalinaAssumption`. Neither is inductive: between `launch` and `record` there is a
  tomcat that the file does not name. `CtInv` says what is known where, as long as runs
  do not overlap: one run is busy at most (`OneRun`); one that is about to start a
  tomcat, or to remove the file, has seen that there is none (`NoneThere`); a start
  that has launched java has the number of the only tomcat (`RecordNames`, `Launched`); and
  at every other place the file names it (`FileNames`). A step is then judged by what its
  own run knows before and after it (`KnownAt`), as the others are idle.

- `HpTypeCorrect`, `AliveHolds`, `CountedHolds`: the types, `AliveWhenUsed` and `Counted` of
  `HandlePool`, for any number of stopping threads and any faults, from
  `HandlePoolAssumption`. `AliveWhenUsed` says nothing of who may still come to use a handle.
  `HpInv` adds, until the pool is destroyed under a stop: `main` closes handles only when no
  stop is under way (`MainFirst`, `AloneAtEnd`); what a thread works on, and what is
  listed, is in use (`UsedWhile`, `ListedUsed`, `FreedLast`), and what is in use is listed or
  about to be (`AllListed`, for the destruction of the heap); a handle with an event
  thread has its event, and loses the thread before it leaves the list (`Watched`,
  `ThreadGone`). `CountInv` adds that the size is read and written by the holder of
  the lock only (`LockHeld`), and that what is added was not in the list and what is taken
  out was (`ListedWhile`).

- `SaTypeCorrect`, `ConfiguredHolds`, `UpdateHolds`, `AddHolds`: the types, `Configured`, `UpdateWorks` and
  `AddKeeps` of `ServiceAdmin`, for any number of commands and any service, from
  `ServiceAdminAssumption`. `SaInv` adds which command can be where (`DoAt`); that an update
  keeps the service open, so that a marked entry does not vanish under it
  (`OpenedAt`); that a command which is alone is (`AloneOnly`); what an update that is alone
  knows of the account and the options (`AloneKnows`); and, as long as nothing
  overlapped or was passed over, where the two stores may differ: between `names` and `save`
  of an install, and before `erase` (`QuietInv`).

- `DpTypeCorrect`, `ServedHolds`, `MigratedHolds`, `DownHolds`, `LostHolds`: every property of run
  `deploy`, for any number of revisions and any servers, from `DeployAssumption`. The
  scripts are constant sequences; what is needed of each (its length, its steps, that a
  database comes before its application, that tomcat is stopped before and started
  after) is proved once, in lemmas. `DeployInv`: between scripts nothing is under way
  (`Quiet`); a goal that has gone by without being missed has had its effect, and is
  not undone later in the script (`Carried`); tomcat is down between the stop and the start
  unless its stop was missed (`Stopped`); as long as the last full update is sound,
  nothing was missed (`SoundMissed`) and what is installed fits (`SoundFits`); a tomcat that is
  fresh meets only the scripts that restart it (`FreshScripts`); and between those it has
  loaded what is installed (`LoadedNow`), a reload included. `LostHolds` adds that data is in
  databases that exist (`DataThere`) and that what `setup.sh` is still to create has no data,
  if it could have found it (`Spared`).

Every invariant of these proofs was checked by TLC on an instance before it was proved.

Only model-checked: everything temporal (`StopCompletes`, `ClaimCompletes`,
`EndsWithWorker`, `EndsWithChild`, `StopKills`, `ClosesEnd`, `ForcedStopEnds`, `CommandsEnd`, the liveness of
`Supervision` and `ServiceManagerView`), because liveness and `ENABLED` are out of the
prover's reach. Every invariant and every action property that a run checks is stated
by a theorem. The violations of `DownMeansDown` in `reload` and of `AtMostOneService` in `two` do not
contradict the theorems about these properties: each run lacks a hypothesis of `Scripted`.

## Not modelled

The logger, SIGUSR1/2, argument parsing, searching for the JVM, string
replacement (`arguments.c`, `home.c`, `location.c`, `replace.c`): no influence on the state
above, sequential, and decided character by character, so that a model would be
a second copy of the code. In procrun: the thread dump event, the pid file, streams,
console mode (`//TS//`); of the handle manager what only other programs could use
(messages to event threads, hooks); prunmgr, dialogs, command line
parsing and logging. Of `setup.sh` and `setup.bat`: the installation of packages and the edits of
configuration files, whose state is the machine's. Tomcat's wrappers set variables
and call what is modelled. Two operators at once are
modelled for `catalina.sh` and for prunsrv, not for the deployment scripts and not for the
commands of jsvc; jsvc's instances do run beside each other.

Most of the repository by size is not its own: the headers of PHP under
`src/httpd-conf/php/include` (some eighty thousand lines, generated or bundled), PEAR, Solr
schemas, Maven, minified scripts. They have no behaviour in this repository that
could be stated from it; this is why a measure of modelled lines over all lines
stays small however much of the supervision and deployment is covered.

## Plan

1. `Jsvc`, `Supervised`, `JsvcAdmin` and their proofs: done.
2. `Procrun`, `ServiceLife` and their proofs: done, but for the thread dump event.
3. `ProcWorker` and its proofs: done. Open: that it implements the worker of `Procrun`.
4. `Catalina`, `HandlePool`, `ServiceAdmin`, `Deploy` and their proofs: done.
5. Refinements: the safety parts of `Supervision` and `ServiceManagerView` are proved. Next:
   that the closing of `ProcWorker` implements the worker that `Procrun` abstracts from, and
   weaker hypotheses for `ReadyHolds` (crashes whose pid is not reused). `Procrun` should then
   also have the threads of a worker that were never made.
