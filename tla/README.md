# HMCL-PE: a TLA+ model of the launcher's concurrent core

HMCL-PE runs Minecraft: Java Edition on Android. It downloads game versions and
mod loaders, keeps accounts, checks an installation and its login before a
launch, starts the game in one of two back ends (Boat, Pojav) and feeds it input
from the touch screen. This directory models the parts of it in which several
actors meet: the UI thread and its message queue, background tasks, pool
threads, a build service in its own process, the game's native thread, and the
edges of the peer-to-peer VPN that multiplayer runs on.

`H` below is `src/HMCLPE/src/main/java/com/tungsten/hmclpe`.

## 1. Inventory

### Components, their state and their operations

| component | state it keeps | operations | talks to |
|---|---|---|---|
| Parallel downloader (`H/utils/io/DownloadUtil`, `H/task/DownloadTask`, `H/launcher/launch/check/CheckLibTask`, which each carry a copy) | target files, a pool with a bounded queue, the list of failed files | list the files, hand jobs over, attempt, verify, retry, cancel, wait | the installers and the launch check call it; progress goes to the UI thread as messages |
| Game installation (`H/launcher/download`) | which task of the chain runs, the merged version JSON, a result server, a service process | ten AsyncTasks chained by callbacks, build, cancel, verdict | the downloader, `PatchMerger`, `ApiService` in another process (one UDP datagram back) |
| Launch check and login (`H/launcher/launch/check`, `H/launcher/dialogs/account/ReLoginDialog`) | the java/lib/login flags, the account list, the selected account, tokens | three parallel checks, relogin, save account, launch, exit | login servers, the downloader, the game activity |
| Task framework (`H/task`) | a tree of tasks, each with state and exception; the executor's flag and exception | start, cancel, run dependents/action/dependencies, notify listeners | modpack installation, `HttpRequest`, `GameRepository` |
| Boat event queue (`Boat/src/main/jni/boat/boat_event.c`) | a linked list, a pipe, a mutex | set up, push, wait, poll | Android input threads push; the prebuilt GLFW polls |
| Version patches (`PatchMerger`, `Version`, `LibraryAnalyzer`) | none (pure) | merge a patch, re-merge all patches | installation, version management |
| Hin2n VPN service (`Hin2n/.../N2NService`, `edge_jni.c`, `edge_android_v2.c`) | the edge thread, `status` with its mutex, the service's flag and the status shown | start, stop, status, revoke | the dialogs of `H/launcher/dialogs/hin2n`, a pool, the edge by a datagram to its management port |
| n2n edge and supernode (`bundles/n2n_ntop_v2/src`) | pending and known peers, the supernode's registration, a cookie; the supernode's table of edges | register, query, acknowledge, send directly or relayed, purge | each other, over UDP and through NATs |
| Pojav input bridge (`PojavLauncher/.../input_bridge_v3.c`) | attached threads, grabbing, key state | send key, cursor, button, size | GLFW callbacks in the game's JVM |
| Touch controls (`H/control`) | views, pointer state, key mapping | gesture handlers | both back ends |
| Authentication services (`H/auth`) | sessions, tokens in transit | HTTP requests | login servers |
| Settings and repository (`H/launcher/setting`, `H/utils/gson`) | JSON files | read, write | every screen |
| Screens, dialogs, skins, update checker | views | show, hide, animate | the user |
| HiPer VPN, multiplayer discovery | a library handle; a socket thread each | start, stop, send, receive | closed library, multicast |
| `ZipTools`, `FilePicker`, `bundles`, xhook, OpenSSL headers | | | third-party, not this project's logic |

### What is hard in it

*Concurrency.* An `AsyncTask` works on a background thread; its result, and
everything it posts with `runOnUiThread`, arrive later on the UI thread. A
cancelled task goes on until it looks at `isCancelled()`, its result is dropped
on the UI thread, but what it posted is still run. The download copies share an
`ArrayList` between pool threads without a lock. The event queue has a mutex
around two blocking pipe operations. A stop of the VPN runs in a pool thread,
beside the start that follows it on the main thread.

*Failure.* A failing install step reports, cancels its own task and **goes on**
with the next step. Files may stay truncated after an I/O error. A token may be
rotated by the server and lost before it is saved. `malloc` may fail with the
mutex locked. The build service may be killed. The datagrams of n2n are lost, doubled
and late, NATs rebind, an edge or the supernode restarts.

*Ordering.* Three checks finish in any order; which of them launches? A chain of
callbacks is the only thing that keeps two stages of an installation from using
the same directory and the same port. Results of a closed dialog arrive.

*Timeouts and retries.* Five attempts per file, cancellation looked at between
them; one hour for a pool, whose expiry is ignored; no read timeout in transfers.

### What makes each component correct

- Downloader: an empty failure list means the files are right; a failure is
  noticed; no file is forgotten by the discarding pool; every session ends.
- Installation: a version JSON stands for a complete installation; one verdict;
  nothing happens after the user left; one stage at a time; it comes to rest.
- Launch check: the game starts once, with the account the user selected and a
  token the server accepts, and never after the dialog was left; no account or
  token is lost on the way; the dialog never hangs.
- Task framework: tree order, success means that everything relied on
  succeeded, a failure has a reason, listeners are told exactly once, cancel wins.
- Event queue: events arrive once, in order, and the two counters (list, pipe)
  agree; a poll never blocks with the mutex held.

- VPN service: one edge at a time and nothing cleared under it; a stop that is
  over has worked; the last stop wins; nobody waits for ever.
- n2n: a peer is in one table at most; packets take the direct path only to a
  socket that was reached; an acknowledgement counts only with the cookie drawn
  last; two edges that talk find the direct path again after a fault.

The hazards behind these, each at its source line, with the properties that
cover them or the reason why none does, are listed in `PROJECT.json`.

## 2. Modules

| module | models | checked by |
|---|---|---|
| `DownloadPool` | one or two sessions of the parallel downloader | `MCDownloadPool`: `pool_install`, `pool_recheck`; `DownloadPoolProofs` |
| `GameInstall` | one `GameInstallDialog` with its tasks and the build service | `MCGameInstall`: `game_install`; `GameInstallProofs` |
| `LaunchCheck` | one or two `LaunchCheckDialog`s | `MCLaunchCheck`: `launch_relogin`, `launch_again`; `LaunchCheckProofs`, `LaunchAccountsProofs` |
| `TaskExecutor` | a tree of tasks in `AsyncTaskExecutor` | `MCTaskExecutor`: `task_install`, `task_assert`; `TaskExecutorProofs` |
| `BoatEventQueue` | `boat_event.c` | `MCBoatEventQueue`: `boat_queue`; `BoatEventQueueProofs` |
| `EventChannel` | abstract: a FIFO channel that may refuse, never lose | implemented by `BoatEventQueue` |
| `EdgeService` | the VPN service around its edge thread | `MCEdgeService`: `edge_service`, `edge_stop`; `EdgeServiceProofs` |
| `N2NNetwork` | sockets, NATs, datagrams in flight and the faults | through `N2NPeering` |
| `N2NSupernode`, `N2NEdge` | the handlers of the supernode and of an edge | through `N2NPeering` |
| `N2NPeering` | edges, supernodes and network composed | `MCN2NPeering`: `n2n_peering`, `n2n_converge`; `N2NPeeringProofs` |

`DownloadPool` is the inside of what `GameInstall` and `LaunchCheck` take as one
step that succeeds or fails; its `CleanReturn` and `SessionEnds` are what makes
that step legitimate.

An operator whose name continues that of another with an underscore and a word
(`Drained_NoWait`, `exit_NoCancelTasks`) is a wrong variant of it, a plausible
bug that must break one of the properties; no specification uses it.

### DownloadPool

`sub[s]` is the submitter (the AsyncTask's background thread): `Begin` fixes the
list (`CheckLibTask` lists only files that look wrong: `FilterFirst`), whose
entries are `pending` until `Submit` hands the first of them to `execute`, which
is `ThreadPoolExecutor.execute` with `DiscardPolicy`; `Drained` is the busy-wait
`while (!workQueue.isEmpty())`, `Shutdown` and `Return` the end
(`awaitTermination` may be interrupted or take its hour). `pc[job]` walks a
worker through `CheckExisting`, `TryAgain`, `Prepare`/`Clear`, `Open`,
`Close`/`IOFailure`, `Verify`/`Discard` and, after the last attempt, through
`ArrayList.add`: `AddEnsure` (look whether the array is full), `AddPublish` (a new
array: `FirstCapacity` long at first, 10 in Java, then half as long again),
`AddLoad`, `AddStore`. `list` is the array's length and the size. Two workers may
both see room for one more; the second then stores past the end (`AddOverflow`), an
`ArrayIndexOutOfBoundsException` that nothing in the job catches, and the process
dies (`Alive`). A path may have several streams open; deleting it orphans them. A
file is absent, partial or right; a hash is computed in one step. Callbacks that
repaint are left out.

### GameInstall

`pc`, `step`, `status`, `cancelled` are the AsyncTasks' (`queued` is the serial
executor's queue). A task that merges a patch has `Steps[t]` fallible steps:
`StepDone`, or `StepFails` followed by `CheckCancelled`, `Report`, `CancelSelf`,
which are `if (!isCancelled()) callback.onFailed(e); cancel(true);` in three
steps, since the UI thread can cancel in between, and then the *next step*
(Fabric, Quilt and Forge without its libraries return instead, `Abandons`). A
single-file task loops over attempts. `queue` is the looper's: results of
`doInBackground`, failures posted by `throwException`, datagrams. The UI actions
are the callbacks: `FinishDone`/`BuildDone` merge and `Proceed` to the next
selected task or to `installJson`, `FinishFailed`/`BuildFailed`/`ShowFailure` end
in `throwException`, both leave through `exit_`. `StartBuild` binds the port (it
may fail, and `stop()` then throws) and starts the service, which answers with
one datagram and stops itself; a command that reaches it while it is about to
exit is lost with it. The datagram is received on `SocketServer`'s own thread
(`ServiceReports` puts it in `listener`), which posts it to the UI thread in a step
of its own (`HandOver`); closing the socket does not stop what was received.
History variables: `failed`, `successes`, `failures`, `stale` (how the user
left; `"result"` if a result was received by then, posted or not), `lost` (no
result can arrive any more).

### LaunchCheck

`ui` is the UI thread's queue. `check[s][c]` follows each check; the login check
refreshes the token at the server, posts a `save` message and then its result.
`checkState`, `exit`, `onFinish`, `onRelogin`, `saveAccount` are the handlers of
the same names. A click may come between any two messages; ReLoginDialog's
button is hidden by a message, so it can be clicked twice. Every click starts a
thread, one of `logins[s]`: it hides the buttons by a message (`LoginBegins`), the
server answers it (`LoginAuthenticates`: from then on the token is `given` to the
thread and older ones are void, or `LoginRefused`), it posts what it got
(`LoginPosts`, or throws it away, `LoginDrops`) and shows the buttons again
(`LoginEnds`); two threads take these steps in any order. `MaxLogins` bounds the
clicks on one dialog, `MaxClicks` those on all. A token is the serial
number its server gave it. The history variables name the circumstances under
which the code cannot promise something, and the properties mention them
explicitly: `dropped` (a new token was thrown away because the skin could not
be fetched or no profile matched), `crossed` (of two log-ins, the one that got the
older token posted it last), `stale` (an account was saved for an
overtaken session), `late` (a login was answered after `exit()`), and
`relogged`, the answers to a session's ReLoginDialog: a second one makes a second
LaunchTask, which `exit()` then misses because it remembers only the last.

### TaskExecutor

One action per `CompletableFuture` stage of `executeNormalTask` and
`executeCompletableFutureTask`. `Before`/`After` are `getDependents`/
`getDependencies`, `Relying` is `isRelyingOnDependents`, a `finalizer` is
`whenComplete`. `execute()` of a task in `Faulty` may throw an `Exception`, of
one in `Erring` an `Error` (an outside future may fail with one). The stages
catch exceptions only: an `Error` passes each `exceptionally()`, the end of its
task is never reported, and if it reaches the root's future only
`handleUncaughtException` sees it (phase `uncaught`), without an `onStop`. The
trees of the runs are built from `allOf`, `withRunAsync`, `thenComposeAsync`,
`fromCompletableFuture` and `whenComplete` the way `Task.java` builds them.
`TreeAssumption` says that the subtasks form a tree: each combinator makes a new
task around those it is given, and the code hands a task to one combinator only.

### BoatEventQueue

The list is the memory it lives in: `used` nodes of `malloc`, `next` and `data`
of each, `count`, `head`, `tail`; `pipe` is the bytes in the pipe, `mutex` its
owner. `PushLock`; `EventQueue_add` (`malloc`, or `PushFails`, which returns with
the mutex locked), `Link`, `SetTail`, `Fill` (the event is written into the last
node after it was linked), `PushWrite` (blocks when the pipe is full),
`PushUnlock`; `boatWaitForEvent`, `PollLock`, `PollRead` (blocks when it is
empty), `EventQueue_take` (unlinks), `Copy` (copies out and frees), `PollUnlock`.
Each is a step of its own, so that only the mutex keeps the list a list.
`EventChannel` sees `Contents`, what the nodes of `order` hold: filling is its
`Put`, copying out its `Get`. The consumer is in a prebuilt library:
`WaitsFirst` says that it polls only after a successful wait.

### EdgeService

Threads are `Main` and the `Jobs` of the pool in which `stop()` runs `stopEdge`;
`pc` says where each is. `ResetEdgeStatus`, which both `startEdge` and `stopEdge`
call, only initialises on its first call, without a lock: `ResetFirst` tests
`once`, `ResetInit` and `ResetOnce` are the two writes, which another thread may
see in either order. A later call is `ResetSkip` (no thread recorded), or
`ResetStop`, `ResetTarget` (reads the thread to join), `ResetJoin`, `ResetClear`
under its static mutex `mut`. After it `startEdge` goes on without that mutex:
`StartEdge` and `SetHooks`, or `StartRefused`, then `Create` or `CreateFails`; a
refusal resets once more (`cleanup`). When no interface comes up there is no start
(`NotEstablished`). The edge thread calls the hook it was given (`Starts`; without
one, `NoRoutine`, it returns), is `Connecting`, `edge_init` (which binds the management
port last), `Connected`, `readFromMgmtSocket`, or `SetupFails` and `Failed`; a
report through a cleared pointer kills the process. `stop_edge_v2` puts "stop"
into the socket that is bound now (`mail`); an edge that has none yet, or every
edge when the stop finds no socket to send from (`NoSocket`), is recorded in
`deaf`. `raced` records that a call overtook the first one's initialisation: the
promises about edges end there. `Community` is the dialogs' stop
followed by an intent to start; `StopJob` and `StopMessage` are the rest of
`stop()`, whose flag is set between them. `onLogChangeEvent`, `ReadStatus`,
`reportEdgeStatus` are `getEdgeStatus` in the three steps that others can come
between. Taking a destroyed mutex is undefined behaviour: the process dies
(`died`) or the call fails unnoticed, and everything else is stated for both.

### N2NPeering

`N2NNetwork` gives each edge a socket (host and port), lets a NAT accept what
comes from where its host has sent to. `MaxNet` bounds what is on its way: an
edge talks, or registers again, while fewer datagrams of others are in flight
(what it sends then, and the answers, come on top). A timer goes off freely
unless a datagram of its own exchange is still under way (`Timer(awaited)`):
going off then is what a delay is, and counts as one. `Fault(kind)` loses,
doubles or delays one, rebinds a NAT, purges a table entry, restarts an edge or
the supernode, or stops an edge without a word, `MaxFaults` times in all. A name
in `Flaky` may fail to resolve in any round: nothing is drawn or sent then, but
the round waits all the same. `N2NSupernode` and `N2NEdge` have one operator for
each message and each timer of `sn_utils.c` and `edge_utils.c`; the edge's
helpers (`register_with_new_peer`, `check_known_peer_sock_change`,
`peer_set_p2p_confirmed`, ...) return the tables and the datagrams sent and are
composed the way `readFromIPSocket` calls them, with the network, by
`N2NPeering`. An address is the edge itself, a cookie a small number, and time
is what the timers of `Timers` may do (`Round`, `QueryAgain`, `PurgePending`,
`PurgeKnown`, `Idle`). Encryption, compression and address assignment are not
there.

## 3. Runs

| run | instance | shows |
|---|---|---|
| `pool_install` | 3 entries, 2 of one file, 2 threads, 2 attempts, every initial file content, a first array of 1; fair | `ListTrue` (`FailureNoticed`, `CleanReturn`) and `SessionEnds` under failures, cancellation and the hour |
| `pool_recheck` | two sessions of 3 entries of one file, 1 thread, queue of 1, overlapping or not | `CleanReturn` of a session that ran alone, `NothingDiscarded` |
| `game_install` | nothing / LiteLoader+Forge+OptiFine / Fabric+API / Quilt+API, 5 attempts; fair | `JsonComplete`, `OneVerdict`, `LeftInstallsNothing`, `LeftBuildsNothing`, `OneAtATime`, `Settles` |
| `launch_relogin` | one dialog, 3 checks, an offline and an online account, 2 log-in threads; fair | `LaunchOnce`, `NoLaunchAfterExit`, `SessionSettles` |
| `launch_again` | two dialogs with the login check alone, 2 online accounts, selecting in between, 2 log-in threads in all | `AccountsSafe` (`TokenNotLost`, `AccountsKept`), `SelectedLaunched`, `LaunchTokenValid` |
| `task_install` | 9 tasks, every action may throw an `Exception` or an `Error`, `cancel()` at any time; fair | `TreeOrder`, `StopTrue` (`SuccessComplete`, `FailureExplained`), `StopLast` (`QuietAfterStop`, `AllHeard`), `CancelWins`, `StopHeard` |
| `task_assert` | 4 tasks | violates `AssertionHolds` (finding) |
| `boat_queue` | 2 producers, pipe of 2 bytes, 3 nodes (the most a full pipe leaves allocated), 4 pushes, failing `malloc`; fair | `QueueMatchesPipe`, `ReadNeverBlocks`, `ChannelSpec`, `EventDelivered` |
| `edge_service` | 2 starts, 2 stops, of which any may find no socket; fair | `EdgeOwned`, `StopEffective`, `LastStopWins`, `ResetReturns` |
| `edge_stop` | 1 start, 1 stop; fair | violates `StopReturns` (finding) |
| `n2n_peering` | 2 symmetric edges behind filtering NATs, 1 supernode whose name may fail to resolve in any round, broadcasts, 1 fault of any kind | `PeersApart`, `KnownProven`, `AckFresh` |
| `n2n_converge` | the same with a name that resolves, without broadcasts, 1 edge stopped and restarted; fair | `DirectAgain` |

*Bounds.* Two threads and two attempts are the smallest in which jobs race for a
file and for the list and in which an attempt follows a failed one; a third
entry makes the queue matter. `FirstCapacity` is 1 there, so that three adds
reach both a growing array and an add past its end, for which Java needs ten. A
queue of one with one thread is where `DiscardPolicy` would first bite. All
tasks of the installation chain are instantiated with their real number of
attempts; combinations that the install page offers with fewer loaders are
shorter runs of the same transitions. Two launch dialogs suffice for an
overtaken session: a third can only repeat what the second does; the file
checks, which touch no account, are in `launch_relogin` only. Two log-in
threads, of one dialog or of both, are what it takes to post tokens in another
order than the server gave them. Two producers race for the mutex; a pipe of two
bytes fills. Two starts and two stops let a stop meet the edge before and the
edge after it, and race the first call's initialisation. In both n2n runs
`MaxNet` is 1: an exchange puts several datagrams in flight by itself, and a
registration goes on beside it, so that they are reordered and one edge's
REGISTER crosses the other's. One fault in every state of that is enough to make
each entry of a table stale, and, with a round whose name does not resolve, to
bring an answer of the round before; the theorems are for any `MaxNet` and any
number of faults. `TwoEdges` is a symmetry of the invariants' run only; the run
with a liveness property has none. `CHECK_DEADLOCK FALSE` is set everywhere
because every one of these systems may legitimately stop: the dialog is closed,
the pool terminated, the game started, or (the event queue) a thread wedged,
which `EventDelivered` names.

*Fairness.* Only what the platform schedules: pool threads and the executor's
thread run, the looper handles its messages, a network call returns with one
outcome or the other (transfers, and the skin fetch of `CheckAccountTask`, have
no read timeout of their own: that they end is assumed), an outside future
completes, a build that is not killed ends, and a polling game goes on polling.
The pthread mutex of the event queue is not fair, so acquiring it is strongly
fair; in `EdgeService` starts and stops are finitely many, and weak fairness is
enough. In `N2NPeering` every process runs, and three assumptions go beyond
scheduling: the tunnel always has something for the other edge, a stopped edge
is started again (weak fairness on `EdgeStart`), and a timer that comes due
again and again fires (strong fairness on `QueryAgain` and `Idle`, which gives a
known peer up after ten seconds without a direct datagram). Without the last one
`DirectAgain` fails, because relayed packets keep a stale entry alive and never
correct it. `DirectAgain` is checked after one stop and restart, not after a NAT
that rebinds. Nothing is assumed of the user, of failures, of `cancel()` or of
the one-hour limit.

*Findings* (runs that end in a violation; `PROJECT.json` quotes the lines):

- `task_assert`: `whenComplete`'s assertion fails on a tolerant task whose
  dependent failed, and no listener then hears `onStop`.
- `edge_stop`: a stop that comes while the edge resolves its supernode reaches
  no socket. The edge connects and runs on, the job waits in `pthread_join` for
  ever with the mutex of `ResetEdgeStatus`, and the next start blocks the main
  thread behind it. `ResetReturns` says that nothing but a living edge that missed its
  stop makes anybody wait, until a call overtakes the first one (`raced`).

What the models show besides, without a run of its own: `failedFile` loses an
entry or holds `null` when two jobs fail together (callers look only at its
size, which is why `FailureNoticed` holds), and the add of one of them may run
past the array and kill the process (`AddOverflow`); `withRunAsync` runs its
action after a failure, although its comment says "when this task completes
normally"; a cancelled executor keeps a `CancellationException` where
`getException` promises `null`; an `Error` of an action leaves its task
unreported and, at the root, `onStop` uncalled; of two log-in threads that one
button allows, the one with the older, void token may save it last; when a call
of `ResetEdgeStatus` overtakes the first one, `InitEdgeStatus` may clear
`status.tid` under a new edge; an acknowledgement of an earlier round counts for
a round in which the first supernode's name failed; and the dialogs'
stop-then-start can end with no edge: the start resets and creates a new edge
before the stop's job runs, and the job then stops the new one.

## 4. What is proved

`BoatEventQueueProofs`, for any set of producers, memory, pipe size and number of
pushes, from `QueueAssumption`. That the game reads what was pushed needs the
byte read before a take to stand for an event, the pointers to lead from each
waiting node to the next, and mutual exclusion while they do not. The invariant
`IInv` is `Sync` (`MutexInv`: who is between lock and unlock owns the mutex;
`NotReadyInv`: nothing happens before the pipe exists; `WaitInv`: the byte a
waiting consumer was told of is still there) and `ListInv` (`Chain`: next leads
through the nodes of `order`, each allocated and filled; `Whole`, `Linked`,
`Counted`, `Unlinked`: what head, tail and count are at each place of the thread
inside). From it: `FifoHolds`, `QueueMatchesPipeHolds`, `ReadNeverBlocksHolds`,
and `ImplementsChannel`: every step is a `Put`, a `Get` or a stutter of
`EventChannel`; and `Types`.

`GameInstallProofs`, for any selections and any number of attempts, from
`TryTimesAssumption` and `SelectionsAssumption`. That there is one verdict rests
on who may hold the installation at a time:

- `RunningAlone`: a running task excludes every other running task and `NoBuild`
  says what else: no build, no result that a listener holds and none in the queue.
  Hence `FinishInv`, `BuildAlone`: the message that
  continues the chain is unique.
- `FailureInv`: a failure in the queue is the only one and its task is already
  cancelled or about to cancel itself, so its own finish message will be dropped.
- `SpentInv`: after a verdict nothing is left that could give another one.
- `LeftInv`: after the user left with no result received only cancelled tasks run,
  no server listens, nothing builds and no listener holds a result.

From `IInv`: `TypeHolds`, `OneVerdictHolds`, `LeftInstallsNothingHolds`,
`LeftBuildsNothingHolds`. `NextIInv` has one lemma for each group of actions
(`BackgroundInv`, `UIInv`, `ServiceInv`, `ServiceEndsInv`, `HandOverInv`,
`ClickCancelInv`). `OneAtATimeHolds` counts what `RunningAlone` excludes.

That an installed version has every selected patch (`JsonCompleteHolds`) goes
along the chain, and its invariant `ChainInv` needs no induction on data, because
the tasks are ordered totally:

- `CurrentInv`: when the chain is at a task, no later task exists yet and the
  patches of the selected ones before it are merged, in order.
- `BuildsInv`: a build runs only for a task whose background work succeeded.
- `FailedInv`: after a failure the running task is held back (cancelled, about to
  be, or finished with an exception) and no build can succeed, so nothing
  advances the chain to the write of the JSON.
- `DoneInv`: once the JSON is written nothing runs or builds any more.

`EdgeServiceProofs`, for any number of starts and stops, from
`BoundsAssumption`. `EdgeOwned` is not inductive: `Create` overwrites
`status.tid` without a lock. `IInv` adds `Resets` (a thread between lock and
unlock holds the mutex, a job there has an edge to stop and joins the one
`status.tid` names), `Starting` (a main thread about to create an edge has reset,
`status.tid` is empty and the references are set), `FirstCall` (while a thread
initialises it is the only one, and no edge lives or is about to) and `Counting`
(that edge's number is greater than that of any stop's edges). A job in the middle
of a reset and a main thread about to create therefore exclude each other. All but
the counting holds as long as no call overtakes the first one: `raced` is in the
properties because the code really loses an edge then. From it
`EdgesAreOwned` and `StopsAreEffective`; with `LastStop` (the job of the last stop
leaves `status.tid` empty until another start, and its message meets a main thread
with no older status to show) and `EdgeOwned`, by which no edge lives then,
`LastStopHolds`; and `Types`.

`N2NPeeringProofs`, for any edges, supernodes, faults and number of datagrams.
`KnownProven` needs an invariant of the network, `Mail`: a REGISTER_ACK travels
only to the host whose REGISTER arrived at the socket it comes from, and an edge
signs what it sends with its own address. One lemma per helper says what it does
to the tables and that what it sends is plain (`NewPeer`, `CheckPeer`, ...); one
per handler composes them. From `IInv`: `PeersStayApart`, `KnownStaysProven`.
`AcksAreFresh` adds what a cookie in flight means (`Vouched`). Its one
hypothesis is `CookiesLeft`: a new round finds a cookie that no datagram in
flight carries (the code draws four random bytes and promises no more).
`send_register_super` draws one for the first supernode of the list only; a
round in which that name fails goes to the others with the cookie of the last,
and a late answer to the round before counts for it, which is why `AckFresh`
speaks of the cookie drawn last and not of the round. The first rounds of an
edge may thus send the zeros an earlier run of it sent: `Answered` says that no
answer to that run can still reach its socket.

`PeersAtHome` says of the tables what a type cannot: an edge never has itself as
a peer and files every peer under a socket of that peer (`Fitted`), and a
supernode files every edge under a socket of that edge (`Tabled`). It rests on
`Posted`: who a datagram names as its sender has sent it or is named in it by the
supernode that knows it. `Counted` bounds the sockets an edge has opened by the
faults, `Rounds` keeps the place in the ring of supernodes. `Types` follows; only
for the cookie does it need that a round finds one to draw (`CookiesLeft`).

`DownloadPoolProofs`, for lists, pools and sessions of any size. `Queues`: the
busy-wait leaves at most one job in the queue, so `DiscardPolicy` never has one to
discard. `Lists`: the size of the unlocked list is 0 exactly if no job gave up,
whatever `ArrayList.add` loses. `Alone` and `Owed`: while a session runs alone,
each file that is not right is owed by a job that is still to come, at work or
given up; `Settled` carries a clean result past the return. From these
`NothingIsDiscarded`, `ListsAreTrue`, `ReturnsAreClean`. `Types` bounds the size
of the unlocked list by the number of jobs that gave up, at most one for each
entry. It says nothing of the array: neither is its length bounded by the entries,
nor does an add keep within it.

`LaunchCheckProofs`, for any accounts, checks, sessions and log-ins. Three flags
and a comparison are all that guards the launch, so the invariant is about
messages: each result is waiting once and fits its check (`Unique`, `Mail`); a
flag that is true belongs to a finished check or an answered ReLoginDialog
(`Stages`); a LaunchTask has all flags behind it (`Launches`); what outlives
`exit()` is cancelled or finished (`Exits`). Hence `OneLaunch` and
`ExitsAreFinal`. For `SelectedPlays`, `Chosen` adds that every LaunchTask that can
still start a game has the selected account: another one can only be selected
with no dialog open, when every session has ended.

`LaunchAccountsProofs` is about the list of accounts, for the same parameters.
`Types` needs `Budget`: a log-in thread answers at most once, so a ReLoginDialog
is answered no more often than threads were started. `AccountsAreSafe` follows a
token from the server into the list. `Stored` says it is in the list or on its
way: with a check that refreshed it, with a log-in thread it was given to
(`Bears`) or in a message. That is not inductive, because an older token can be
on its way as well and be saved later. `Current` therefore says of each message
that its token is the newest, or that a newer one comes behind it in the queue
or from a check or thread, or that the list is stale by then (`Doomed`: a newer
session was opened), and `Fresh` says it of each check that holds a token.
Exempt are the accounts in `dropped` and in `crossed`: once a log-in thread
posts an old token when no other holds the newest, the newest one is
overwritten, whatever the UI thread does.

`TokenIsValid` goes from there to the game that starts. `OInv` orders the
sessions: a dialog opens only when the older ones were ended (`Successive`), an
open one checks the selected account (`Matching`), and no token is newer than
its server's (`KnownTokens`). `Valid(s, A)` says that account `A` is up to date
for session `s` and stays so, or that a proviso of `LaunchTokenValid` holds
(`Waived`): a server gives a newer token only to a check that has the newest,
and no running check up to `s` has it (`Outrun`), or to a log-in, and that of
`s` is over or will not be asked for (`Settled`). `ValidStays` is that no step
ends this. `VInv` then follows an account from check or log-in through message
and LaunchTask to the game (`Has`): each is valid from the step that brings it.
What a log-in thread holds is known to the server (`HInv`) and valid (`WInv`)
until it is posted. The one link that is not an account handed on is the account
selected, which `checkState()` reads when the last check passes; `Promise` says
that the save of a refreshed token is in the queue ahead of its result.

`TaskExecutorProofs`, for every tree. `Family` says where a task's subtasks are at
each of its stages, `Result` what their futures say, `Phases` how `onStop` answers
to the root, `Blame` who set an exception. That nothing is at work after `onStop`
is an induction on the tree, done with `TreeAssumption`: among the tasks at work
one is nobody's subtask in that set, and by `Family` only the root can be
(`RootOutlivesAll`); in the same way a root that succeeded leaves no needed task
without success. Hence `TypesHold`, `OrderHolds`, `StopsAreQuiet`, `StopsAreTrue`
and `CancelsWin`. `StopsAreTrue` excludes a root that is itself a wrapped future:
somebody else can cancel that without an exception for the executor to keep.

What the listeners hear is `Hearing`: a task that ended with an Error never got a
last word; any other that was heard of ended with exactly one, and nothing after it.
With `StopsAreQuiet` that is `EveryoneIsHeard`: `StopLast`, for every tree and
whatever is thrown. An Error comes from an action, an outside future or a failed
assertion of `whenComplete`; whether the last can happen depends on the tree. Run
`task_assert` shows one in which it does. `AssertionsHold` proves that it cannot in
a tree that is `Agreeing`: the task before each `whenComplete` is itself a
`whenComplete`, or a plain task that relies on its subtask or has none. Outside
it are the two ways in which a task's outcome and its exception disagree: a
wrapped future that is cancelled, and a task that goes on after a failed subtask.
`StopsLast` is for such trees without actions that throw an Error: there no task
ends with one, and the chain is never left to `handleUncaughtException`. The tree
of `task_install` is `Agreeing`; its run has throwing actions all the same.

## 5. What is only model-checked

Liveness (`SessionEnds`, `SessionSettles`, `StopHeard`, `Settles`,
`EventDelivered`, `ResetReturns`, `DirectAgain`) is outside the prover's reach and
stays with TLC. All safety properties of the runs are proved, four of them under
hypotheses named above: `AckFresh` and the type of the n2n cookie (`CookiesLeft`),
`StopTrue` (the root is no wrapped future) and `AssertionHolds` (`Agreeing`).

## 6. What is not modelled

Named per component in `PROJECT.json`. The main omissions, and why:

- *A straggler of a cancelled launch check* can truncate a file a later check
  has verified: the model has it, and `CleanReturn` therefore speaks of sessions
  that ran alone. No useful promise is left for the others.
- *Transfers that never end* (no read timeout) block a worker, and the submitter
  spins: excluded by the fairness of `Worker`. In the same way a skin server that
  never answers holds the login check, and with it the dialog.
- *A result received when the user leaves*, in the listener's hands or in the
  queue, continues the chain behind the closed dialog. The model has it
  (`stale = "result"`), and the two properties about leaving except it; a second
  installation started meanwhile is not modelled.
- *A lost build result* leaves the install dialog open for ever: `lost` in
  `Settles`. The progress datagrams on port 6666 only repaint.
- *n2n beside the peering*: encryption, compression, federation, address
  assignment, multicast discovery, the other versions of n2n and of the edge;
  the two-supernode ring is modelled but outside the runs' bounds.
- *The VPN interface*: the tun device, ARP in uIP, routes, notifications.
- `setEventPipe` called a second time, account editing during a check, building
  of the command line, JSON parsing.
- Everything that is only views, one HTTP request, or third-party. Most lines of
  the repository are vendored C: OpenSSL and GL headers, four generations of
  n2n with their ciphers, compression and resolvers. They have no state of this
  program to model, and the share of lines the map covers is small for that
  reason.

## 7. Plan

In this order, each module with the runs and theorems named:

1. `PatchMerger` as operators on sequences of patches and libraries, checked
   against a reference merge over small inputs: no library twice, the order of
   installation against the order of a re-merge.
2. The Pojav input bridge: which thread is attached to which JVM, grabbing, and
   the same `EventChannel` as abstraction where it applies.
3. A second installation dialog in `GameInstall`, sharing directory, port and
   service with the first.
