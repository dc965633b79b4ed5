---------------------------- MODULE EdgeService ----------------------------
(***************************************************************************)
(* The VPN service of Hin2n around its native edge thread.  The main       *)
(* thread of Android runs onStartCommand, the log observer's subscriber    *)
(* and the messages posted to it; every stop() runs stopEdge in a job of   *)
(* the cached pool; the edge itself is a pthread of edge_jni.c.  startEdge *)
(* and stopEdge share ResetEdgeStatus, which asks the edge of status.tid   *)
(* to stop by a datagram to its management socket and joins it.            *)
(*                                                                         *)
(* A thread is Main or the job of a stop, an edge is the number of the     *)
(* start that created it.                                                  *)
(***************************************************************************)
EXTENDS Integers

CONSTANTS MaxStarts,  \* bound: calls of onStartCommand
          MaxStops,   \* bound: accepted calls of stop()
          NoSocket    \* fault: a stop may find no socket to send from

ASSUME BoundsAssumption == MaxStarts \in Nat /\ MaxStops \in Nat
ASSUME FaultAssumption == NoSocket \in BOOLEAN

Main == 0
Jobs == 1..MaxStops
Threads == {Main} \cup Jobs
Edges == 1..MaxStarts
None == 0             \* status.tid == -1
Unset == -1           \* status.tid == 0, as the process starts

VARIABLES
  once,      \* ResetEdgeStatus has been called
  mut,       \* the holder of its static mutex: {} or one thread
  tid,       \* status.tid
  joined,    \* the argument of pthread_join of the holder of mut, then None
  mutex,     \* status.mutex
  refs,      \* status.jvm and the Java references are set
  hooks,     \* status.start_edge, stop_edge and report_edge_status are set
  running,   \* status.running_status
  edge,      \* where each edge thread is
  mail,      \* edges with "stop" in their management socket
  pc,        \* where each thread is
  cleanup,   \* the argument of the main thread's ResetEdgeStatus, then FALSE
  flag,      \* mStopInProgress
  shown,     \* mCurrentStatus
  seen,      \* the result of the main thread's getEdgeStatus until it is reported
  wanted,    \* an intent to start the service is on its way
  starts,    \* calls of onStartCommand so far
  stops,     \* accepted calls of stop() so far
  upto,      \* history: the starts before each stop
  asked,     \* history: the command served last
  raced,     \* history: a call overtook the initialisation of the first one
  deaf,      \* history: living edges that a "stop" did not reach
  died       \* the process was aborted

native == <<once, mut, tid, joined, mutex, refs, hooks, running, raced>>
service == <<flag, shown, seen, wanted, starts, stops, upto, asked>>
vars == <<native, edge, mail, pc, cleanup, service, deaf, died>>

Status == {"DISCONNECT", "CONNECTING", "CONNECTED", "FAILED"}

\* Sockets are open from edge_init to edge_term; an edge is gone when its
\* routine has returned.
Bound(g) == edge[g] \in {"bound", "loop"}
Alive(g) == edge[g] \in {"boot", "start", "setup", "bound", "loop", "failed"}

\* pthread_mutex_lock of a destroyed mutex is undefined: the C library aborts
\* the process or answers EBUSY, which nobody looks at.
LockStatus == died' \in {FALSE, mutex = "destroyed"}

At(t, from, to) == pc[t] = from /\ pc' = [pc EXCEPT ![t] = to]

Init ==
  /\ once = FALSE /\ mut = {} /\ tid = Unset /\ joined = None /\ mutex = "new"
  /\ refs = FALSE /\ hooks = FALSE /\ running = "DISCONNECT" /\ raced = FALSE
  /\ edge = [g \in Edges |-> "none"] /\ mail = {}
  /\ pc = [t \in Threads |-> IF t = Main THEN "idle" ELSE "free"]
  /\ cleanup = FALSE
  /\ flag = FALSE /\ shown = "DISCONNECT" /\ seen = "DISCONNECT"
  /\ wanted = FALSE /\ starts = 0 /\ stops = 0
  /\ upto = [j \in Jobs |-> 0] /\ asked = "none"
  /\ deaf = {} /\ died = FALSE

-----------------------------------------------------------------------------
(* ResetEdgeStatus, by any thread. *)

InitEdgeStatus ==
  /\ tid' = None /\ running' = "DISCONNECT"
  /\ refs' = FALSE /\ hooks' = FALSE

\* Where the call returns to.
Caller(t) == IF t # Main THEN "stopped" ELSE IF cleanup THEN "idle" ELSE "fill"

\* Where a thread that found once unset initialises, and a call that does not
\* wait for it.
First == {"init", "unset", "unready"}
Passes(t) == raced' = (raced \/ \E u \in Threads \ {t} : pc[u] \in First)

\* The first call only initialises.  Nothing orders its test of once, the
\* initialisation and the store to once for other threads: no lock is held, and
\* the two writes may be seen in either order.
ResetFirst(t) ==
  /\ At(t, "enter", "init")
  /\ ~once
  /\ Passes(t)
  /\ UNCHANGED <<once, mut, tid, joined, mutex, refs, hooks, running, edge, mail,
                 cleanup, service, deaf, died>>

ResetInit(t) ==
  /\ At(t, "init", "unset") \/ At(t, "unready", Caller(t))
  /\ InitEdgeStatus
  /\ UNCHANGED <<once, mut, joined, mutex, raced, edge, mail, cleanup, service, deaf,
                 died>>

ResetOnce(t) ==
  /\ At(t, "init", "unready") \/ At(t, "unset", Caller(t))
  /\ once' = TRUE
  /\ UNCHANGED <<mut, tid, joined, mutex, refs, hooks, running, raced, edge, mail,
                 cleanup, service, deaf, died>>

ResetSkip_KeepsMut(t) ==
  /\ At(t, "enter", Caller(t))
  /\ once /\ mut = {} /\ tid = None /\ ~(t = Main /\ cleanup)
  /\ mut' = {t}
  /\ Passes(t)
  /\ UNCHANGED <<once, tid, joined, mutex, refs, hooks, running, edge, mail, cleanup,
                 service, deaf, died>>

\* Nothing to stop.
ResetSkip(t) ==
  /\ At(t, "enter", Caller(t))
  /\ once /\ mut = {} /\ tid = None /\ ~(t = Main /\ cleanup)
  /\ Passes(t)
  /\ UNCHANGED <<once, mut, tid, joined, mutex, refs, hooks, running, edge, mail,
                 cleanup, service, deaf, died>>

Told(to) ==
  /\ mail' = mail \cup to
  /\ deaf' = deaf \cup {g \in Edges : Alive(g) /\ g \notin to}

\* The datagram, when there is a socket to send it from, is delivered to one bound
\* now: an edge that has not come to edge_init_sockets yet never hears of it.
stop_edge_v2 ==
  \/ (NoSocket \/ \A g \in Edges : ~Bound(g)) /\ Told({})
  \/ \E g \in Edges : Bound(g) /\ Told({g})

ResetStop_ForgetsTid(t) ==
  /\ At(t, "enter", "stop")
  /\ once /\ mut = {} /\ mut' = {t}
  /\ tid # None \/ (t = Main /\ cleanup)
  /\ Passes(t)
  /\ IF hooks THEN stop_edge_v2 ELSE Told({})
  /\ InitEdgeStatus
  /\ UNCHANGED <<once, joined, mutex, edge, cleanup, service, died>>

ResetStop(t) ==
  /\ At(t, "enter", "stop")
  /\ once /\ mut = {} /\ mut' = {t}
  /\ tid # None \/ (t = Main /\ cleanup)
  /\ Passes(t)
  /\ IF hooks THEN stop_edge_v2 ELSE Told({})
  /\ UNCHANGED <<once, tid, joined, mutex, refs, hooks, running, edge, cleanup, service,
                 died>>

\* pthread_join, when there is a thread to join.
ResetTarget(t) ==
  /\ At(t, "stop", "join")
  /\ joined' = tid
  /\ UNCHANGED <<once, mut, tid, mutex, refs, hooks, running, raced, edge, mail, cleanup,
                 service, deaf, died>>

ResetJoin_NoWait(t) == At(t, "join", "clear") /\
  UNCHANGED <<native, edge, mail, cleanup, service, deaf, died>>

ResetJoin(t) ==
  /\ At(t, "join", "clear")
  /\ joined \in Edges => ~Alive(joined)
  /\ UNCHANGED <<native, edge, mail, cleanup, service, deaf, died>>

\* The references are deleted under status.mutex, which is then destroyed.
ResetClear(t) ==
  /\ At(t, "clear", Caller(t))
  /\ LockStatus
  /\ InitEdgeStatus
  /\ mutex' = "destroyed"
  /\ mut' = {} /\ joined' = None
  /\ cleanup' = (cleanup /\ t # Main)
  /\ UNCHANGED <<once, raced, edge, mail, service, deaf>>

ResetEdgeStatus(t) ==
  \/ ResetFirst(t) \/ ResetInit(t) \/ ResetOnce(t)
  \/ ResetSkip(t) \/ ResetStop(t) \/ ResetTarget(t) \/ ResetJoin(t) \/ ResetClear(t)

-----------------------------------------------------------------------------
(* stop(): a click, onRevoke or onDestroy on the main thread, then a job of  *)
(* the pool, then a message to the main thread.                              *)

Request ==
  /\ stops < MaxStops /\ stops' = stops + 1
  /\ pc[Main] = "idle"
  /\ pc' = [pc EXCEPT ![stops + 1] = "enter"]
  /\ upto' = [upto EXCEPT ![stops + 1] = starts]
  /\ asked' = "stop"

\* A stop refused because another one is in progress changes nothing.
Stop ==
  /\ ~flag
  /\ Request
  /\ UNCHANGED <<native, edge, mail, cleanup, flag, shown, seen, wanted, starts,
                 deaf, died>>

\* The flag is set once stopEdge has returned, and the message posted.
StopJob(j) ==
  /\ At(j, "stopped", "message")
  /\ flag' = TRUE
  /\ UNCHANGED <<native, edge, mail, cleanup, shown, seen, wanted, starts, stops,
                 upto, asked, deaf, died>>

StopMessage_KeepsStatus(j) ==
  /\ pc[Main] = "idle"
  /\ At(j, "message", "done")
  /\ flag' = FALSE
  /\ UNCHANGED <<native, edge, mail, cleanup, shown, seen, wanted, starts, stops,
                 upto, asked, deaf, died>>

StopMessage(j) ==
  /\ pc[Main] = "idle"
  /\ At(j, "message", "done")
  /\ shown' = "DISCONNECT"
  /\ flag' = FALSE
  /\ UNCHANGED <<native, edge, mail, cleanup, seen, wanted, starts, stops, upto,
                 asked, deaf, died>>

-----------------------------------------------------------------------------
(* Creating or joining a community, and onStartCommand. *)

\* The dialogs stop the edge they believe to run and ask for a new one at once.
Community ==
  /\ ~wanted /\ wanted' = TRUE
  /\ starts < MaxStarts
  /\ IF shown \in {"DISCONNECT", "FAILED"} \/ flag
     THEN pc[Main] = "idle" /\ UNCHANGED <<pc, stops, upto, asked>>
     ELSE Request
  /\ UNCHANGED <<native, edge, mail, cleanup, flag, shown, seen, starts, deaf, died>>

onStartCommand_Redelivered ==
  /\ wanted' = FALSE
  /\ At(Main, "idle", "enter")
  /\ starts' = starts + 1
  /\ cleanup' = FALSE
  /\ asked' = "start"
  /\ UNCHANGED <<native, edge, mail, flag, shown, seen, stops, upto, deaf, died>>

onStartCommand ==
  /\ wanted /\ wanted' = FALSE
  /\ At(Main, "idle", "enter")
  /\ starts' = starts + 1
  /\ cleanup' = FALSE
  /\ asked' = "start"
  /\ UNCHANGED <<native, edge, mail, flag, shown, seen, stops, upto, deaf, died>>

\* The system may not establish the VPN: the edge is not even reset.
NotEstablished ==
  /\ wanted /\ wanted' = FALSE
  /\ pc[Main] = "idle"
  /\ UNCHANGED <<native, edge, mail, pc, cleanup, flag, shown, seen, starts, stops, upto,
                 asked, deaf, died>>

\* The command may not be usable (GetEdgeCmd), a class may not be found ...
StartEdge ==
  /\ At(Main, "fill", "hook")
  /\ refs' = TRUE
  /\ UNCHANGED <<once, mut, tid, joined, mutex, hooks, running, raced, edge, mail,
                 cleanup, service, deaf, died>>

SetHooks ==
  /\ At(Main, "hook", "create")
  /\ hooks' = TRUE
  /\ UNCHANGED <<once, mut, tid, joined, mutex, refs, running, raced, edge, mail,
                 cleanup, service, deaf, died>>

StartRefused ==
  /\ At(Main, "fill", "enter") \/ At(Main, "hook", "enter")
  /\ cleanup' = TRUE
  /\ UNCHANGED <<native, edge, mail, service, deaf, died>>

\* ... and the thread may not be created.
Create ==
  /\ At(Main, "create", "idle")
  /\ mutex' = "ready"
  /\ tid' = starts
  /\ edge' = [edge EXCEPT ![starts] = "boot"]
  /\ UNCHANGED <<once, mut, joined, refs, hooks, running, raced, mail, cleanup, service,
                 deaf, died>>

CreateFails ==
  /\ At(Main, "create", "enter")
  /\ mutex' = "ready"
  /\ cleanup' = TRUE
  /\ UNCHANGED <<once, mut, tid, joined, refs, hooks, running, raced, edge, mail, service,
                 deaf, died>>

-----------------------------------------------------------------------------
(* onLogChangeEvent: getEdgeStatus and reportEdgeStatus.  status.tid is read *)
(* without a lock, and the thread it names tried with pthread_kill.          *)

onLogChangeEvent ==
  /\ starts > 0
  /\ IF tid \in Edges /\ Alive(tid)
     THEN At(Main, "idle", "lock") /\ seen' = seen
     ELSE At(Main, "idle", "report") /\ seen' = "DISCONNECT"
  /\ UNCHANGED <<native, edge, mail, cleanup, flag, shown, wanted, starts, stops,
                 upto, asked, deaf, died>>

ReadStatus ==
  /\ At(Main, "lock", "report")
  /\ LockStatus
  /\ seen' = running
  /\ UNCHANGED <<native, edge, mail, cleanup, flag, shown, wanted, starts, stops,
                 upto, asked, deaf>>

reportEdgeStatus ==
  /\ At(Main, "report", "idle")
  /\ shown' = seen /\ seen' = "DISCONNECT"
  /\ UNCHANGED <<native, edge, mail, cleanup, flag, wanted, starts, stops,
                 upto, asked, deaf, died>>

-----------------------------------------------------------------------------
(* The edge thread: EdgeRoutine and start_edge_v2. *)

Turn(g, from, to) == edge[g] = from /\ edge' = [edge EXCEPT ![g] = to]

\* report_edge_status is silent when no thread is recorded, or no service to tell.
\* The edge calls it through the status: without the pointer the process dies.
Tell(s) ==
  /\ running' = s
  /\ shown' = IF tid # None /\ refs /\ hooks THEN s ELSE shown
  /\ died' = (died \/ ~hooks)

\* EdgeRoutine: somebody may have cleared the routine to call.
NoRoutine(g) ==
  /\ Turn(g, "boot", "dead") /\ deaf' = deaf \ {g}
  /\ ~hooks
  /\ UNCHANGED <<native, mail, pc, cleanup, service, died>>

Starts(g) ==
  /\ Turn(g, "boot", "start")
  /\ hooks
  /\ UNCHANGED <<native, mail, pc, cleanup, service, deaf, died>>

Connecting(g) ==
  /\ Turn(g, "start", "setup")
  /\ Tell("CONNECTING")
  /\ UNCHANGED <<once, mut, tid, joined, mutex, refs, hooks, raced, mail, pc, cleanup, flag,
                 seen, wanted, starts, stops, upto, asked, deaf>>

\* edge_init resolves the supernode before it opens the sockets.
edge_init(g) ==
  /\ Turn(g, "setup", "bound")
  /\ UNCHANGED <<native, mail, pc, cleanup, service, deaf, died>>

\* A bad configuration, no device, no socket, or a socket the system does not
\* exempt from the VPN.
SetupFails(g) ==
  /\ \E at \in {"start", "setup", "bound"} : Turn(g, at, "failed")
  /\ mail' = mail \ {g}
  /\ UNCHANGED <<native, pc, cleanup, service, deaf, died>>

Failed(g) ==
  /\ Turn(g, "failed", "dead") /\ deaf' = deaf \ {g}
  /\ running' = "FAILED"
  /\ shown' = IF tid # None /\ refs THEN "FAILED" ELSE shown
  /\ UNCHANGED <<once, mut, tid, joined, mutex, refs, hooks, raced, mail, pc, cleanup, flag,
                 seen, wanted, starts, stops, upto, asked, died>>

\* The sockets are protected through the Java references: without them the
\* process dies as well.
Connected(g) ==
  /\ Turn(g, "bound", "loop")
  /\ IF refs THEN Tell("CONNECTED") ELSE died' = TRUE /\ UNCHANGED <<running, shown>>
  /\ UNCHANGED <<once, mut, tid, joined, mutex, refs, hooks, raced, mail, pc, cleanup, flag,
                 seen, wanted, starts, stops, upto, asked, deaf>>

readFromMgmtSocket(g) ==
  /\ g \in mail /\ mail' = mail \ {g}
  /\ Turn(g, "loop", "dead") /\ deaf' = deaf \ {g}
  /\ UNCHANGED <<native, pc, cleanup, service, died>>

-----------------------------------------------------------------------------
MainStep ==
  \/ StartEdge \/ SetHooks \/ StartRefused \/ Create \/ CreateFails
  \/ ReadStatus \/ reportEdgeStatus

EdgeStep(g) ==
  \/ NoRoutine(g) \/ Starts(g) \/ Connecting(g) \/ edge_init(g) \/ SetupFails(g)
  \/ Failed(g) \/ Connected(g) \/ readFromMgmtSocket(g)

Next ==
  /\ ~died
  /\ \/ \E t \in Threads : ResetEdgeStatus(t)
     \/ \E j \in Jobs : StopJob(j) \/ StopMessage(j)
     \/ Stop \/ Community \/ onStartCommand \/ NotEstablished
     \/ onLogChangeEvent \/ MainStep
     \/ \E g \in Edges : EdgeStep(g)

Spec == Init /\ [][Next]_vars

(***************************************************************************)
(* Threads run, started procedures go on, an intent or a message posted to *)
(* the main thread is served and the resolver of the edge answers.  Nobody *)
(* has to click, and no log has to change.  Stops and starts are finitely  *)
(* many, so that weak fairness is enough for the mutex.                    *)
(***************************************************************************)
FairSpec ==
  /\ Spec
  /\ WF_vars(~died /\ MainStep) /\ WF_vars(~died /\ (onStartCommand \/ NotEstablished))
  /\ \A t \in Threads : WF_vars(~died /\ ResetEdgeStatus(t))
  /\ \A j \in Jobs : WF_vars(~died /\ (StopJob(j) \/ StopMessage(j)))
  /\ \A g \in Edges : WF_vars(~died /\ EdgeStep(g))

-----------------------------------------------------------------------------
InReset == {"enter", "stop", "join", "clear"} \cup First

TypeOK ==
  /\ once \in BOOLEAN /\ mut \in SUBSET Threads /\ tid \in {None, Unset} \cup Edges
  /\ joined \in {None, Unset} \cup Edges /\ refs \in BOOLEAN /\ hooks \in BOOLEAN
  /\ mutex \in {"new", "ready", "destroyed"} /\ running \in Status
  /\ edge \in [Edges -> {"none", "boot", "start", "setup", "bound", "loop", "failed",
                         "dead"}]
  /\ mail \in SUBSET Edges /\ deaf \in SUBSET Edges
  /\ pc \in [Threads -> InReset \cup {"idle", "fill", "hook", "create", "lock", "report",
                                      "free", "stopped", "message", "done"}]
  /\ cleanup \in BOOLEAN /\ flag \in BOOLEAN /\ wanted \in BOOLEAN /\ died \in BOOLEAN
  /\ shown \in Status /\ seen \in Status /\ raced \in BOOLEAN
  /\ starts \in 0..MaxStarts /\ stops \in 0..MaxStops
  /\ upto \in [Jobs -> 0..MaxStarts] /\ asked \in {"none", "start", "stop"}

\* An edge thread that lives is the one status.tid names, and all it needs is there:
\* status.mutex is initialised for it and the pointers and references it goes
\* through are set.  There is one edge at a time, it can be stopped and joined, and
\* nothing is cleared under it, whatever starts and stops overlap.  The exception
\* is a call that overtook the unlocked initialisation of the first one.
EdgeOwned ==
  ~raced => \A g \in Edges : Alive(g) => tid = g /\ mutex = "ready" /\ refs /\ hooks

\* When stopEdge has returned, the edges started before the stop are gone, even
\* if other threads reset the status in between; with the exception of EdgeOwned.
StopEffective ==
  ~raced => \A j \in Jobs : pc[j] \in {"stopped", "message", "done"} =>
    \A g \in Edges : g <= upto[j] => ~Alive(g)

\* When the last command was a stop and everybody has come to rest, no edge lives,
\* none is recorded and the application shows that: no late report, log event or
\* message of an earlier command brings another status back.  With the exception of
\* EdgeOwned.
LastStopWins ==
  /\ ~raced /\ asked = "stop" /\ pc[Main] = "idle"
  /\ \A j \in Jobs : pc[j] \in {"free", "done"}
  => /\ tid = None /\ shown = "DISCONNECT"
     /\ \A g \in Edges : ~Alive(g)

\* A call of ResetEdgeStatus returns, so that the jobs and the main thread are
\* free again, unless a living edge did not hear its stop or the process died;
\* with the exception of EdgeOwned.
ResetReturns ==
  \A t \in Threads :
    pc[t] \in InReset
      ~> pc[t] \notin InReset \/ died \/ raced \/ \E g \in deaf : Alive(g)

\* What stop_edge_v2 says of itself ("quick stop"): a stop that was asked for
\* comes to an end; with the exception of EdgeOwned.
StopReturns ==
  \A j \in Jobs : pc[j] \in InReset ~> pc[j] \notin InReset \/ died \/ raced
=============================================================================
