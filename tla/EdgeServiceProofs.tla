------------------------- MODULE EdgeServiceProofs -------------------------
(***************************************************************************)
(* EdgeOwned and StopEffective for any number of starts and stops.  Both   *)
(* rest on who may touch status.tid: a job in the middle of a reset holds  *)
(* the mutex and has an edge to stop (Resets), so the main thread, which   *)
(* creates an edge without the mutex, does so only when status.tid is      *)
(* empty (Starting), and no thread that waited can then miss it.  All of   *)
(* it holds until a call overtakes the first one (FirstCall).              *)
(***************************************************************************)
EXTENDS EdgeService, TLAPS

Shape ==
  /\ pc = [t \in Threads |-> pc[t]]
  /\ edge = [g \in Edges |-> edge[g]]
  /\ upto = [j \in Jobs |-> upto[j]]
  /\ starts \in Nat /\ stops \in Nat

\* Every call of startEdge has its number, and the stops know which were before.
Counting ==
  /\ wanted => starts < MaxStarts
  /\ \A j \in Jobs : upto[j] \in Nat /\ upto[j] <= starts
  /\ \A j \in Jobs : stops < j => pc[j] = "free"
  /\ pc[Main] \in InReset \cup {"fill", "hook", "create"} =>
       starts \in Edges /\ \A j \in Jobs : upto[j] < starts

\* A thread between the lock and the unlock of ResetEdgeStatus.
Holding == {"stop", "join", "clear"}

Resets ==
  /\ \A t \in Threads : pc[t] \in Holding => mut = {t} /\ once
  /\ \A j \in Jobs : pc[j] \in Holding => tid # None
  /\ \A t \in Threads : pc[t] = "join" => joined = tid
  /\ \A t \in Threads : pc[t] = "clear" => tid \notin Edges \/ ~Alive(tid)

\* Nothing has happened yet behind ResetEdgeStatus.
Untouched ==
  /\ tid \notin Edges
  /\ \A g \in Edges : ~Alive(g)
  /\ \A t \in Threads : pc[t] \notin Holding
  /\ pc[Main] \notin {"fill", "hook", "create"}

FirstCall ==
  /\ ~once => Untouched
  /\ \A t \in Threads : pc[t] \in First =>
       Untouched /\ \A u \in Threads : pc[u] \in First => u = t
  /\ \A t \in Threads : pc[t] = "unset" => tid = None
  /\ \A t \in Threads : pc[t] = "unready" => once
  /\ once /\ (\A t \in Threads : pc[t] \notin First) => tid # Unset

\* The main thread on its way from onStartCommand to pthread_create.
Starting ==
  /\ pc[Main] \in {"fill", "hook", "create"} => tid = None /\ once
  /\ pc[Main] \in {"hook", "create"} => refs
  /\ pc[Main] = "create" => hooks

Owned == EdgeOwned /\ StopEffective /\ Resets /\ FirstCall /\ Starting

IInv == Shape /\ Counting /\ (~raced => Owned)

LEMMA Sets ==
  /\ Main \in Threads /\ \A j \in Jobs : j \in Threads /\ j # Main /\ j \in Nat
  /\ \A g \in Edges : g # None /\ g # Unset /\ g \in Nat
  /\ None # Unset
  /\ \A n \in Nat : n < MaxStarts => n + 1 \in Edges
  /\ \A t \in Threads : t = Main \/ t \in Jobs
  /\ \A n \in Nat : n < MaxStops => n + 1 \in Jobs /\ n < n + 1
BY BoundsAssumption DEF Main, Jobs, Threads, Edges, None, Unset

LEMMA Initially == Init => IInv
BY Sets, BoundsAssumption DEF Init, IInv, Shape, Counting, Owned, EdgeOwned, StopEffective,
  Resets, FirstCall, Untouched, Holding, First, Starting, Alive, InReset, Main

-----------------------------------------------------------------------------
(* ResetEdgeStatus *)

\* The initialisation of the first call, done by t.
LEMMA KeptByInit ==
  ASSUME IInv, NEW t \in Threads, ResetInit(t) PROVE IInv'
<1> USE Sets DEF IInv, Shape, At, InitEdgeStatus, service, Caller
<1>1. Shape' /\ Counting'
  BY DEF ResetInit, Counting, InReset, First
<1>2. ASSUME ~raced' PROVE Owned'
  <2>1. ~raced /\ Owned /\ Untouched /\ FirstCall
    BY <1>2 DEF ResetInit, Owned, FirstCall, First
  <2>2. \A g \in Edges : ~Alive(g) /\ ~Alive(g)'
    BY <2>1 DEF ResetInit, Untouched, Alive
  <2>3. EdgeOwned' /\ StopEffective'
    BY <2>2 DEF EdgeOwned, StopEffective
  <2>4. \A u \in Threads : pc'[u] \notin Holding
    BY <2>1 DEF ResetInit, Untouched, Holding
  <2>5. Resets'
    BY <2>4 DEF Resets, Holding
  <2>6. tid' = None /\ once' = once
    BY DEF ResetInit
  <2>7. \A u \in Threads : pc'[u] \in First => u = t /\ pc'[u] = "unset"
    BY <2>1 DEF ResetInit, FirstCall, First
  <2>8. pc'[Main] \in {"fill", "hook", "create"} => once /\ pc'[Main] = "fill"
    BY <2>1 DEF ResetInit, FirstCall, Untouched
  <2>9. pc'[t] = "unset" => pc'[Main] \notin {"fill", "hook", "create"}
    BY <2>1 DEF ResetInit, Untouched
  <2>10. Starting'
    BY <2>6, <2>8 DEF Starting
  <2>11. ~once' => Untouched'
    BY <2>2, <2>4, <2>6, <2>8 DEF Untouched
  <2>12. \A u \in Threads : pc'[u] \in First => Untouched'
    BY <2>2, <2>4, <2>6, <2>7, <2>9 DEF Untouched
  <2>13. FirstCall'
    BY <2>6, <2>7, <2>11, <2>12 DEF FirstCall, First
  <2> QED BY <2>3, <2>5, <2>10, <2>13 DEF Owned
<1> QED BY <1>1, <1>2

LEMMA KeptByReset ==
  ASSUME IInv, NEW t \in Threads, ResetEdgeStatus(t) PROVE IInv'
<1> USE Sets DEF IInv, Shape, Counting, Owned, EdgeOwned, StopEffective, Resets, FirstCall,
      Untouched, Holding, First, Starting, Alive, InReset, At, Caller, Passes
<1>1. CASE ResetFirst(t)
  BY <1>1 DEF ResetFirst, service
<1>2. CASE ResetOnce(t)
  BY <1>2 DEF ResetOnce, service
<1>3. CASE ResetSkip(t)
  BY <1>3 DEF ResetSkip, service
<1>4. CASE ResetStop(t)
  BY <1>4 DEF ResetStop, service
<1>5. CASE ResetTarget(t)
  BY <1>5 DEF ResetTarget, service
<1>6. CASE ResetJoin(t)
  BY <1>6 DEF ResetJoin, native, service
<1>7. CASE ResetClear(t)
  <2>1. Shape' /\ Counting'
    BY <1>7 DEF ResetClear, service
  <2>2. ASSUME ~raced' PROVE Owned'
    <3>1. once /\ mut = {t} /\ \A g \in Edges : ~Alive(g)
      BY <1>7, <2>2 DEF ResetClear
    <3>2. \A u \in Threads : pc[u] \notin First /\ pc'[u] \notin First
      BY <1>7, <2>2 DEF ResetClear
    <3>3. \A u \in Threads : pc'[u] \notin {"stop", "join", "clear"}
      BY <1>7, <2>2, <3>1 DEF ResetClear
    <3>4. tid' = None /\ once' /\ edge' = edge /\ \A g \in Edges : ~Alive(g)'
      BY <1>7, <3>1 DEF ResetClear, InitEdgeStatus
    <3>5. EdgeOwned' /\ StopEffective'
      BY <3>4
    <3>6. Resets' /\ FirstCall'
      BY <3>2, <3>3, <3>4
    <3>7. Starting'
      BY <1>7, <2>2, <3>4 DEF ResetClear
    <3> QED BY <3>5, <3>6, <3>7
  <2> QED BY <2>1, <2>2
<1> QED BY <1>1, <1>2, <1>3, <1>4, <1>5, <1>6, <1>7, KeptByInit DEF ResetEdgeStatus

-----------------------------------------------------------------------------
(* stop() *)

\* A stop on its way: nothing but its own entries changes.
LEMMA Requested ==
  ASSUME IInv, Request, UNCHANGED <<native, edge, starts>>, wanted' => starts < MaxStarts
  PROVE IInv'
<1> USE Sets DEF IInv, Shape, Counting, Owned, EdgeOwned, StopEffective, Resets, Untouched,
      Holding, First, Starting, Alive, InReset, native
<1>1. stops + 1 \in Jobs /\ stops + 1 # Main
  BY DEF Request
<1>2. /\ pc' = [pc EXCEPT ![stops + 1] = "enter"]
      /\ upto' = [upto EXCEPT ![stops + 1] = starts]
      /\ pc'[Main] = "idle"
  BY <1>1 DEF Request
<1>0. stops' = stops + 1 /\ stops < MaxStops /\ pc[stops + 1] = "free"
  BY <1>1 DEF Request
<1>3. Shape' /\ Counting'
  <2>1. \A j \in Jobs : stops' < j => stops < j /\ j # stops + 1
    BY <1>0
  <2>2. \A j \in Jobs : stops' < j => pc'[j] = "free"
    BY <1>2, <2>1
  <2> QED BY <1>0, <1>1, <1>2, <2>2
<1>4. ASSUME ~raced' PROVE Owned'
  <2>1. ~raced /\ Owned
    BY <1>4
  <2>2. EdgeOwned' /\ StopEffective'
    BY <1>1, <1>2, <2>1
  <2>3. Resets'
    BY <1>1, <1>2, <2>1
  <2>4. Starting'
    BY <1>1, <1>2, <2>1
  <2>5. /\ \A t \in Threads : pc'[t] \in First <=> pc[t] \in First
        /\ \A t \in Threads : pc'[t] \in First => pc'[t] = pc[t]
        /\ \A t \in Threads : pc'[t] \in Holding => pc[t] \in Holding
        /\ pc'[Main] \notin {"fill", "hook", "create"}
    BY <1>0, <1>1, <1>2
  <2>6. Untouched => Untouched'
    BY <2>5
  <2>7. FirstCall'
    BY <2>1, <2>5, <2>6 DEF FirstCall, First
  <2> QED BY <2>2, <2>3, <2>4, <2>7
<1> QED BY <1>3, <1>4

LEMMA KeptByStop ==
  ASSUME IInv, Stop \/ \E j \in Jobs : StopJob(j) \/ StopMessage(j) PROVE IInv'
<1> USE Sets DEF IInv, Shape, Counting, Owned, EdgeOwned, StopEffective, Resets, FirstCall,
      Untouched, Holding, First, Starting, Alive, InReset,
      At
<1>1. CASE Stop
  BY <1>1, Requested DEF Stop
<1>2. ASSUME NEW j \in Jobs, StopJob(j) PROVE IInv'
  BY <1>2 DEF StopJob, native
<1>3. ASSUME NEW j \in Jobs, StopMessage(j) PROVE IInv'
  BY <1>3 DEF StopMessage, native
<1> QED BY <1>1, <1>2, <1>3

-----------------------------------------------------------------------------
(* The main thread *)

LEMMA KeptByCreate == ASSUME IInv, Create PROVE IInv'
<1> USE Sets DEF IInv, Shape, At
<1>1. Shape' /\ Counting'
  BY DEF Create, service, Counting, InReset
<1>2. ASSUME ~raced' PROVE Owned'
  <2>1. /\ ~raced /\ Owned /\ tid = None /\ once /\ refs /\ hooks
        /\ starts \in Edges /\ \A j \in Jobs : upto[j] < starts
    BY <1>2 DEF Create, native, Owned, Starting, Counting
  <2>2. /\ \A t \in Threads : pc[t] \notin Holding /\ pc[t] \notin First
        /\ \A g \in Edges : ~Alive(g)
    <3>1. pc[Main] \notin Holding \cup First
      BY DEF Create, Holding, First
    <3>2. \A j \in Jobs : pc[j] \notin Holding
      BY <2>1 DEF Owned, Resets
    <3>3. \A t \in Threads : pc[t] \notin First
      BY <2>1 DEF Owned, FirstCall, Untouched, Create
    <3> QED BY <2>1, <3>1, <3>2, <3>3 DEF Owned, EdgeOwned
  <2>3. /\ tid' = starts /\ mutex' = "ready" /\ once' /\ refs' /\ hooks'
        /\ pc' = [pc EXCEPT ![Main] = "idle"]
        /\ \A g \in Edges : g # starts => ~Alive(g)'
    BY <2>1, <2>2 DEF Create, Alive
  <2>4. EdgeOwned'
    BY <2>1, <2>3 DEF EdgeOwned
  <2>5. StopEffective'
    <3>1. \A j \in Jobs, g \in Edges : g <= upto[j] => g # starts
      BY <2>1 DEF Counting
    <3> QED BY <2>3, <3>1 DEF StopEffective, Create, service
  <2>6. \A t \in Threads : pc'[t] \notin Holding /\ pc'[t] \notin First
    BY <2>2, <2>3 DEF Holding, First
  <2>7. Resets'
    BY <2>6 DEF Resets, Holding
  <2>8. FirstCall'
    BY <2>1, <2>3, <2>6 DEF FirstCall, First
  <2>9. Starting'
    BY <2>3 DEF Starting
  <2> QED BY <2>4, <2>5, <2>7, <2>8, <2>9 DEF Owned
<1> QED BY <1>1, <1>2

LEMMA KeptByMain ==
  ASSUME IInv, Community \/ onStartCommand \/ NotEstablished \/ onLogChangeEvent \/ MainStep
  PROVE  IInv'
<1> USE Sets DEF IInv, Shape, Counting, Owned, EdgeOwned, StopEffective, Resets, FirstCall,
      Untouched, Holding, First, Starting, Alive, InReset, At, native
<1>1. CASE Community
  <2>1. CASE Request
    BY <1>1, <2>1, Requested DEF Community
  <2>2. CASE ~Request
    BY <1>1, <2>2 DEF Community
  <2> QED BY <2>1, <2>2
<1>2. CASE onStartCommand
  <2>1. /\ starts < MaxStarts /\ starts' = starts + 1 /\ starts' \in Edges
        /\ \A j \in Jobs : upto[j] < starts'
    BY <1>2 DEF onStartCommand
  <2>2. pc[Main] = "idle" /\ pc' = [pc EXCEPT ![Main] = "enter"] /\ ~wanted'
    BY <1>2 DEF onStartCommand
  <2>3. Shape' /\ Counting'
    BY <1>2, <2>1, <2>2 DEF onStartCommand
  <2>4. ~raced' => Owned'
    BY <1>2, <2>2 DEF onStartCommand
  <2> QED BY <2>3, <2>4
<1>3. CASE StartEdge
  BY <1>3 DEF StartEdge, service
<1>4. CASE StartRefused
  BY <1>4 DEF StartRefused, service
<1>5. CASE Create
  BY <1>5, KeptByCreate
<1>6. CASE CreateFails
  BY <1>6 DEF CreateFails, service
<1>7. CASE onLogChangeEvent
  <2>1. /\ pc[Main] = "idle" /\ \E to \in {"lock", "report"} : pc' = [pc EXCEPT ![Main] = to]
        /\ UNCHANGED <<native, edge, wanted, starts, stops, upto>>
    BY <1>7 DEF onLogChangeEvent
  <2>2. Shape' /\ Counting'
    BY <2>1
  <2>3. ~raced' => EdgeOwned' /\ StopEffective' /\ Resets'
    BY <2>1
  <2>4. ~raced' => FirstCall' /\ Starting'
    BY <2>1
  <2> QED BY <2>2, <2>3, <2>4
<1>8. CASE ReadStatus
  <2>1. /\ pc[Main] = "lock" /\ pc' = [pc EXCEPT ![Main] = "report"]
        /\ UNCHANGED <<native, edge, wanted, starts, stops, upto>>
    BY <1>8 DEF ReadStatus
  <2>2. Shape' /\ Counting'
    BY <2>1
  <2>3. ~raced' => EdgeOwned' /\ StopEffective' /\ Resets'
    BY <2>1
  <2>4. ~raced' => FirstCall' /\ Starting'
    BY <2>1
  <2> QED BY <2>2, <2>3, <2>4
<1>9. CASE reportEdgeStatus
  BY <1>9 DEF reportEdgeStatus
<1>10. CASE NotEstablished
  BY <1>10 DEF NotEstablished
<1>11. CASE SetHooks
  BY <1>11 DEF SetHooks, service
<1> QED BY <1>1, <1>2, <1>3, <1>4, <1>5, <1>6, <1>7, <1>8, <1>9, <1>10, <1>11 DEF MainStep

-----------------------------------------------------------------------------
(* The edge *)

\* A step of an edge thread that leaves the status of the native side alone.
LEMMA KeptByTurn ==
  ASSUME IInv, NEW g \in Edges, Alive(g), NEW to, Turn(g, edge[g], to),
         UNCHANGED <<once, mut, tid, joined, mutex, refs, hooks, raced, pc, wanted, starts,
                     stops, upto>>
  PROVE  IInv'
<1> USE DEF IInv, Shape, Turn
<1>1. Shape' /\ Counting'
  BY DEF Counting
<1>2. \A h \in Edges : Alive(h)' => Alive(h)
  BY DEF Alive
<1>3. ASSUME ~raced' PROVE Owned'
  <2>1. ~raced /\ Owned
    BY <1>3
  <2>2. EdgeOwned' /\ StopEffective'
    BY <1>2, <2>1 DEF Owned, EdgeOwned, StopEffective
  <2>3. Resets' /\ FirstCall' /\ Starting'
    BY <1>2, <2>1 DEF Owned, Resets, FirstCall, Untouched, Starting
  <2> QED BY <2>2, <2>3 DEF Owned
<1> QED BY <1>1, <1>3

LEMMA KeptByEdge == ASSUME IInv, NEW g \in Edges, EdgeStep(g) PROVE IInv'
<1>1. Alive(g) /\ \E to : Turn(g, edge[g], to)
  BY DEF EdgeStep, NoRoutine, Starts, Connecting, edge_init, SetupFails, Failed, Connected,
    readFromMgmtSocket, Turn, Alive
<1>2. UNCHANGED <<once, mut, tid, joined, mutex, refs, hooks, raced, pc, wanted, starts,
                  stops, upto>>
  BY DEF EdgeStep, NoRoutine, Starts, Connecting, edge_init, SetupFails, Failed, Connected,
    readFromMgmtSocket, native, service
<1> QED BY <1>1, <1>2, KeptByTurn

-----------------------------------------------------------------------------
\* The invariant is inductive.
THEOREM Inductive == Spec => []IInv
<1>1. Init => IInv
  BY Initially
<1>2. IInv /\ [Next]_vars => IInv'
  <2> SUFFICES ASSUME IInv, [Next]_vars PROVE IInv'
    OBVIOUS
  <2>1. CASE Next
    BY <2>1, KeptByReset, KeptByStop, KeptByMain, KeptByEdge DEF Next
  <2>2. CASE UNCHANGED vars
    BY <2>2 DEF vars, native, service, IInv, Shape, Counting, Owned, EdgeOwned,
      StopEffective, Resets, FirstCall, Untouched, Starting, Alive
  <2> QED BY <2>1, <2>2
<1> QED BY <1>1, <1>2, PTL DEF Spec

Places == InReset \cup {"idle", "fill", "hook", "create", "lock", "report",
                        "free", "stopped", "message", "done"}

EdgePlaces == {"none", "boot", "start", "setup", "bound", "loop", "failed", "dead"}

Placed == pc \in [Threads -> Places] /\ edge \in [Edges -> EdgePlaces]

LEMMA PlaceNames ==
  /\ \A p \in {"enter", "init", "unset", "unready", "stop", "join", "clear", "idle", "fill",
              "hook", "create", "lock", "report", "free", "stopped", "message", "done"} :
        p \in Places
  /\ \A p \in {"none", "boot", "start", "setup", "bound", "loop", "failed", "dead"} : p \in EdgePlaces
BY DEF Places, EdgePlaces, InReset, First

LEMMA Moved ==
  ASSUME Placed, NEW t \in Threads, NEW from, NEW to \in Places, At(t, from, to)
  PROVE  pc' \in [Threads -> Places]
BY DEF Placed, At

LEMMA Turned ==
  ASSUME Placed, NEW g \in Edges, NEW from, NEW to \in EdgePlaces, Turn(g, from, to)
  PROVE  edge' \in [Edges -> EdgePlaces]
BY DEF Placed, Turn

NativeTyped ==
  /\ once \in BOOLEAN /\ mut \in SUBSET Threads /\ tid \in {None, Unset} \cup Edges
  /\ joined \in {None, Unset} \cup Edges /\ refs \in BOOLEAN /\ hooks \in BOOLEAN
  /\ mutex \in {"new", "ready", "destroyed"} /\ running \in Status /\ raced \in BOOLEAN

ServiceTyped ==
  /\ flag \in BOOLEAN /\ wanted \in BOOLEAN /\ shown \in Status /\ seen \in Status
  /\ starts \in 0..MaxStarts /\ stops \in 0..MaxStops
  /\ upto \in [Jobs -> 0..MaxStarts] /\ asked \in {"none", "start", "stop"}

\* The variables but the places of threads and edges.
Valued ==
  /\ NativeTyped /\ ServiceTyped
  /\ mail \in SUBSET Edges /\ deaf \in SUBSET Edges
  /\ cleanup \in BOOLEAN /\ died \in BOOLEAN

LEMMA NativeKept == ASSUME NativeTyped, UNCHANGED native PROVE NativeTyped'
BY DEF NativeTyped, native

LEMMA ServiceKept == ASSUME ServiceTyped, UNCHANGED service PROVE ServiceTyped'
BY DEF ServiceTyped, service

LEMMA TypeParts == TypeOK <=> Placed /\ Valued
BY DEF TypeOK, Placed, Valued, NativeTyped, ServiceTyped, Places, EdgePlaces

LEMMA TypesInitially == Init => TypeOK
<1> SUFFICES ASSUME Init PROVE Placed /\ Valued
  BY TypeParts
<1>1. Placed
  BY PlaceNames DEF Init, Placed
<1>2. 0 \in 0..MaxStarts /\ 0 \in 0..MaxStops
  BY BoundsAssumption
<1>3. upto \in [Jobs -> 0..MaxStarts]
  BY <1>2 DEF Init
<1>4. Valued
  BY <1>2, <1>3 DEF Init, Valued, NativeTyped, ServiceTyped, Status, None
<1> QED BY <1>1, <1>4

LEMMA Locked == LockStatus => died' \in BOOLEAN
<1>1. (mutex = "destroyed") \in BOOLEAN
  OBVIOUS
<1> QED BY <1>1, Zenon DEF LockStatus

LEMMA Passed == ASSUME NEW t \in Threads, raced \in BOOLEAN, Passes(t) PROVE raced' \in BOOLEAN
<1>1. (raced \/ \E u \in Threads \ {t} : pc[u] \in First) \in BOOLEAN
  OBVIOUS
<1> QED BY <1>1, Zenon DEF Passes

LEMMA StopTyped ==
  ASSUME Valued, NEW t \in Threads, ResetStop(t)
  PROVE  mail' \in SUBSET Edges /\ deaf' \in SUBSET Edges
<1>1. \E to \in SUBSET Edges : Told(to)
  BY DEF ResetStop, stop_edge_v2
<1> QED BY <1>1 DEF Told, Valued

LEMMA ResetTyped ==
  ASSUME IInv, Placed, Valued, NEW t \in Threads, ResetEdgeStatus(t) PROVE Placed' /\ Valued'
<1> USE ServiceKept DEF Valued
<1>1. UNCHANGED edge /\ \E from, to \in Places : At(t, from, to)
  BY PlaceNames DEF ResetEdgeStatus, ResetFirst, ResetInit, ResetOnce, ResetSkip, ResetStop,
    ResetTarget, ResetJoin, ResetClear, Caller
<1>2. Placed'
  BY <1>1, Moved DEF Placed
<1>3. raced \in BOOLEAN /\ cleanup \in BOOLEAN /\ ServiceTyped'
  BY DEF NativeTyped, ResetEdgeStatus, ResetFirst, ResetInit, ResetOnce, ResetSkip, ResetStop,
    ResetTarget, ResetJoin, ResetClear
<1>4. CASE ResetFirst(t)
  <2>1. raced' \in BOOLEAN
    BY <1>3, <1>4, Passed DEF ResetFirst
  <2> QED BY <1>2, <1>3, <1>4, <2>1 DEF NativeTyped, ResetFirst
<1>5. CASE ResetInit(t)
  BY <1>2, <1>3, <1>5 DEF NativeTyped, Status, ResetInit, InitEdgeStatus
<1>6. CASE ResetOnce(t)
  BY <1>2, <1>3, <1>6 DEF NativeTyped, ResetOnce
<1>7. CASE ResetSkip(t)
  <2>1. raced' \in BOOLEAN
    BY <1>3, <1>7, Passed DEF ResetSkip
  <2> QED BY <1>2, <1>3, <1>7, <2>1 DEF NativeTyped, ResetSkip
<1>8. CASE ResetStop(t)
  <2>1. raced' \in BOOLEAN
    BY <1>3, <1>8, Passed DEF ResetStop
  <2>2. mail' \in SUBSET Edges /\ deaf' \in SUBSET Edges
    BY <1>8, StopTyped
  <2> QED BY <1>2, <1>3, <1>8, <2>1, <2>2 DEF NativeTyped, ResetStop
<1>9. CASE ResetTarget(t)
  BY <1>2, <1>3, <1>9 DEF NativeTyped, ResetTarget
<1>10. CASE ResetJoin(t)
  BY <1>2, <1>3, <1>10, NativeKept DEF ResetJoin
<1>11. CASE ResetClear(t)
  <2>1. died' \in BOOLEAN
    BY <1>11, Locked DEF ResetClear
  <2>2. (cleanup /\ t # Main) \in BOOLEAN
    OBVIOUS
  <2>3. cleanup' \in BOOLEAN
    BY <1>11, <2>2, Zenon DEF ResetClear
  <2>4. NativeTyped'
    BY <1>11 DEF NativeTyped, Status, ResetClear, InitEdgeStatus
  <2> QED BY <1>2, <1>3, <1>11, <2>1, <2>3, <2>4 DEF ResetClear
<1> QED BY <1>4, <1>5, <1>6, <1>7, <1>8, <1>9, <1>10, <1>11 DEF ResetEdgeStatus

LEMMA RequestTyped ==
  ASSUME IInv, Placed, Valued, Request
  PROVE  /\ stops' \in 0..MaxStops /\ upto' \in [Jobs -> 0..MaxStarts] /\ asked' = "stop"
         /\ pc' \in [Threads -> Places]
<1>1. stops + 1 \in Jobs /\ stops + 1 \in Threads
  BY Sets DEF Request, IInv, Shape
<1>2. stops' \in 0..MaxStops /\ upto' \in [Jobs -> 0..MaxStarts]
  BY <1>1, BoundsAssumption DEF Request, Valued, ServiceTyped, Jobs
<1>3. pc' \in [Threads -> Places]
  BY <1>1, PlaceNames DEF Request, Placed
<1> QED BY <1>2, <1>3 DEF Request

LEMMA MainTyped ==
  ASSUME IInv, Placed, Valued,
         Stop \/ Community \/ onStartCommand \/ NotEstablished \/ onLogChangeEvent \/ MainStep
  PROVE  Placed' /\ Valued'
<1> USE Sets, NativeKept, ServiceKept DEF Valued
<1>1. ASSUME Request, UNCHANGED <<native, edge, mail, cleanup, flag, shown, seen, starts,
                                  deaf, died>>, wanted' \in BOOLEAN
      PROVE  Placed' /\ Valued'
  BY <1>1, RequestTyped DEF Placed, ServiceTyped
<1>2. CASE Stop
  BY <1>1, <1>2 DEF Stop, ServiceTyped
<1>3. CASE Community
  <2>1. CASE Request
    BY <1>1, <1>3, <2>1 DEF Community
  <2>2. CASE ~Request
    BY <1>3, <2>2 DEF Community, Placed, ServiceTyped
  <2> QED BY <2>1, <2>2
<1>4. CASE onStartCommand
  <2>1. starts + 1 \in 0..MaxStarts
    BY <1>4, BoundsAssumption DEF onStartCommand, IInv, Counting, Shape
  <2>2. At(Main, "idle", "enter") /\ UNCHANGED edge
    BY <1>4 DEF onStartCommand
  <2>3. Placed'
    BY <2>2, Moved, PlaceNames DEF Placed
  <2>4. Valued'
    BY <1>4, <2>1 DEF onStartCommand, ServiceTyped
  <2> QED BY <2>3, <2>4
<1>5. CASE onLogChangeEvent
  <2>1. UNCHANGED edge /\ \E from, to \in Places : At(Main, from, to)
    BY <1>5, PlaceNames DEF onLogChangeEvent
  <2>2. Placed'
    BY <2>1, Moved DEF Placed
  <2>3. Valued'
    BY <1>5 DEF onLogChangeEvent, ServiceTyped, Status
  <2> QED BY <2>2, <2>3
<1>6. CASE Create
  <2>1. starts \in Edges
    BY <1>6, PlaceNames DEF Create, At, IInv, Counting
  <2>2. Placed'
    BY <1>6, <2>1, PlaceNames DEF Create, At, Placed
  <2>3. Valued'
    BY <1>6, <2>1 DEF Create, NativeTyped
  <2> QED BY <2>2, <2>3
<1>7. CASE MainStep /\ ~Create
  <2>1. UNCHANGED edge /\ \E from, to \in Places : At(Main, from, to)
    BY <1>7, PlaceNames DEF MainStep, StartEdge, SetHooks, StartRefused, CreateFails,
      ReadStatus, reportEdgeStatus
  <2>2. Placed'
    BY <2>1, Moved DEF Placed
  <2>3. Valued'
    <3>1. CASE ReadStatus
      <4>1. died' \in BOOLEAN
        BY <3>1, Locked DEF ReadStatus
      <4> QED BY <3>1, <4>1 DEF ReadStatus, NativeTyped, ServiceTyped
    <3>2. CASE StartEdge \/ SetHooks
      BY <3>2 DEF StartEdge, SetHooks, NativeTyped
    <3>3. CASE StartRefused
      BY <3>3 DEF StartRefused
    <3>4. CASE CreateFails
      BY <3>4 DEF CreateFails, NativeTyped
    <3>5. CASE reportEdgeStatus
      BY <3>5 DEF reportEdgeStatus, ServiceTyped, Status
    <3> QED BY <1>7, <3>1, <3>2, <3>3, <3>4, <3>5 DEF MainStep
  <2> QED BY <2>2, <2>3
<1>8. CASE NotEstablished
  BY <1>8 DEF NotEstablished, Placed, ServiceTyped
<1> QED BY <1>2, <1>3, <1>4, <1>5, <1>6, <1>7, <1>8

LEMMA TellTyped ==
  ASSUME died \in BOOLEAN, shown \in Status, NEW s \in Status, Tell(s)
  PROVE  died' \in BOOLEAN /\ shown' \in Status /\ running' \in Status
<1>1. (died \/ ~hooks) \in BOOLEAN
  OBVIOUS
<1>2. died' \in BOOLEAN
  BY <1>1, Zenon DEF Tell
<1> QED BY <1>2 DEF Tell

LEMMA EdgeTyped ==
  ASSUME Placed, Valued, NEW g \in Edges, EdgeStep(g) PROVE Placed' /\ Valued'
<1> USE NativeKept, ServiceKept DEF Valued
<1>1. UNCHANGED pc /\ \E from, to \in EdgePlaces : Turn(g, from, to)
  BY PlaceNames DEF EdgeStep, NoRoutine, Starts, Connecting, edge_init, SetupFails, Failed,
    Connected, readFromMgmtSocket
<1>2. Placed'
  BY <1>1, Turned DEF Placed
<1>3. /\ died \in BOOLEAN /\ shown \in Status
      /\ {"CONNECTING", "CONNECTED", "FAILED"} \subseteq Status
  BY DEF ServiceTyped, Status
<1>4. CASE Connecting(g)
  <2>1. died' \in BOOLEAN /\ shown' \in Status /\ running' \in Status
    BY <1>3, <1>4, TellTyped DEF Connecting
  <2>2. NativeTyped' /\ ServiceTyped'
    BY <1>4, <2>1 DEF Connecting, NativeTyped, ServiceTyped
  <2> QED BY <1>2, <1>4, <2>1, <2>2 DEF Connecting
<1>5. CASE Connected(g)
  <2>1. died' \in BOOLEAN /\ shown' \in Status /\ running' \in Status
    <3>1. CASE Tell("CONNECTED")
      BY <1>3, <3>1, TellTyped
    <3>2. CASE died' = TRUE /\ UNCHANGED <<running, shown>>
      BY <3>2 DEF NativeTyped, ServiceTyped
    <3> QED BY <1>5, <3>1, <3>2 DEF Connected
  <2>2. NativeTyped' /\ ServiceTyped'
    BY <1>5, <2>1 DEF Connected, NativeTyped, ServiceTyped
  <2> QED BY <1>2, <1>5, <2>1, <2>2 DEF Connected
<1>6. CASE NoRoutine(g) \/ Starts(g)
  BY <1>2, <1>6 DEF NoRoutine, Starts
<1>7. CASE edge_init(g) \/ SetupFails(g)
  BY <1>2, <1>7 DEF edge_init, SetupFails
<1>8. CASE Failed(g)
  <2>1. NativeTyped' /\ ServiceTyped'
    BY <1>3, <1>8 DEF Failed, NativeTyped, ServiceTyped
  <2> QED BY <1>2, <1>8, <2>1 DEF Failed
<1>9. CASE readFromMgmtSocket(g)
  BY <1>2, <1>9 DEF readFromMgmtSocket
<1> QED BY <1>4, <1>5, <1>6, <1>7, <1>8, <1>9 DEF EdgeStep

LEMMA JobTyped ==
  ASSUME Placed, Valued, NEW j \in Jobs, StopJob(j) \/ StopMessage(j) PROVE Placed' /\ Valued'
<1>1. UNCHANGED edge /\ \E from, to \in Places : At(j, from, to)
  BY PlaceNames DEF StopJob, StopMessage
<1>2. Placed'
  BY <1>1, Moved, Sets DEF Placed
<1>3. ServiceTyped'
  BY DEF StopJob, StopMessage, Valued, ServiceTyped, Status
<1>4. Valued'
  BY <1>3, NativeKept DEF StopJob, StopMessage, Valued
<1> QED BY <1>2, <1>4

\* The types of the state, among them that status.tid names the edge of a start
\* within the bound, and that every thread is at a place of its procedure.
THEOREM Types == Spec => []TypeOK
<1>1. IInv /\ TypeOK /\ [Next]_vars => TypeOK'
  <2> SUFFICES ASSUME IInv, Placed, Valued, [Next]_vars PROVE Placed' /\ Valued'
    BY TypeParts DEF TypeOK, Placed, Valued, NativeTyped, ServiceTyped, Places, EdgePlaces
  <2>1. CASE UNCHANGED vars
    BY <2>1, NativeKept, ServiceKept DEF vars, Placed, Valued
  <2> QED BY <2>1, ResetTyped, MainTyped, EdgeTyped, JobTyped DEF Next
<1> QED BY <1>1, Inductive, TypesInitially, PTL DEF Spec

\* Whatever starts and stops overlap, the thread of an edge that lives is the one
\* status.tid names, under an initialised status.mutex and with all its pointers
\* set, unless a call overtook the first one's initialisation.
THEOREM EdgesAreOwned == Spec => []EdgeOwned
<1>1. IInv => EdgeOwned
  BY DEF IInv, Owned, EdgeOwned
<1> QED BY <1>1, Inductive, PTL

\* A stopEdge that has returned leaves no edge started before the stop, whoever
\* else was resetting the status; with the same exception.
THEOREM StopsAreEffective == Spec => []StopEffective
<1>1. IInv => StopEffective
  BY DEF IInv, Owned, StopEffective
<1> QED BY <1>1, Inductive, PTL

-----------------------------------------------------------------------------
(***************************************************************************)
(* The last stop wins: while no start follows it, the job of the last stop *)
(* empties status.tid for good, and its message meets an idle main thread, *)
(* so that no status read earlier is still to be shown.                    *)
(***************************************************************************)
Quiet ==
  /\ asked = "stop" /\ pc[stops] \in {"stopped", "message", "done"} => tid = None
  /\ asked = "stop" /\ pc[stops] = "done" =>
       /\ shown = "DISCONNECT"
       /\ pc[Main] # "lock"
       /\ pc[Main] = "report" => seen = "DISCONNECT"

LastStop ==
  /\ \A j \in Jobs : pc[j] = "free" => stops < j
  /\ pc[Main] \in InReset \cup {"fill", "hook", "create"} => asked = "start"
  /\ asked = "stop" => stops \in Jobs
  /\ ~raced => Quiet

LEMMA LastStopInitially == Init => LastStop
BY Sets DEF Init, LastStop, Quiet, Main, InReset, First

LEMMA LastStopRequested ==
  ASSUME IInv, LastStop, Request, UNCHANGED <<native, shown, seen>> PROVE LastStop'
<1>1. stops + 1 \in Jobs /\ stops + 1 # Main
  BY Sets DEF Request, IInv, Shape
<1>2. pc' = [pc EXCEPT ![stops + 1] = "enter"] /\ stops' = stops + 1 /\ pc'[Main] = "idle"
  BY <1>1, Sets DEF Request, IInv, Shape
<1>3. pc'[stops'] = "enter"
  BY <1>1, <1>2, Sets DEF IInv, Shape
<1>4. \A j \in Jobs : pc'[j] = "free" => stops' < j
  BY <1>1, <1>2, Sets DEF IInv, Shape, LastStop
<1> QED BY <1>1, <1>2, <1>3, <1>4 DEF LastStop, Quiet, InReset, First

\* While the last command is a stop, the main thread is in no reset.
LEMMA LastStopReset ==
  ASSUME IInv, LastStop, NEW t \in Threads, ResetEdgeStatus(t) PROVE LastStop'
<1> USE Sets DEF IInv, Shape, At, Caller
<1>1. /\ asked' = asked /\ stops' = stops /\ shown' = shown /\ seen' = seen
      /\ pc[t] \in InReset /\ pc' = [pc EXCEPT ![t] = pc'[t]]
      /\ pc'[t] \in InReset \cup {"stopped", "fill", "idle"}
      /\ raced => raced'
  <2>1. UNCHANGED service
    BY DEF ResetEdgeStatus, ResetFirst, ResetInit, ResetOnce, ResetSkip, ResetStop,
      ResetTarget, ResetJoin, ResetClear
  <2>2. raced => raced'
    BY DEF ResetEdgeStatus, ResetFirst, ResetInit, ResetOnce, ResetSkip, ResetStop,
      ResetTarget, ResetJoin, ResetClear, native, Passes
  <2>3. \E from \in InReset, to \in InReset \cup {"stopped", "fill", "idle"} : At(t, from, to)
    BY DEF ResetEdgeStatus, ResetFirst, ResetInit, ResetOnce, ResetSkip, ResetStop,
      ResetTarget, ResetJoin, ResetClear, InReset, First
  <2> QED BY <2>1, <2>2, <2>3 DEF service
<1>2. asked = "stop" => t # Main
  BY <1>1 DEF LastStop
<1>3. \A j \in Jobs : pc'[j] = "free" => pc[j] = "free"
  BY <1>1 DEF InReset, First
<1>4. pc'[Main] \in InReset \cup {"fill", "hook", "create"} => asked = "start"
  BY <1>1, <1>2 DEF LastStop, InReset, First
<1>5. ASSUME ~raced', asked = "stop" PROVE Quiet'
  <2>1. ~raced /\ Quiet /\ Owned /\ stops \in Jobs /\ stops \in Threads /\ t # Main
    BY <1>1, <1>2, <1>5 DEF LastStop
  <2>2. pc'[Main] = pc[Main]
    BY <1>1, <2>1
  <2>3. tid' = None \/ tid' = tid
    BY DEF ResetEdgeStatus, ResetFirst, ResetInit, ResetOnce, ResetSkip, ResetStop,
      ResetTarget, ResetJoin, ResetClear, native, InitEdgeStatus
  <2>4. ASSUME t = stops, pc'[stops] \in {"stopped", "message", "done"}
        PROVE  tid' = None /\ pc'[stops] = "stopped"
    BY <1>1, <2>1, <2>4 DEF ResetEdgeStatus, ResetFirst, ResetInit, ResetOnce, ResetSkip,
      ResetStop, ResetTarget, ResetJoin, ResetClear, InitEdgeStatus, Owned, FirstCall, First,
      InReset
  <2>5. CASE t = stops
    BY <1>1, <2>4, <2>5 DEF Quiet
  <2>6. CASE t # stops
    <3>1. pc'[stops] = pc[stops]
      BY <1>1, <2>1, <2>6
    <3> QED BY <1>1, <2>1, <2>2, <2>3, <3>1 DEF Quiet
  <2> QED BY <2>5, <2>6
<1>6. asked # "stop" => Quiet'
  BY <1>1 DEF Quiet
<1> QED BY <1>1, <1>3, <1>4, <1>5, <1>6 DEF LastStop

LEMMA LastStopKept == ASSUME IInv, LastStop, Next PROVE LastStop'
<1> USE Sets DEF IInv, Shape, LastStop, Quiet, InReset, First, At, native
<1>1. ASSUME NEW t \in Threads, ResetEdgeStatus(t) PROVE LastStop'
  BY <1>1, LastStopReset
<1>2. ASSUME NEW j \in Jobs, StopJob(j) PROVE LastStop'
  BY <1>2 DEF StopJob
<1>3. ASSUME NEW j \in Jobs, StopMessage(j) PROVE LastStop'
  BY <1>3 DEF StopMessage
<1>4. ASSUME Stop PROVE LastStop'
  BY <1>4, LastStopRequested DEF Stop
<1>5. ASSUME Community PROVE LastStop'
  <2>1. CASE Request
    BY <1>5, <2>1, LastStopRequested DEF Community
  <2>2. CASE ~Request
    BY <1>5, <2>2 DEF Community
  <2> QED BY <2>1, <2>2
<1>6. ASSUME onStartCommand \/ NotEstablished PROVE LastStop'
  BY <1>6 DEF onStartCommand, NotEstablished
<1>7. ASSUME onLogChangeEvent PROVE LastStop'
  BY <1>7 DEF onLogChangeEvent
<1>8. ASSUME MainStep PROVE LastStop'
  BY <1>8 DEF MainStep, StartEdge, SetHooks, StartRefused, Create, CreateFails, ReadStatus,
    reportEdgeStatus, service
<1>9. ASSUME NEW g \in Edges, EdgeStep(g) PROVE LastStop'
  <2>1. /\ UNCHANGED <<pc, tid, raced, asked, stops, seen>>
        /\ Alive(g)
    BY <1>9 DEF EdgeStep, NoRoutine, Starts, Connecting, edge_init, SetupFails, Failed,
      Connected, readFromMgmtSocket, Turn, Alive, service
  <2>2. ASSUME ~raced, asked = "stop" PROVE tid # None /\ pc[stops] # "done"
    BY <2>1, <2>2 DEF Owned, EdgeOwned
  <2> QED BY <2>1, <2>2
<1> QED BY <1>1, <1>2, <1>3, <1>4, <1>5, <1>6, <1>7, <1>8, <1>9 DEF Next

\* When the last command was a stop and everybody is at rest, no edge lives and the
\* application shows that; with the same exception.
THEOREM LastStopHolds == Spec => []LastStopWins
<1>1. Init => LastStop
  BY LastStopInitially
<1>2. IInv /\ LastStop /\ [Next]_vars => LastStop'
  BY LastStopKept DEF vars, native, service, LastStop, Quiet
<1>3. IInv /\ LastStop => LastStopWins
  <2> SUFFICES ASSUME IInv, LastStop, ~raced, asked = "stop",
                      \A j \in Jobs : pc[j] \in {"free", "done"}
               PROVE  tid = None /\ shown = "DISCONNECT" /\ \A g \in Edges : ~Alive(g)
    BY DEF LastStopWins
  <2>1. stops \in Jobs /\ pc[stops] = "done"
    BY Sets DEF LastStop, IInv, Shape
  <2>2. tid = None /\ shown = "DISCONNECT"
    BY <2>1 DEF LastStop, Quiet
  <2> QED BY <2>2, Sets DEF IInv, Owned, EdgeOwned
<1> QED BY <1>1, <1>2, <1>3, Inductive, PTL DEF Spec
============================================================================
