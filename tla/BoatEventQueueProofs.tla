------------------------ MODULE BoatEventQueueProofs ------------------------
(***************************************************************************)
(* Proofs about BoatEventQueue for any set of producers, any memory, any   *)
(* pipe size and any number of pushes.  The inductive invariant has two    *)
(* parts.  Sync is about the mutex and the pipe: a thread inside the       *)
(* critical section owns the mutex (so at most one byte is outstanding),   *)
(* nothing has happened before the pipe exists, and a consumer which       *)
(* waited still finds its byte when it gets the mutex, because nobody else *)
(* reads the pipe.  ListInv is about the memory: next leads from each node *)
(* of order to the one after it, and head, tail and count are the ends and *)
(* the length of that list, but for the node the owner of the mutex is     *)
(* linking or has just unlinked.                                           *)
(***************************************************************************)
EXTENDS BoatEventQueue, TLAPS, SequenceTheorems

\* A thread in the critical section holds the mutex.
MutexInv == \A t \in Threads : Inside(t) => mutex = t

\* Before the pipe exists no thread has entered and nothing is queued.
NotReadyInv ==
  ~ready => /\ \A t \in Threads : pc[t] = "idle"
            /\ count = 0 /\ pipe = 0 /\ order = <<>> /\ taken = <<>> /\ accepted = <<>>

\* The byte a waiting consumer was told of is still there.
WaitInv == WaitsFirst /\ pc[Consumer] \in {"lock", "read"} => pipe > 0

Sync == TypeOK /\ MutexInv /\ NotReadyInv /\ QueueMatchesPipe /\ WaitInv

\* The places where a thread has a node of its own in its hands.
Holding == {"link", "tail", "fill", "copy"}

\* Each waiting event has its node, and next goes from node to node.
Chain ==
  /\ \A i \in 1..Len(order) : order[i] \in used /\ data[order[i]] \in Events
  /\ \A i, j \in 1..Len(order) : order[i] = order[j] => i = j
  /\ \A i \in 1..(Len(order) - 1) : next[order[i]] = order[i + 1]

First(n) == IF order = <<>> THEN n ELSE order[1]

\* The ends of the list, seen by the thread inside the mutex.
Whole ==
  (\A t \in Threads : pc[t] \notin {"tail", "fill", "copy"}) =>
    /\ count = Len(order)
    /\ order # <<>> => head = order[1] /\ tail = order[Len(order)]

Own(p) ==
  pc[p] \in {"link", "tail", "fill"} =>
    e[p] \in used /\ \A i \in 1..Len(order) : order[i] # e[p]

Linked(p) ==
  pc[p] = "tail" =>
    /\ count = Len(order) /\ head = First(e[p])
    /\ order # <<>> => tail = order[Len(order)] /\ next[tail] = e[p]

Counted(p) ==
  pc[p] = "fill" =>
    /\ count = Len(order) + 1 /\ head = First(e[p]) /\ tail = e[p]
    /\ order # <<>> => next[order[Len(order)]] = e[p]

Unlinked ==
  pc[Consumer] = "copy" =>
    /\ order # <<>> /\ e[Consumer] = order[1] /\ count = Len(order) - 1
    /\ Len(order) > 1 => head = order[2] /\ tail = order[Len(order)]

ListInv ==
  /\ Chain /\ Whole /\ Unlinked
  /\ \A p \in Producers : Own(p) /\ Linked(p) /\ Counted(p)

IInv == Sync /\ ListInv /\ Fifo

-----------------------------------------------------------------------------
\* One event moves from the head of the queue to the end of what was taken.
LEMMA TakeKeepsOrder ==
  ASSUME NEW q \in Seq(Events), NEW t \in Seq(Events), q # <<>>
  PROVE  /\ Append(t, Head(q)) \o Tail(q) = t \o q
         /\ Append(t, Head(q)) \in Seq(Events)
         /\ Tail(q) \in Seq(Events)
         /\ Len(Tail(q)) = Len(q) - 1
<1>1. /\ Head(q) \in Events /\ Tail(q) \in Seq(Events) /\ Len(Tail(q)) = Len(q) - 1
      /\ q = <<Head(q)>> \o Tail(q)
  BY HeadTailProperties
<1>2. Append(t, Head(q)) = t \o <<Head(q)>>
  BY <1>1, AppendIsConcat
<1>3. (t \o <<Head(q)>>) \o Tail(q) = t \o (<<Head(q)>> \o Tail(q))
  BY <1>1, ConcatAssociative
<1>4. QED
  BY <1>1, <1>2, <1>3

\* Linking an event at the tail extends what was accepted by it.
LEMMA AddKeepsOrder ==
  ASSUME NEW q \in Seq(Events), NEW t \in Seq(Events), NEW v \in Events
  PROVE  /\ Append(t \o q, v) = t \o Append(q, v)
         /\ Append(q, v) \in Seq(Events)
         /\ Len(Append(q, v)) = Len(q) + 1
<1>1. Append(q, v) = q \o <<v>> /\ Append(t \o q, v) = (t \o q) \o <<v>>
  BY AppendIsConcat, ConcatProperties
<1>2. (t \o q) \o <<v>> = t \o (q \o <<v>>)
  BY ConcatAssociative
<1>3. QED
  BY <1>1, <1>2, AppendProperties

\* What the waiting nodes hold is a sequence of events.
LEMMA ContentsType ==
  ASSUME TypeOK, Chain
  PROVE  /\ Contents \in Seq(Events) /\ Len(Contents) = Len(order) /\ Len(order) \in Nat
         /\ \A i \in 1..Len(order) : Contents[i] = data[order[i]]
<1>1. Len(order) \in Nat
  BY DEF TypeOK
<1>2. Contents \in [1..Len(order) -> Events]
  BY DEF Chain, Contents
<1> QED BY <1>1, <1>2 DEF Contents

LEMMA Sets ==
  /\ Consumer \in Threads /\ Consumer \notin Producers
  /\ \A p \in Producers : p \in Threads /\ p # Consumer
  /\ \A t \in Threads : t = Consumer \/ t \in Producers
  /\ Free \notin Threads /\ Null \notin Nodes /\ PipeSize \in Nat \ {0}
BY QueueAssumption DEF Threads

\* The initial states satisfy the invariant.
LEMMA InitIInv == Init => IInv
<1>1. SUFFICES ASSUME Init PROVE IInv
  OBVIOUS
<1>2. \A t \in Threads : pc[t] = "idle"
  BY <1>1 DEF Init
<1>3. TypeOK
  <2>1. order \in Seq(Nodes) /\ taken \in Seq(Events) /\ accepted \in Seq(Events)
    BY <1>1, EmptySeq DEF Init
  <2>2. pipe \in 0..PipeSize /\ count \in Nat
    BY <1>1, Sets DEF Init
  <2>3. /\ pc \in [Threads -> {"idle", "lock", "unlock"} \cup Adding \cup Taking]
        /\ \A p \in Producers : pc[p] \notin Taking
        /\ pc[Consumer] \notin Adding
    BY <1>1, Sets DEF Init, Adding, Taking
  <2> QED BY <1>1, <2>1, <2>2, <2>3 DEF Init, TypeOK
<1>4. MutexInv /\ NotReadyInv /\ WaitInv
  BY <1>1, <1>2, Sets DEF Init, MutexInv, NotReadyInv, WaitInv, Inside, Adding, Taking
<1>5. QueueMatchesPipe
  BY <1>1, <1>2, Sets DEF Init, QueueMatchesPipe, Between
<1>6. Len(order) = 0 /\ order = <<>>
  BY <1>1 DEF Init
<1>7. ListInv
  BY <1>1, <1>2, <1>6, Sets DEF Init, ListInv, Chain, Whole, Unlinked, Own, Linked, Counted
<1>8. Fifo
  <2>1. Contents = <<>>
    BY <1>6 DEF Contents
  <2> QED BY <1>1, <2>1 DEF Init, Fifo
<1> QED BY <1>3, <1>4, <1>5, <1>7, <1>8 DEF IInv, Sync

-----------------------------------------------------------------------------
(* The mutex *)

\* The critical section holds one thread, and only the holder of a half-done
\* transfer makes Between true.
LEMMA Alone ==
  ASSUME MutexInv, NEW t \in Threads, Inside(t)
  PROVE  \A u \in Threads : u # t => ~Inside(u)
BY DEF MutexInv

LEMMA BetweenOfHolder ==
  ASSUME TypeOK, MutexInv, NEW t \in Threads, Inside(t)
  PROVE  Between <=> pc[t] \in {"fill", "write", "take"}
<1>1. \A u \in Threads : u # t => ~Inside(u)
  BY Alone
<1> QED BY <1>1, Sets DEF TypeOK, Between, Inside, Adding, Taking

LEMMA NobodyInside ==
  ASSUME MutexInv, mutex = Free
  PROVE  ~Between /\ \A u \in Threads : ~Inside(u)
BY Sets DEF MutexInv, Between, Inside, Adding, Taking

\* A thread that moves on inside the mutex leaves it the only one there.
LEMMA InsideStep ==
  ASSUME Sync, NEW t \in Threads, NEW from \in Adding \cup Taking,
         NEW to \in Adding \cup Taking \cup {"unlock"},
         Goto(t, from, to), UNCHANGED <<ready, mutex>>,
         to # "read"
  PROVE  /\ MutexInv' /\ NotReadyInv' /\ ready /\ Inside(t) /\ mutex = t
         /\ \A u \in Threads : u # t => ~Inside(u) /\ pc'[u] = pc[u]
         /\ pc[t] = from /\ pc'[t] = to
         /\ Between <=> from \in {"fill", "write", "take"}
         /\ (TypeOK' => (Between' <=> to \in {"fill", "write", "take"}))
         /\ (pipe' = pipe \/ t = Consumer) => WaitInv'
<1>1. pc[t] = from /\ pc'[t] = to /\ Inside(t) /\ from # "idle"
  BY DEF Sync, TypeOK, Goto, Inside, Adding, Taking
<1>2. ready /\ mutex = t
  BY <1>1 DEF Sync, MutexInv, NotReadyInv
<1>3. \A u \in Threads : u # t => ~Inside(u) /\ pc'[u] = pc[u]
  BY <1>1, Alone DEF Sync, TypeOK, Goto
<1>4. MutexInv' /\ NotReadyInv' /\ Inside(t)'
  BY <1>1, <1>2, <1>3 DEF MutexInv, NotReadyInv, Inside
<1>5. Between <=> from \in {"fill", "write", "take"}
  BY <1>1, BetweenOfHolder DEF Sync
<1>6. TypeOK' => (Between' <=> to \in {"fill", "write", "take"})
  <2>1. ASSUME TypeOK' PROVE Between' <=> pc'[t] \in {"fill", "write", "take"}
    <3>1. \A u \in Threads : u # t => ~Inside(u)'
      BY <1>3 DEF Inside
    <3> QED BY <2>1, <3>1, <1>4, Sets DEF TypeOK, Between, Inside, Adding, Taking
  <2> QED BY <1>1, <2>1
<1>7. (pipe' = pipe \/ t = Consumer) => WaitInv'
  <2>1. CASE t = Consumer
    BY <1>1, <2>1 DEF WaitInv, Adding, Taking
  <2>2. CASE t # Consumer
    BY <1>3, <2>2, Sets DEF Sync, WaitInv
  <2> QED BY <2>1, <2>2
<1> QED BY <1>1, <1>2, <1>3, <1>4, <1>5, <1>6, <1>7

-----------------------------------------------------------------------------
(* Steps that leave the list alone *)

\* A thread that has no node in its hands, before or after its step.
LEMMA ListKept ==
  ASSUME TypeOK, ListInv, Fifo, NEW t \in Threads, NEW to,
         pc' = [pc EXCEPT ![t] = to], pc[t] \notin Holding, to \notin Holding,
         UNCHANGED <<queue, heap, e, history>>
  PROVE  ListInv' /\ Fifo'
<1>1. \A u \in Threads : pc'[u] = pc[u] \/ (pc[u] \notin Holding /\ pc'[u] \notin Holding)
  BY DEF TypeOK
<1>2. /\ UNCHANGED <<count, head, tail>> /\ UNCHANGED <<used, next, data>>
      /\ UNCHANGED <<order, taken, accepted, e>>
  BY DEF queue, heap, history
<1>3. Chain' /\ Fifo'
  BY <1>2 DEF ListInv, Chain, Fifo, Contents
<1>4. Whole'
  BY <1>1, <1>2 DEF ListInv, Whole, Holding
<1>5. Unlinked'
  BY <1>1, <1>2, Sets DEF ListInv, Unlinked, Holding
<1>6. ASSUME NEW p \in Producers PROVE Own(p)' /\ Linked(p)' /\ Counted(p)'
  BY <1>1, <1>2, Sets DEF ListInv, Own, Linked, Counted, First, Holding
<1> QED BY <1>3, <1>4, <1>5, <1>6 DEF ListInv

\* Creating the pipe finds no thread inside and an empty queue.
LEMMA setEventPipeStep == IInv /\ setEventPipe => IInv'
<1>1. SUFFICES ASSUME IInv, setEventPipe PROVE IInv'
  OBVIOUS
<1>2. /\ \A t \in Threads : pc[t] = "idle" /\ pc'[t] = "idle"
      /\ count = 0 /\ count' = 0 /\ pipe' = 0 /\ order = <<>> /\ order' = <<>>
      /\ UNCHANGED <<used, next, data, taken, accepted, pc, ev, e>> /\ ready'
      /\ mutex' = Free /\ head' = Null /\ tail' = Null
  BY <1>1 DEF IInv, Sync, NotReadyInv, setEventPipe, heap, history
<1>3. ~Between'
  BY <1>2, Sets DEF Between
<1>4. TypeOK'
  <2>1. pipe' \in 0..PipeSize /\ count' \in Nat /\ mutex' \in Threads \cup {Free}
    BY <1>2, Sets
  <2>2. order' \in Seq(Nodes)
    BY <1>2, EmptySeq
  <2> QED BY <1>1, <1>2, <2>1, <2>2 DEF IInv, Sync, TypeOK
<1>5. MutexInv' /\ NotReadyInv' /\ WaitInv' /\ QueueMatchesPipe'
  BY <1>2, <1>3, Sets
  DEF MutexInv, NotReadyInv, WaitInv, QueueMatchesPipe, Inside, Adding, Taking
<1>6. ListInv'
  <2>1. Len(order') = 0
    BY <1>2
  <2> QED BY <1>1, <1>2, <2>1, Sets
          DEF IInv, ListInv, Chain, Whole, Unlinked, Own, Linked, Counted
<1>7. Fifo'
  BY <1>1, <1>2 DEF IInv, Fifo, Contents
<1> QED BY <1>4, <1>5, <1>6, <1>7 DEF IInv, Sync

\* A producer enters pushEvent: the queue is not touched.
LEMMA PushStep == ASSUME IInv, NEW p \in Producers, NEW event \in Events, Push(p, event)
                  PROVE  IInv'
<1>1. p \in Threads /\ p # Consumer /\ ready /\ pc[p] = "idle"
  BY Sets DEF Push, Goto
<1>2. TypeOK'
  BY <1>1 DEF IInv, Sync, TypeOK, Push, Goto, queue, heap, history, Adding, Taking
<1>3. Between' <=> Between
  BY <1>1 DEF IInv, Sync, TypeOK, Push, Goto, Between
<1>4. MutexInv' /\ NotReadyInv' /\ WaitInv'
  BY <1>1, Sets
  DEF IInv, Sync, TypeOK, Push, Goto, MutexInv, NotReadyInv, WaitInv, Inside, Adding, Taking
<1>5. QueueMatchesPipe'
  BY <1>3 DEF IInv, Sync, Push, QueueMatchesPipe, queue
<1>6. ListInv' /\ Fifo'
  BY <1>1, ListKept DEF IInv, Sync, Push, Goto, Holding
<1> QED BY <1>2, <1>4, <1>5, <1>6 DEF IInv, Sync

\* Taking the mutex makes the thread its only holder.
LEMMA LockStep ==
  ASSUME IInv, NEW t \in Threads, NEW to,
         to = IF t = Consumer THEN "read" ELSE "add", Lock(t), Goto(t, "lock", to),
         UNCHANGED <<ready, queue, heap, pipe, ev, e, history>>
  PROVE  IInv'
<1>1. /\ ~Between /\ \A u \in Threads : ~Inside(u)
      /\ pc[t] = "lock" /\ pc' = [pc EXCEPT ![t] = to] /\ mutex' = t
  BY NobodyInside DEF IInv, Sync, Lock, Goto
<1>2. /\ \A u \in Threads : u # t => pc'[u] = pc[u]
      /\ pc'[t] = to /\ to \in {"read", "add"}
  BY <1>1 DEF IInv, Sync, TypeOK
<1>3. ~Between'
  BY <1>1, <1>2, Sets DEF Between
<1>4. TypeOK'
  BY <1>1, Sets DEF IInv, Sync, TypeOK, queue, heap, history, Adding, Taking
<1>5. MutexInv' /\ NotReadyInv'
  BY <1>1, <1>2 DEF IInv, Sync, MutexInv, NotReadyInv, Inside
<1>6. WaitInv'
  BY <1>1, <1>2, Sets DEF IInv, Sync, WaitInv
<1>7. QueueMatchesPipe'
  BY <1>1, <1>3 DEF IInv, Sync, QueueMatchesPipe, queue
<1>8. ListInv' /\ Fifo'
  BY <1>1, ListKept DEF IInv, Sync, Holding
<1> QED BY <1>4, <1>5, <1>6, <1>7, <1>8 DEF IInv, Sync

\* malloc failing changes nothing but the thread, which keeps the mutex.
LEMMA PushFailsStep == ASSUME IInv, NEW p \in Producers, PushFails(p) PROVE IInv'
<1>1. p \in Threads /\ p # Consumer /\ pc[p] = "add"
  BY Sets DEF PushFails, Goto
<1>2. TypeOK'
  BY <1>1 DEF IInv, Sync, TypeOK, PushFails, Goto, queue, heap, history, Adding, Taking
<1>3. Between' <=> Between
  BY <1>1 DEF IInv, Sync, TypeOK, PushFails, Goto, Between
<1>4. MutexInv' /\ NotReadyInv' /\ WaitInv'
  BY <1>1, Sets
  DEF IInv, Sync, TypeOK, PushFails, Goto, MutexInv, NotReadyInv, WaitInv, Inside, Adding,
      Taking
<1>5. QueueMatchesPipe'
  BY <1>3 DEF IInv, Sync, PushFails, QueueMatchesPipe, queue
<1>6. ListInv' /\ Fifo'
  BY <1>1, ListKept DEF IInv, Sync, PushFails, Goto, Holding
<1> QED BY <1>2, <1>4, <1>5, <1>6 DEF IInv, Sync

\* The byte catches up with the list.
LEMMA PushWriteStep == ASSUME IInv, NEW p \in Producers, PushWrite(p) PROVE IInv'
<1>1. p \in Threads /\ p # Consumer /\ Goto(p, "write", "unlock") /\ pipe < PipeSize
      /\ pipe' = pipe + 1 /\ UNCHANGED <<ready, mutex, ev, e>>
      /\ UNCHANGED <<queue, heap, history>> /\ pc[p] = "write"
  BY Sets DEF PushWrite, Goto
<1>2. TypeOK'
  <2>1. pipe' \in 0..PipeSize
    BY <1>1, Sets DEF IInv, Sync, TypeOK
  <2> QED BY <1>1, <2>1
          DEF IInv, Sync, TypeOK, Goto, queue, heap, history, Adding, Taking
<1>3. /\ MutexInv' /\ NotReadyInv' /\ Between /\ ~Between'
      /\ pc'[Consumer] = pc[Consumer]
  BY <1>1, <1>2, InsideStep, Sets DEF IInv, Adding, Taking
<1>4. WaitInv'
  BY <1>1, <1>3, Sets DEF IInv, Sync, TypeOK, WaitInv
<1>5. QueueMatchesPipe'
  BY <1>1, <1>3, Sets DEF IInv, Sync, TypeOK, QueueMatchesPipe, queue
<1>6. ListInv' /\ Fifo'
  BY <1>1, ListKept DEF IInv, Sync, Goto, Holding
<1> QED BY <1>2, <1>3, <1>4, <1>5, <1>6 DEF IInv, Sync

\* A thread leaves the critical section with list and pipe in step.
LEMMA UnlockStep ==
  ASSUME IInv, NEW t \in Threads, Unlock(t), Goto(t, "unlock", "idle"),
         UNCHANGED <<ready, queue, heap, pipe, ev, e, history>>
  PROVE  IInv'
<1>1. Inside(t) /\ pc[t] = "unlock" /\ pc' = [pc EXCEPT ![t] = "idle"] /\ mutex' = Free
  BY DEF Goto, Inside, Unlock
<1>2. \A u \in Threads : (u # t => ~Inside(u)) /\ ~Inside(u)'
  BY <1>1, Alone DEF IInv, Sync, TypeOK, Inside, Adding, Taking
<1>3. ~Between /\ ~Between'
  <2>1. ~Between
    BY <1>1, BetweenOfHolder DEF IInv, Sync
  <2> QED BY <1>2, <2>1, Sets DEF Between, Inside, Adding, Taking
<1>4. TypeOK'
  BY <1>1 DEF IInv, Sync, TypeOK, queue, heap, history, Adding, Taking
<1>5. MutexInv' /\ NotReadyInv' /\ WaitInv'
  BY <1>1, <1>2, Sets DEF IInv, Sync, TypeOK, MutexInv, NotReadyInv, WaitInv
<1>6. QueueMatchesPipe'
  BY <1>3 DEF IInv, Sync, QueueMatchesPipe, queue
<1>7. ListInv' /\ Fifo'
  BY <1>1, ListKept DEF IInv, Sync, Holding
<1> QED BY <1>4, <1>5, <1>6, <1>7 DEF IInv, Sync

\* A consumer that waits has seen a byte, and only it reads bytes.
LEMMA boatWaitForEventStep == ASSUME IInv, boatWaitForEvent PROVE IInv'
<1>1. pc[Consumer] = "idle" /\ pc' = [pc EXCEPT ![Consumer] = "lock"] /\ ready
  BY DEF boatWaitForEvent, Goto
<1>2. TypeOK'
  BY <1>1, Sets DEF IInv, Sync, TypeOK, boatWaitForEvent, queue, heap, history, Adding, Taking
<1>3. Between' <=> Between
  BY <1>1, Sets DEF IInv, Sync, TypeOK, Between
<1>4. MutexInv' /\ NotReadyInv' /\ WaitInv'
  BY <1>1, Sets
  DEF IInv, Sync, TypeOK, boatWaitForEvent, MutexInv, NotReadyInv, WaitInv, Inside,
      Adding, Taking
<1>5. QueueMatchesPipe'
  BY <1>3 DEF IInv, Sync, boatWaitForEvent, QueueMatchesPipe, queue
<1>6. ListInv' /\ Fifo'
  BY <1>1, Sets, ListKept DEF IInv, Sync, boatWaitForEvent, Holding
<1> QED BY <1>2, <1>4, <1>5, <1>6 DEF IInv, Sync

\* Reading a byte puts the list one ahead of the pipe again.
LEMMA PollReadStep == ASSUME IInv, PollRead PROVE IInv'
<1>1. /\ Goto(Consumer, "read", "take") /\ pc[Consumer] = "read"
      /\ pipe > 0 /\ pipe' = pipe - 1 /\ UNCHANGED <<ready, mutex, ev, e>>
      /\ UNCHANGED <<queue, heap, history>>
  BY DEF PollRead, Goto
<1>2. TypeOK'
  <2>1. pipe' \in 0..PipeSize
    BY <1>1, Sets DEF IInv, Sync, TypeOK
  <2> QED BY <1>1, <2>1, Sets
          DEF IInv, Sync, TypeOK, Goto, queue, heap, history, Adding, Taking
<1>3. /\ MutexInv' /\ NotReadyInv' /\ ~Between /\ Between' /\ pc'[Consumer] = "take"
  BY <1>1, <1>2, InsideStep, Sets DEF IInv, Adding, Taking
<1>4. WaitInv'
  BY <1>3 DEF WaitInv
<1>5. QueueMatchesPipe'
  BY <1>1, <1>3, Sets DEF IInv, Sync, TypeOK, QueueMatchesPipe, queue
<1>6. ListInv' /\ Fifo'
  BY <1>1, ListKept, Sets DEF IInv, Sync, Goto, Holding
<1> QED BY <1>2, <1>3, <1>4, <1>5, <1>6 DEF IInv, Sync

-----------------------------------------------------------------------------
(* Steps on the list, each by the thread inside the mutex *)

\* malloc answers a node that no waiting event is in.
LEMMA EventQueue_addStep == ASSUME IInv, NEW p \in Producers, EventQueue_add(p) PROVE IInv'
<1> PICK n \in Nodes \ used :
      /\ used' = used \cup {n} /\ next' = [next EXCEPT ![n] = Null]
      /\ e' = [e EXCEPT ![p] = n]
  BY DEF EventQueue_add
<1>1. /\ Goto(p, "add", "link") /\ UNCHANGED <<ready, pipe, mutex, ev, data>>
      /\ UNCHANGED <<count, head, tail>> /\ UNCHANGED <<order, taken, accepted>>
  BY DEF EventQueue_add, queue, history
<1>2. TypeOK'
  BY <1>1, Sets DEF IInv, Sync, TypeOK, Goto, Adding, Taking
<1>3. /\ MutexInv' /\ NotReadyInv' /\ WaitInv' /\ ~Between /\ ~Between'
      /\ \A u \in Threads : u # p => ~Inside(u) /\ pc'[u] = pc[u]
      /\ pc'[p] = "link"
  BY <1>1, <1>2, InsideStep, Sets DEF IInv, Adding, Taking
<1>4. QueueMatchesPipe'
  BY <1>1, <1>3 DEF IInv, Sync, QueueMatchesPipe
<1>5. \A i \in 1..Len(order) : order[i] # n /\ order[i] \in Nodes
  BY DEF IInv, ListInv, Chain, Sync, TypeOK
<1>6. Chain' /\ Fifo'
  <2>1. Len(order) \in Nat
    BY DEF IInv, Sync, TypeOK
  <2>2. \A i \in 1..(Len(order) - 1) : next'[order[i]] = next[order[i]]
    BY <1>5, <2>1 DEF IInv, Sync, TypeOK
  <2> QED BY <1>1, <1>5, <2>1, <2>2 DEF IInv, ListInv, Chain, Fifo, Contents
<1>7. Whole' /\ Unlinked'
  <2>1. \A t \in Threads : pc[t] \notin {"tail", "fill", "copy"}
    BY <1>1, <1>3 DEF Goto, Inside, Adding, Taking
  <2> QED BY <1>1, <1>3, <2>1, Sets
          DEF IInv, ListInv, Whole, Unlinked, Inside, Adding, Taking
<1>8. ASSUME NEW q \in Producers PROVE Own(q)' /\ Linked(q)' /\ Counted(q)'
  <2>1. CASE q = p
    BY <1>1, <1>3, <1>5, <2>1, Sets DEF IInv, Sync, TypeOK, Own, Linked, Counted
  <2>2. CASE q # p
    BY <1>3, <2>2, Sets DEF Own, Linked, Counted, Inside, Adding
  <2> QED BY <2>1, <2>2
<1> QED BY <1>2, <1>3, <1>4, <1>6, <1>7, <1>8 DEF IInv, Sync, ListInv

\* The other threads hold no node while one of them is inside the mutex.
LEMMA OthersHoldNothing ==
  ASSUME NEW t \in Threads, TypeOK', \A u \in Threads : u # t => ~Inside(u) /\ pc'[u] = pc[u]
  PROVE  /\ \A p \in Producers : p # t => Own(p)' /\ Linked(p)' /\ Counted(p)'
         /\ t # Consumer => Unlinked'
BY Sets DEF Own, Linked, Counted, Unlinked, Inside, Adding, Taking

LEMMA LinkStep == ASSUME IInv, NEW p \in Producers, Link(p) PROVE IInv'
<1>1. /\ Goto(p, "link", "tail") /\ UNCHANGED <<ready, pipe, mutex, ev, e, data, used>>
      /\ UNCHANGED <<count, tail>> /\ UNCHANGED <<order, taken, accepted>>
      /\ IF count > 0 THEN next' = [next EXCEPT ![tail] = e[p]] /\ head' = head
                      ELSE head' = e[p] /\ next' = next
  BY DEF Link, history
<1>2. /\ e[p] \in Nodes /\ \A i \in 1..Len(order) : order[i] # e[p] /\ order[i] \in Nodes
      /\ e[p] \in used /\ Len(order) \in Nat /\ count \in Nat
  BY <1>1, Sets DEF IInv, ListInv, Own, Goto, Sync, TypeOK
<1>3. TypeOK'
  BY <1>1, <1>2, Sets DEF IInv, Sync, TypeOK, Goto, Adding, Taking
<1>4. /\ MutexInv' /\ NotReadyInv' /\ WaitInv' /\ ~Between /\ ~Between'
      /\ \A u \in Threads : u # p => ~Inside(u) /\ pc'[u] = pc[u]
      /\ pc[p] = "link" /\ pc'[p] = "tail"
  BY <1>1, <1>3, InsideStep, Sets DEF IInv, Adding, Taking
<1>5. QueueMatchesPipe'
  BY <1>1, <1>4 DEF IInv, Sync, QueueMatchesPipe
<1>6. /\ count = Len(order)
      /\ order # <<>> => head = order[1] /\ tail = order[Len(order)]
  <2>1. \A t \in Threads : pc[t] \notin {"tail", "fill", "copy"}
    BY <1>4 DEF Inside, Adding, Taking
  <2> QED BY <2>1 DEF IInv, ListInv, Whole
<1>7. order = <<>> <=> Len(order) = 0
  BY DEF IInv, Sync, TypeOK
<1>8. Chain' /\ Fifo'
  <2>1. Len(order) > 0 => tail = order[Len(order)]
    BY <1>6, <1>7
  <2>2. \A i \in 1..(Len(order) - 1) : count > 0 => order[i] # tail
    BY <1>2, <2>1 DEF IInv, ListInv, Chain
  <2>3. \A i \in 1..(Len(order) - 1) : next'[order[i]] = next[order[i]]
    BY <1>1, <1>2, <2>2 DEF IInv, Sync, TypeOK
  <2> QED BY <1>1, <1>2, <2>3 DEF IInv, ListInv, Chain, Fifo, Contents
<1>9. Own(p)' /\ Counted(p)' /\ Whole'
  BY <1>1, <1>2, <1>4, Sets DEF Own, Counted, Whole
<1>10. Linked(p)'
  BY <1>1, <1>2, <1>4, <1>6, <1>7 DEF Linked, First, IInv, Sync, TypeOK
<1>11. Unlinked' /\ \A q \in Producers : q # p => Own(q)' /\ Linked(q)' /\ Counted(q)'
  BY <1>3, <1>4, OthersHoldNothing, Sets
<1> QED BY <1>3, <1>4, <1>5, <1>8, <1>9, <1>10, <1>11 DEF IInv, Sync, ListInv

LEMMA SetTailStep == ASSUME IInv, NEW p \in Producers, SetTail(p) PROVE IInv'
<1>1. /\ Goto(p, "tail", "fill") /\ UNCHANGED <<ready, pipe, mutex, ev, e, head>>
      /\ UNCHANGED <<used, next, data>> /\ UNCHANGED <<order, taken, accepted>>
      /\ tail' = e[p] /\ count' = count + 1
  BY DEF SetTail, heap, history
<1>2. /\ e[p] \in Nodes /\ \A i \in 1..Len(order) : order[i] # e[p]
      /\ e[p] \in used /\ Len(order) \in Nat /\ count \in Nat
  <2>1. Own(p) /\ pc[p] = "tail"
    BY <1>1 DEF IInv, ListInv, Goto
  <2>2. e[p] \in used /\ \A i \in 1..Len(order) : order[i] # e[p]
    BY <2>1 DEF Own
  <2> QED BY <2>2 DEF IInv, Sync, TypeOK
<1>3. TypeOK'
  BY <1>1, <1>2, Sets DEF IInv, Sync, TypeOK, Goto, Adding, Taking
<1>4. /\ MutexInv' /\ NotReadyInv' /\ WaitInv' /\ ~Between /\ Between'
      /\ \A u \in Threads : u # p => ~Inside(u) /\ pc'[u] = pc[u]
      /\ pc[p] = "tail" /\ pc'[p] = "fill"
  BY <1>1, <1>3, InsideStep, Sets DEF IInv, Adding, Taking
<1>5. QueueMatchesPipe'
  BY <1>1, <1>2, <1>4, Sets DEF IInv, Sync, TypeOK, QueueMatchesPipe
<1>6. Chain' /\ Fifo'
  BY <1>1 DEF IInv, ListInv, Chain, Fifo, Contents
<1>7. Own(p)' /\ Linked(p)' /\ Whole'
  BY <1>1, <1>2, <1>4, Sets DEF Own, Linked, Whole
<1>8. Counted(p)'
  <2>1. /\ count = Len(order) /\ head = First(e[p])
        /\ order # <<>> => next[order[Len(order)]] = e[p]
    BY <1>4 DEF IInv, ListInv, Linked
  <2> QED BY <1>1, <1>2, <1>4, <2>1 DEF Counted, First
<1>9. Unlinked' /\ \A q \in Producers : q # p => Own(q)' /\ Linked(q)' /\ Counted(q)'
  BY <1>3, <1>4, OthersHoldNothing, Sets
<1> QED BY <1>3, <1>4, <1>5, <1>6, <1>7, <1>8, <1>9 DEF IInv, Sync, ListInv

\* The node that pushEvent fills is the one it linked, and the event in it becomes
\* the last of what is waiting.
LEMMA Filled ==
  ASSUME IInv, NEW p \in Producers, Fill(p), TypeOK'
  PROVE  /\ tail = e[p] /\ Chain' /\ Contents' = Append(Contents, ev[p])
         /\ Len(order') = Len(order) + 1 /\ Len(order) \in Nat /\ order' # <<>>
         /\ order'[Len(order')] = tail /\ order'[1] = First(tail)
<1>1. /\ pc[p] = "fill" /\ data' = [data EXCEPT ![tail] = ev[p]]
      /\ order' = Append(order, tail) /\ UNCHANGED <<used, next, count, head, tail>>
  BY DEF Fill, Goto, queue
<1>2. /\ tail = e[p] /\ tail \in used /\ tail \in Nodes
      /\ \A i \in 1..Len(order) : order[i] # tail /\ order[i] \in Nodes
      /\ order # <<>> => next[order[Len(order)]] = tail
      /\ Len(order) \in Nat /\ ev[p] \in Events
  BY <1>1, Sets DEF IInv, ListInv, Own, Counted, Sync, TypeOK
<1>3. /\ Len(order') = Len(order) + 1 /\ order'[Len(order) + 1] = tail
      /\ \A i \in 1..Len(order) : order'[i] = order[i]
      /\ order = <<>> <=> Len(order) = 0
  BY <1>1, <1>2 DEF IInv, Sync, TypeOK
<1>4. /\ \A i \in 1..Len(order) : data'[order'[i]] = data[order[i]]
      /\ data'[order'[Len(order) + 1]] = ev[p]
  BY <1>1, <1>2, <1>3 DEF IInv, Sync, TypeOK
<1>5. Chain'
  <2>1. ASSUME NEW i \in 1..Len(order') PROVE order'[i] \in used' /\ data'[order'[i]] \in Events
    <3>1. i \in 1..Len(order) \/ i = Len(order) + 1
      BY <1>2, <1>3
    <3> QED BY <1>1, <1>2, <1>3, <1>4, <3>1 DEF IInv, ListInv, Chain
  <2>2. ASSUME NEW i \in 1..Len(order'), NEW j \in 1..Len(order'), order'[i] = order'[j]
        PROVE  i = j
    <3>1. /\ i \in 1..Len(order) \/ i = Len(order) + 1
          /\ j \in 1..Len(order) \/ j = Len(order) + 1
      BY <1>2, <1>3
    <3> QED BY <1>2, <1>3, <2>2, <3>1 DEF IInv, ListInv, Chain
  <2>3. ASSUME NEW i \in 1..(Len(order') - 1) PROVE next'[order'[i]] = order'[i + 1]
    <3>1. i \in 1..(Len(order) - 1) \/ (i = Len(order) /\ order # <<>>)
      BY <1>2, <1>3
    <3> QED BY <1>1, <1>2, <1>3, <3>1 DEF IInv, ListInv, Chain
  <2> QED BY <2>1, <2>2, <2>3 DEF Chain
<1>6. Contents' = Append(Contents, ev[p])
  <2>1. /\ Contents \in Seq(Events) /\ Len(Contents) = Len(order)
        /\ \A i \in 1..Len(order) : Contents[i] = data[order[i]]
    BY ContentsType DEF IInv, Sync, ListInv
  <2>2. /\ Contents' \in Seq(Events) /\ Len(Contents') = Len(order')
        /\ \A i \in 1..Len(order') : Contents'[i] = data'[order'[i]]
    <3>1. Len(order') \in Nat
      BY <1>2, <1>3
    <3>2. Contents' \in [1..Len(order') -> Events]
      BY <1>5, <3>1 DEF Chain, Contents
    <3> QED BY <3>1, <3>2 DEF Contents
  <2>3. /\ Append(Contents, ev[p]) \in Seq(Events)
        /\ Len(Append(Contents, ev[p])) = Len(order) + 1
        /\ \A i \in 1..Len(order) : Append(Contents, ev[p])[i] = Contents[i]
        /\ Append(Contents, ev[p])[Len(order) + 1] = ev[p]
    BY <1>2, <2>1, AppendProperties
  <2>4. ASSUME NEW i \in 1..(Len(order) + 1)
        PROVE  Contents'[i] = Append(Contents, ev[p])[i]
    <3>1. i \in 1..Len(order) \/ i = Len(order) + 1
      BY <1>2
    <3> QED BY <1>2, <1>3, <1>4, <2>1, <2>2, <2>3, <3>1
  <2> QED BY <1>3, <2>2, <2>3, <2>4, SeqEqual
<1>7. order' # <<>> /\ order'[Len(order')] = tail /\ order'[1] = First(tail)
  BY <1>1, <1>2, <1>3 DEF First, IInv, Sync, TypeOK
<1> QED BY <1>2, <1>3, <1>5, <1>6, <1>7

LEMMA FillStep == ASSUME IInv, NEW p \in Producers, Fill(p) PROVE IInv'
<1>1. /\ Goto(p, "fill", "write") /\ UNCHANGED <<ready, pipe, mutex, ev, used, next>>
      /\ UNCHANGED <<count, head, tail>> /\ UNCHANGED taken
      /\ data' = [data EXCEPT ![tail] = ev[p]] /\ e' = [e EXCEPT ![p] = Null]
      /\ order' = Append(order, tail) /\ accepted' = Append(accepted, ev[p])
  BY DEF Fill, queue
<1>2. tail = e[p] /\ tail \in Nodes /\ ev[p] \in Events
  BY <1>1, Sets DEF IInv, ListInv, Own, Counted, Goto, Sync, TypeOK
<1>3. TypeOK'
  <2>1. order' \in Seq(Nodes) /\ accepted' \in Seq(Events)
    BY <1>1, <1>2, AppendProperties DEF IInv, Sync, TypeOK
  <2> QED BY <1>1, <1>2, <2>1, Sets DEF IInv, Sync, TypeOK, Goto, Adding, Taking
<1>4. /\ MutexInv' /\ NotReadyInv' /\ WaitInv' /\ Between /\ Between'
      /\ \A u \in Threads : u # p => ~Inside(u) /\ pc'[u] = pc[u]
      /\ pc[p] = "fill" /\ pc'[p] = "write"
  BY <1>1, <1>3, InsideStep, Sets DEF IInv, Adding, Taking
<1>5. QueueMatchesPipe'
  BY <1>1, <1>4 DEF IInv, Sync, QueueMatchesPipe
<1>6. /\ Chain' /\ Contents' = Append(Contents, ev[p])
      /\ Len(order') = Len(order) + 1 /\ Len(order) \in Nat /\ order' # <<>>
      /\ order'[Len(order')] = tail /\ order'[1] = First(tail)
  BY <1>3, Filled
<1>7. Fifo'
  <2>1. Contents \in Seq(Events) /\ taken \in Seq(Events) /\ accepted = taken \o Contents
    BY ContentsType DEF IInv, Sync, ListInv, TypeOK, Fifo
  <2> QED BY <1>1, <1>2, <1>6, <2>1, AddKeepsOrder DEF Fifo
<1>8. Whole'
  <2>1. count = Len(order) + 1 /\ head = First(tail)
    BY <1>2, <1>4 DEF IInv, ListInv, Counted
  <2> QED BY <1>1, <1>6, <2>1 DEF Whole
<1>9. Own(p)' /\ Linked(p)' /\ Counted(p)'
  BY <1>4 DEF Own, Linked, Counted
<1>10. Unlinked' /\ \A q \in Producers : q # p => Own(q)' /\ Linked(q)' /\ Counted(q)'
  BY <1>3, <1>4, OthersHoldNothing, Sets
<1> QED BY <1>3, <1>4, <1>5, <1>6, <1>7, <1>8, <1>9, <1>10 DEF IInv, Sync, ListInv

\* The consumer that has read a byte finds the event that belongs to it.
LEMMA ByteMeansEvent ==
  ASSUME IInv, pc[Consumer] = "take"
  PROVE  count > 0 /\ count = Len(order) /\ order # <<>>
         /\ head = order[1] /\ tail = order[Len(order)]
<1>1. Between /\ Inside(Consumer)
  BY DEF Between, Inside, Taking
<1>2. count > 0
  BY <1>1, Sets DEF IInv, Sync, TypeOK, QueueMatchesPipe
<1>3. \A t \in Threads : pc[t] \notin {"tail", "fill", "copy"}
  BY <1>1, Alone, Sets DEF IInv, Sync, Inside, Adding, Taking
<1> QED BY <1>2, <1>3 DEF IInv, ListInv, Whole, Sync, TypeOK

LEMMA EventQueue_takeStep == ASSUME IInv, EventQueue_take PROVE IInv'
<1>1. /\ pc[Consumer] = "take" /\ UNCHANGED <<ready, pipe, mutex, ev>>
      /\ UNCHANGED <<used, next, data>> /\ UNCHANGED <<order, taken, accepted>>
  BY DEF EventQueue_take, Goto, heap, history
<1>2. /\ count > 0 /\ count = Len(order) /\ order # <<>>
      /\ head = order[1] /\ tail = order[Len(order)] /\ count \in Nat
      /\ order[1] \in Nodes
  BY <1>1, ByteMeansEvent DEF IInv, Sync, TypeOK
<1>3. /\ Goto(Consumer, "take", "copy") /\ e' = [e EXCEPT ![Consumer] = head]
      /\ IF count = 1 THEN head' = Null /\ tail' = Null
                      ELSE head' = next[head] /\ tail' = tail
      /\ count' = count - 1
  BY <1>2 DEF EventQueue_take
<1>4. TypeOK'
  BY <1>1, <1>2, <1>3, Sets DEF IInv, Sync, TypeOK, Goto, Adding, Taking
<1>5. /\ MutexInv' /\ NotReadyInv' /\ WaitInv' /\ Between /\ ~Between'
      /\ \A u \in Threads : u # Consumer => ~Inside(u) /\ pc'[u] = pc[u]
      /\ pc'[Consumer] = "copy"
  BY <1>1, <1>3, <1>4, InsideStep, Sets DEF IInv, Adding, Taking
<1>6. QueueMatchesPipe'
  BY <1>1, <1>2, <1>3, <1>5, Sets DEF IInv, Sync, TypeOK, QueueMatchesPipe
<1>7. Chain' /\ Fifo' /\ Whole'
  BY <1>1, <1>5, Sets DEF IInv, ListInv, Chain, Fifo, Contents, Whole
<1>8. Unlinked'
  <2>1. Len(order) > 1 => next[order[1]] = order[2]
    BY <1>2 DEF IInv, ListInv, Chain
  <2>2. e'[Consumer] = order[1]
    BY <1>2, <1>3, Sets DEF IInv, Sync, TypeOK
  <2> QED BY <1>1, <1>2, <1>3, <2>1, <2>2 DEF Unlinked
<1>9. \A q \in Producers : Own(q)' /\ Linked(q)' /\ Counted(q)'
  BY <1>4, <1>5, OthersHoldNothing, Sets
<1> QED BY <1>4, <1>5, <1>6, <1>7, <1>8, <1>9 DEF IInv, Sync, ListInv

\* The event copied is the oldest one waiting, and freeing its node touches no other.
LEMMA Copied ==
  ASSUME IInv, Copy, TypeOK'
  PROVE  /\ Chain' /\ Contents # <<>> /\ data[e[Consumer]] = Head(Contents)
         /\ Contents' = Tail(Contents)
         /\ order # <<>> /\ e[Consumer] = order[1] /\ Len(order) \in Nat
         /\ Len(order') = Len(order) - 1
         /\ \A i \in 1..(Len(order) - 1) : order'[i] = order[i + 1]
<1> DEFINE n == e[Consumer]
<1>1. /\ pc[Consumer] = "copy" /\ order' = Tail(order) /\ used' = used \ {n}
      /\ next' = [next EXCEPT ![n] = Null] /\ data' = [data EXCEPT ![n] = Garbage]
  BY DEF Copy, Goto
<1>2. order # <<>> /\ n = order[1] /\ order \in Seq(Nodes)
  BY <1>1 DEF IInv, ListInv, Unlinked, Sync, TypeOK
<1>3. /\ Len(order) \in Nat /\ Len(order) > 0 /\ Len(order') = Len(order) - 1
      /\ \A i \in 1..(Len(order) - 1) : order'[i] = order[i + 1]
  BY <1>1, <1>2
<1>4. \A i \in 2..Len(order) : order[i] # n /\ order[i] \in Nodes
  BY <1>2, <1>3 DEF IInv, ListInv, Chain
<1>5. \A i \in 1..(Len(order) - 1) : i + 1 \in 2..Len(order) /\ i + 1 \in 1..Len(order)
  BY <1>3
<1>6. \A i \in 1..(Len(order) - 1) :
        /\ data'[order'[i]] = data[order[i + 1]] /\ next'[order'[i]] = next[order[i + 1]]
        /\ order[i + 1] # n
  BY <1>1, <1>3, <1>4, <1>5 DEF IInv, Sync, TypeOK
<1>7. Chain'
  <2>1. ASSUME NEW i \in 1..Len(order') PROVE order'[i] \in used' /\ data'[order'[i]] \in Events
    BY <1>1, <1>3, <1>5, <1>6, <2>1 DEF IInv, ListInv, Chain
  <2>2. ASSUME NEW i \in 1..Len(order'), NEW j \in 1..Len(order'), order'[i] = order'[j]
        PROVE  i = j
    <3>1. i + 1 = j + 1
      BY <1>3, <1>5, <2>2 DEF IInv, ListInv, Chain
    <3> QED BY <3>1
  <2>3. ASSUME NEW i \in 1..(Len(order') - 1) PROVE next'[order'[i]] = order'[i + 1]
    <3>1. /\ i \in 1..(Len(order) - 1) /\ i + 1 \in 1..(Len(order) - 1)
      BY <1>3
    <3>2. next[order[i + 1]] = order[(i + 1) + 1]
      BY <3>1 DEF IInv, ListInv, Chain
    <3> QED BY <1>3, <1>6, <3>1, <3>2
  <2> QED BY <2>1, <2>2, <2>3 DEF Chain
<1>8. /\ Contents \in Seq(Events) /\ Len(Contents) = Len(order)
      /\ \A i \in 1..Len(order) : Contents[i] = data[order[i]]
  BY ContentsType DEF IInv, Sync, ListInv
<1>9. Contents # <<>> /\ data[n] = Head(Contents)
  <2>1. Contents # <<>>
    BY <1>3, <1>8
  <2>2. Head(Contents) = Contents[1]
    BY <1>8, <2>1
  <2> QED BY <1>2, <1>3, <1>8, <2>1, <2>2
<1>10. Contents' = Tail(Contents)
  <2>1. /\ Contents' \in Seq(Events) /\ Len(Contents') = Len(order')
        /\ \A i \in 1..Len(order') : Contents'[i] = data'[order'[i]]
    <3>1. Len(order') \in Nat
      BY <1>3
    <3>2. Contents' \in [1..Len(order') -> Events]
      BY <1>7, <3>1 DEF Chain, Contents
    <3> QED BY <3>1, <3>2 DEF Contents
  <2>2. /\ Tail(Contents) \in Seq(Events) /\ Len(Tail(Contents)) = Len(order) - 1
        /\ \A i \in 1..(Len(order) - 1) : Tail(Contents)[i] = Contents[i + 1]
    BY <1>3, <1>8, <1>9, HeadTailProperties
  <2>3. ASSUME NEW i \in 1..(Len(order) - 1) PROVE Contents'[i] = Tail(Contents)[i]
    <3>1. Contents'[i] = data'[order'[i]]
      BY <1>3, <2>1
    <3>2. Tail(Contents)[i] = data[order[i + 1]]
      BY <1>5, <1>8, <2>2
    <3> QED BY <1>6, <3>1, <3>2
  <2> QED BY <1>3, <2>1, <2>2, <2>3, SeqEqual
<1> QED BY <1>2, <1>3, <1>7, <1>9, <1>10

LEMMA CopyStep == ASSUME IInv, Copy PROVE IInv'
<1> DEFINE n == e[Consumer]
<1>1. /\ Goto(Consumer, "copy", "unlock") /\ UNCHANGED <<ready, pipe, mutex, ev>>
      /\ UNCHANGED <<count, head, tail>> /\ UNCHANGED accepted
      /\ taken' = Append(taken, data[n]) /\ order' = Tail(order) /\ used' = used \ {n}
      /\ next' = [next EXCEPT ![n] = Null] /\ data' = [data EXCEPT ![n] = Garbage]
      /\ e' = [e EXCEPT ![Consumer] = Null]
  BY DEF Copy, queue
<1>2. order # <<>> /\ n = order[1] /\ n \in Nodes /\ data[n] \in Events
  BY <1>1 DEF IInv, ListInv, Unlinked, Chain, Goto, Sync, TypeOK
<1>3. TypeOK'
  <2>1. order' \in Seq(Nodes) /\ taken' \in Seq(Events)
    BY <1>1, <1>2, AppendProperties, HeadTailProperties DEF IInv, Sync, TypeOK
  <2> QED BY <1>1, <1>2, <2>1, Sets DEF IInv, Sync, TypeOK, Goto, Adding, Taking
<1>4. /\ MutexInv' /\ NotReadyInv' /\ WaitInv' /\ ~Between /\ ~Between'
      /\ \A u \in Threads : u # Consumer => ~Inside(u) /\ pc'[u] = pc[u]
      /\ pc[Consumer] = "copy" /\ pc'[Consumer] = "unlock"
  BY <1>1, <1>3, InsideStep, Sets DEF IInv, Adding, Taking
<1>5. QueueMatchesPipe'
  BY <1>1, <1>4 DEF IInv, Sync, QueueMatchesPipe
<1>6. /\ Chain' /\ Contents # <<>> /\ data[n] = Head(Contents)
      /\ Contents' = Tail(Contents)
      /\ Len(order') = Len(order) - 1 /\ Len(order) \in Nat
      /\ \A i \in 1..(Len(order) - 1) : order'[i] = order[i + 1]
  BY <1>3, Copied
<1>7. Fifo'
  <2>1. Contents \in Seq(Events) /\ taken \in Seq(Events) /\ accepted = taken \o Contents
    BY ContentsType DEF IInv, Sync, ListInv, TypeOK, Fifo
  <2> QED BY <1>1, <1>6, <2>1, TakeKeepsOrder DEF Fifo
<1>8. Whole'
  <2>1. /\ count = Len(order) - 1
        /\ Len(order) > 1 => head = order[2] /\ tail = order[Len(order)]
    BY <1>4 DEF IInv, ListInv, Unlinked
  <2>2. order' # <<>> => Len(order) > 1
    BY <1>3, <1>6 DEF TypeOK
  <2>3. Len(order) > 1 => order'[1] = order[2] /\ order'[Len(order')] = order[Len(order)]
    <3>1. ASSUME Len(order) > 1
          PROVE  /\ 1 \in 1..(Len(order) - 1) /\ 1 + 1 = 2
                 /\ Len(order') \in 1..(Len(order) - 1) /\ Len(order') + 1 = Len(order)
      BY <1>6, <3>1
    <3> QED BY <1>6, <3>1
  <2> QED BY <1>1, <1>6, <2>1, <2>2, <2>3 DEF Whole
<1>9. Unlinked'
  BY <1>4 DEF Unlinked
<1>10. \A q \in Producers : Own(q)' /\ Linked(q)' /\ Counted(q)'
  BY <1>3, <1>4, OthersHoldNothing, Sets
<1> QED BY <1>3, <1>4, <1>5, <1>6, <1>7, <1>8, <1>9, <1>10 DEF IInv, Sync, ListInv

-----------------------------------------------------------------------------
LEMMA NextIInv == IInv /\ [Next]_vars => IInv'
<1>1. SUFFICES ASSUME IInv, [Next]_vars PROVE IInv'
  OBVIOUS
<1>2. CASE setEventPipe
  BY <1>1, <1>2, setEventPipeStep
<1>3. ASSUME NEW p \in Producers, pushEvent(p) PROVE IInv'
  <2>1. p \in Threads /\ p # Consumer
    BY Sets
  <2>2. CASE PushUnlock(p)
    BY <1>1, <2>1, <2>2, UnlockStep DEF PushUnlock
  <2>3. CASE PushLock(p)
    BY <1>1, <2>1, <2>3, LockStep DEF PushLock
  <2>4. CASE EventQueue_add(p) \/ Link(p) \/ SetTail(p) \/ Fill(p)
    BY <1>1, <2>4, EventQueue_addStep, LinkStep, SetTailStep, FillStep
  <2> QED BY <1>1, <1>3, <2>2, <2>3, <2>4, PushFailsStep, PushWriteStep DEF pushEvent
<1>4. ASSUME NEW p \in Producers, NEW event \in Events, Push(p, event) PROVE IInv'
  BY <1>1, <1>4, PushStep
<1>5. CASE boatWaitForEvent
  BY <1>1, <1>5, boatWaitForEventStep
<1>6. CASE boatPollEvent
  <2>1. CASE PollUnlock
    BY <1>1, <2>1, UnlockStep, Sets DEF PollUnlock
  <2>2. CASE PollLock
    BY <1>1, <2>2, LockStep, Sets DEF PollLock
  <2> QED BY <1>1, <1>6, <2>1, <2>2, PollReadStep, EventQueue_takeStep, CopyStep
          DEF boatPollEvent
<1>7. CASE UNCHANGED vars
  <2>1. /\ UNCHANGED <<ready, count, head, tail>> /\ UNCHANGED <<used, next, data>>
        /\ UNCHANGED <<pipe, mutex, pc, ev, e>> /\ UNCHANGED <<order, taken, accepted>>
    BY <1>7 DEF vars, queue, heap, history
  <2>2. Sync'
    BY <1>1, <2>1 DEF IInv, Sync, TypeOK, MutexInv, NotReadyInv, QueueMatchesPipe, WaitInv,
                      Inside, Between
  <2>3. ListInv' /\ Fifo'
    BY <1>1, <2>1 DEF IInv, ListInv, Chain, Whole, Unlinked, Own, Linked, Counted, First,
                      Fifo, Contents
  <2> QED BY <2>2, <2>3 DEF IInv
<1> QED BY <1>1, <1>2, <1>3, <1>4, <1>5, <1>6, <1>7 DEF Next

\* The invariant holds in every reachable state of boat_event.c's queue.
THEOREM Invariance == Spec => []IInv
BY InitIInv, NextIInv, PTL DEF Spec

\* The types of the state, whatever the producers push: a byte in the pipe for at
\* most PipeSize events, and events only in the three sequences.
THEOREM Types == Spec => []TypeOK
<1>1. IInv => TypeOK
  BY DEF IInv, Sync
<1> QED BY <1>1, Invariance, PTL

\* What the game reads through head and next is what pushEvent stored through tail,
\* each event once, whole and in the order of the pushes.
THEOREM FifoHolds == Spec => []Fifo
<1>1. IInv => Fifo
  BY DEF IInv
<1> QED BY <1>1, Invariance, PTL

\* The linked list and the pipe never disagree by more than the event in hand.
THEOREM QueueMatchesPipeHolds == Spec => []QueueMatchesPipe
<1>1. IInv => QueueMatchesPipe
  BY DEF IInv, Sync
<1> QED BY <1>1, Invariance, PTL

\* boatPollEvent after a successful boatWaitForEvent never blocks holding the mutex.
THEOREM ReadNeverBlocksHolds == Spec => []ReadNeverBlocks
<1>1. IInv => ReadNeverBlocks
  BY DEF IInv, Sync, WaitInv, ReadNeverBlocks
<1> QED BY <1>1, Invariance, PTL

\* The list in memory, with its pipe and mutex, implements the FIFO channel: filling
\* the linked node is Put, copying the unlinked one out is Get, and every write to
\* head, tail, next and count in between is invisible.
THEOREM ImplementsChannel == Spec => ChannelSpec
<1>1. Init => Channel!Init
  BY DEF Init, Channel!Init, Contents
<1>2. IInv /\ [Next]_vars /\ IInv' => [Channel!Next]_<<Contents, taken>>
  <2>1. SUFFICES ASSUME IInv, IInv', [Next]_vars PROVE [Channel!Next]_<<Contents, taken>>
    OBVIOUS
  <2>2. TypeOK' /\ IInv
    BY <2>1 DEF IInv, Sync
  <2>3. CASE UNCHANGED <<order, taken>> /\ UNCHANGED data
    BY <2>3 DEF Contents
  <2>4. ASSUME NEW p \in Producers, Fill(p) PROVE [Channel!Next]_<<Contents, taken>>
    <3>1. Contents' = Append(Contents, ev[p]) /\ taken' = taken /\ ev[p] \in Events
      BY <2>2, <2>4, Filled DEF Fill, IInv, Sync, TypeOK
    <3> QED BY <3>1 DEF Channel!Next, Channel!Put
  <2>5. CASE Copy
    <3>1. /\ Contents # <<>> /\ taken' = Append(taken, Head(Contents))
          /\ Contents' = Tail(Contents)
      BY <2>2, <2>5, Copied DEF Copy
    <3> QED BY <3>1 DEF Channel!Next, Channel!Get
  <2>6. ASSUME NEW p \in Producers, pushEvent(p), ~Fill(p)
        PROVE  UNCHANGED <<order, taken>> /\ UNCHANGED data
    BY <2>6 DEF pushEvent, PushLock, EventQueue_add, PushFails, Link, SetTail, PushWrite,
                PushUnlock, heap, history
  <2>7. ASSUME NEW p \in Producers, NEW event \in Events, Push(p, event)
        PROVE  UNCHANGED <<order, taken>> /\ UNCHANGED data
    BY <2>7 DEF Push, heap, history
  <2>8. CASE boatPollEvent /\ ~Copy
    BY <2>3, <2>8 DEF boatPollEvent, PollLock, PollRead, EventQueue_take, PollUnlock, heap,
                      history
  <2>9. CASE setEventPipe \/ boatWaitForEvent \/ UNCHANGED vars
    BY <2>3, <2>9 DEF setEventPipe, boatWaitForEvent, vars, heap, history
  <2> QED BY <2>1, <2>3, <2>4, <2>5, <2>6, <2>7, <2>8, <2>9 DEF Next
<1>3. QED
  BY <1>1, <1>2, Invariance, PTL DEF Spec, ChannelSpec, Channel!Spec
=============================================================================
