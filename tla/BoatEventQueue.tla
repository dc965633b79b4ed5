--------------------------- MODULE BoatEventQueue ---------------------------
(***************************************************************************)
(* The input queue of the Boat backend (boat_event.c).  Android threads    *)
(* push events into a linked list and write one byte per event into a      *)
(* pipe; the game's windowing thread waits for the pipe with epoll, reads  *)
(* one byte and takes one event.  List and pipe are both used under one    *)
(* mutex, and both pipe operations block.                                  *)
(*                                                                         *)
(* The list is modelled as the memory it lives in: nodes that malloc hands *)
(* out and free takes back, the pointers head, tail and next, and count,   *)
(* each written by a step of its own.  An event is filled in after its     *)
(* node was linked, so that its order, and the values the game reads, rest *)
(* on the mutex and not on the shape of the model.                         *)
(*                                                                         *)
(* The consumer is not in this repository (it is the prebuilt libglfw.so): *)
(* it uses boatWaitForEvent and boatPollEvent as boat.h offers them, and   *)
(* WaitsFirst says whether it polls only after a successful wait.          *)
(* setEventPipe runs once: BoatActivity keeps its surface texture when the *)
(* surface goes away (onSurfaceTextureDestroyed returns false).            *)
(***************************************************************************)
EXTENDS Naturals, Sequences

CONSTANTS
  Producers,    \* Android threads calling BoatInput.pushEvent
  Consumer,     \* the windowing thread of the game
  Events,       \* what can be pushed
  Nodes,        \* the memory malloc hands out, one QueueElement each
  PipeSize,     \* bytes the pipe holds (65536 on Linux)
  MaxPushes,    \* bound: events accepted in one behaviour
  WaitsFirst,   \* the consumer polls only after boatWaitForEvent returned 1
  MallocFails   \* EventQueue_add may run out of memory

Threads == Producers \cup {Consumer}
Free == "free"
Null == "NULL"
Garbage == "garbage"

ASSUME QueueAssumption ==
  /\ Consumer \notin Producers
  /\ Null \notin Nodes
  /\ Garbage \notin Events
  /\ Free \notin Threads
  /\ PipeSize \in Nat \ {0}
  /\ MaxPushes \in Nat
  /\ WaitsFirst \in BOOLEAN
  /\ MallocFails \in BOOLEAN

VARIABLES
  ready,    \* mBoat.has_event_pipe
  count,    \* mBoat.event_queue.count
  head,     \* mBoat.event_queue.head
  tail,     \* mBoat.event_queue.tail
  used,     \* nodes malloc has handed out and free has not got back
  next,     \* QueueElement.next
  data,     \* QueueElement.event; what malloc returns is not initialised
  pipe,     \* bytes in mBoat.event_pipe_fd
  mutex,    \* owner of mBoat.event_queue_mutex, or Free
  pc,       \* where each thread is
  ev,       \* the event each producer is pushing
  e,        \* the local e of EventQueue_add and EventQueue_take
  order,    \* history: nodes of the events pushed and not yet taken, oldest first
  taken,    \* history: events the consumer got, oldest first
  accepted  \* history: events pushed, oldest first

queue == <<count, head, tail>>
heap == <<used, next, data>>
history == <<order, taken, accepted>>
vars == <<ready, queue, heap, pipe, mutex, pc, ev, e, history>>

Init ==
  /\ ready = FALSE
  /\ count = 0 /\ head = Null /\ tail = Null
  /\ used = {}
  /\ next = [n \in Nodes |-> Null]
  /\ data = [n \in Nodes |-> Garbage]
  /\ pipe = 0
  /\ mutex = Free
  /\ pc = [t \in Threads |-> "idle"]
  /\ ev \in [Producers -> Events]
  /\ e = [t \in Threads |-> Null]
  /\ order = <<>> /\ taken = <<>> /\ accepted = <<>>

Goto(t, from, to) == pc[t] = from /\ pc' = [pc EXCEPT ![t] = to]

Lock(t) == mutex = Free /\ mutex' = t
Unlock(t) == mutex' = Free

-----------------------------------------------------------------------------
\* The pipe, the epoll instance, an empty queue and a fresh mutex; the flag is
\* raised last, and not at all if a system call fails.
setEventPipe ==
  /\ ~ready
  /\ ready' = TRUE
  /\ count' = 0 /\ head' = Null /\ tail' = Null
  /\ pipe' = 0
  /\ mutex' = Free
  /\ UNCHANGED <<heap, pc, ev, e, history>>

\* pushEvent is called; without a pipe it returns at once and the event is gone.
Push(p, event) ==
  /\ ready
  /\ Len(accepted) < MaxPushes
  /\ Goto(p, "idle", "lock")
  /\ ev' = [ev EXCEPT ![p] = event]
  /\ UNCHANGED <<ready, queue, heap, pipe, mutex, e, history>>

PushLock_NoMutex(p) ==
  /\ Goto(p, "lock", "add")
  /\ UNCHANGED <<ready, queue, heap, pipe, mutex, ev, e, history>>

PushLock(p) ==
  /\ Lock(p)
  /\ Goto(p, "lock", "add")
  /\ UNCHANGED <<ready, queue, heap, pipe, ev, e, history>>

\* EventQueue_add gets a node from malloc and ends its list in NULL ...
EventQueue_add(p) ==
  /\ Goto(p, "add", "link")
  /\ \E n \in Nodes \ used :
       /\ used' = used \cup {n}
       /\ next' = [next EXCEPT ![n] = Null]
       /\ e' = [e EXCEPT ![p] = n]
  /\ UNCHANGED <<ready, queue, data, pipe, mutex, ev, history>>

\* ... links it behind the last node, or makes it the first ...
Link(p) ==
  /\ Goto(p, "link", "tail")
  /\ IF count > 0 THEN next' = [next EXCEPT ![tail] = e[p]] /\ head' = head
                  ELSE head' = e[p] /\ next' = next
  /\ UNCHANGED <<ready, count, tail, used, data, pipe, mutex, ev, e, history>>

\* ... and makes it the last.
SetTail(p) ==
  /\ Goto(p, "tail", "fill")
  /\ tail' = e[p] /\ count' = count + 1
  /\ UNCHANGED <<ready, head, heap, pipe, mutex, ev, e, history>>

\* It answers &queue->tail->event, which pushEvent fills: the event counts as
\* pushed from here.
Fill(p) ==
  /\ Goto(p, "fill", "write")
  /\ data' = [data EXCEPT ![tail] = ev[p]]
  /\ order' = Append(order, tail)
  /\ accepted' = Append(accepted, ev[p])
  /\ e' = [e EXCEPT ![p] = Null]
  /\ UNCHANGED <<ready, queue, used, next, pipe, mutex, ev, taken>>

\* malloc returned NULL: pushEvent returns and never unlocks the mutex.
PushFails(p) ==
  /\ MallocFails
  /\ Goto(p, "add", "idle")
  /\ UNCHANGED <<ready, queue, heap, pipe, mutex, ev, e, history>>

PushWrite_DropsByte(p) ==
  /\ Goto(p, "write", "unlock")
  /\ pipe' = IF pipe < PipeSize THEN pipe + 1 ELSE pipe
  /\ UNCHANGED <<ready, queue, heap, mutex, ev, e, history>>

PushWrite_NoLimit(p) ==
  /\ Goto(p, "write", "unlock")
  /\ pipe' = pipe + 1
  /\ UNCHANGED <<ready, queue, heap, mutex, ev, e, history>>

\* write(2) blocks while the pipe is full, with the mutex held.
PushWrite(p) ==
  /\ pipe < PipeSize
  /\ Goto(p, "write", "unlock")
  /\ pipe' = pipe + 1
  /\ UNCHANGED <<ready, queue, heap, mutex, ev, e, history>>

PushUnlock(p) ==
  /\ Unlock(p)
  /\ Goto(p, "unlock", "idle")
  /\ UNCHANGED <<ready, queue, heap, pipe, ev, e, history>>

-----------------------------------------------------------------------------
boatWaitForEvent_NotReady ==
  /\ ready
  /\ Goto(Consumer, "idle", "lock")
  /\ UNCHANGED <<ready, queue, heap, pipe, mutex, ev, e, history>>

\* epoll_wait reports the pipe readable, and the consumer goes on to poll.
boatWaitForEvent ==
  /\ ready
  /\ pipe > 0 \/ ~WaitsFirst
  /\ Goto(Consumer, "idle", "lock")
  /\ UNCHANGED <<ready, queue, heap, pipe, mutex, ev, e, history>>

PollLock ==
  /\ Lock(Consumer)
  /\ Goto(Consumer, "lock", "read")
  /\ UNCHANGED <<ready, queue, heap, pipe, ev, e, history>>

\* read(2) blocks while the pipe is empty, with the mutex held.
PollRead ==
  /\ pipe > 0
  /\ Goto(Consumer, "read", "take")
  /\ pipe' = pipe - 1
  /\ UNCHANGED <<ready, queue, heap, mutex, ev, e, history>>

\* EventQueue_take unlinks the first node, if there is one ...
EventQueue_take ==
  /\ IF count > 0
       THEN /\ Goto(Consumer, "take", "copy")
            /\ e' = [e EXCEPT ![Consumer] = head]
            /\ IF count = 1 THEN head' = Null /\ tail' = Null
                            ELSE head' = next[head] /\ tail' = tail
            /\ count' = count - 1
       ELSE Goto(Consumer, "take", "unlock") /\ UNCHANGED <<queue, e>>
  /\ UNCHANGED <<ready, heap, pipe, mutex, ev, history>>

\* ... copies its event to the caller and frees it.
Copy ==
  LET n == e[Consumer] IN
  /\ Goto(Consumer, "copy", "unlock")
  /\ taken' = Append(taken, data[n])
  /\ order' = Tail(order)
  /\ used' = used \ {n}
  /\ next' = [next EXCEPT ![n] = Null]
  /\ data' = [data EXCEPT ![n] = Garbage]
  /\ e' = [e EXCEPT ![Consumer] = Null]
  /\ UNCHANGED <<ready, queue, pipe, mutex, ev, accepted>>

PollUnlock_Forgotten ==
  /\ Goto(Consumer, "unlock", "idle")
  /\ UNCHANGED <<ready, queue, heap, pipe, mutex, ev, e, history>>

PollUnlock ==
  /\ Unlock(Consumer)
  /\ Goto(Consumer, "unlock", "idle")
  /\ UNCHANGED <<ready, queue, heap, pipe, ev, e, history>>

-----------------------------------------------------------------------------
pushEvent(p) ==
  \/ PushLock(p) \/ EventQueue_add(p) \/ PushFails(p)
  \/ Link(p) \/ SetTail(p) \/ Fill(p) \/ PushWrite(p) \/ PushUnlock(p)

boatPollEvent == PollLock \/ PollRead \/ EventQueue_take \/ Copy \/ PollUnlock

Next ==
  \/ setEventPipe
  \/ \E p \in Producers : pushEvent(p) \/ \E event \in Events : Push(p, event)
  \/ boatWaitForEvent
  \/ boatPollEvent

Spec == Init /\ [][Next]_vars

\* The game keeps polling and a thread inside a call keeps running; nothing is
\* assumed of the user who causes the events.  A mutex is not fair, so waiting
\* for it needs strong fairness.
Fairness ==
  /\ \A p \in Producers : WF_vars(pushEvent(p)) /\ SF_vars(PushLock(p))
  /\ WF_vars(boatWaitForEvent) /\ WF_vars(boatPollEvent) /\ SF_vars(PollLock)

FairSpec == Spec /\ Fairness
-----------------------------------------------------------------------------
\* Thread t is between pthread_mutex_lock and pthread_mutex_unlock.
Adding == {"add", "link", "tail", "fill", "write"}
Taking == {"read", "take", "copy"}
Inside(t) == pc[t] \in Adding \cup Taking \cup {"unlock"}

TypeOK ==
  /\ ready \in BOOLEAN
  /\ count \in Nat
  /\ head \in Nodes \cup {Null} /\ tail \in Nodes \cup {Null}
  /\ used \in SUBSET Nodes
  /\ next \in [Nodes -> Nodes \cup {Null}]
  /\ data \in [Nodes -> Events \cup {Garbage}]
  /\ pipe \in 0..PipeSize
  /\ mutex \in Threads \cup {Free}
  /\ pc \in [Threads -> {"idle", "lock", "unlock"} \cup Adding \cup Taking]
  /\ \A p \in Producers : pc[p] \notin Taking
  /\ pc[Consumer] \notin Adding
  /\ ev \in [Producers -> Events]
  /\ e \in [Threads -> Nodes \cup {Null}]
  /\ order \in Seq(Nodes) /\ taken \in Seq(Events) /\ accepted \in Seq(Events)

\* A producer has counted its node and not yet written its byte, or the consumer
\* has read a byte and not yet counted its node off.
Between == (\E p \in Producers : pc[p] \in {"fill", "write"}) \/ pc[Consumer] = "take"

\* The list and the pipe are two counters of one thing: the pipe holds a byte for
\* every linked event, but for the one a thread inside the mutex is handling.
QueueMatchesPipe == count = pipe + (IF Between THEN 1 ELSE 0)

\* What the nodes of the events not yet taken hold.
Contents == [i \in 1..Len(order) |-> data[order[i]]]

\* The game got the events that were pushed, each as the producer filled it and in
\* the order of the pushes; the rest is still in the nodes that wait.
Fifo == accepted = taken \o Contents

\* A consumer that waits before it polls never sits in read(2) on an empty pipe
\* with the mutex in its hands, where no producer could ever wake it.
ReadNeverBlocks == WaitsFirst /\ pc[Consumer] = "read" => pipe > 0

\* A producer left with the mutex after a failed malloc, or is blocked in write(2)
\* on a full pipe that nobody can empty without the mutex.
Wedged ==
  \E p \in Producers : /\ mutex = p
                       /\ pc[p] \in {"idle", "lock"} \/ (pc[p] = "write" /\ pipe = PipeSize)

\* Every accepted event is delivered, whichever thread the mutex favours, unless a
\* producer is wedged inside the mutex: pushEvent has no other way to lose one.
EventDelivered ==
  \A n \in 1..MaxPushes : (Len(accepted) >= n) ~> (Len(taken) >= n \/ Wedged)

\* The queue implements the FIFO channel: what the game reads through head and
\* next is what the producers stored through tail, one by one and in their order.
Channel == INSTANCE EventChannel WITH chan <- Contents, out <- taken
ChannelSpec == Channel!Spec
=============================================================================
