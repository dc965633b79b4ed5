------------------------- MODULE DownloadPoolProofs -------------------------
(***************************************************************************)
(* NothingDiscarded, FailureNoticed, CleanReturn and the types for lists,  *)
(* pools and sessions of any size and any number of attempts.              *)
(*                                                                         *)
(* The busy-wait keeps the queue at one job while the submitter drains it  *)
(* and empty otherwise (Queues), so no job is discarded and a session that *)
(* returned has nothing left to take.  What makes an empty list of         *)
(* failures mean that the files are there is Owed: while the session runs  *)
(* alone, a file that is not right has a job that is still to come, at     *)
(* work, or given up -- a job only ends well after it saw the file right.  *)
(***************************************************************************)
EXTENDS DownloadPool, TLAPS, FiniteSetTheorems

Shape ==
  /\ file = [p \in Paths |-> file[p]]
  /\ sub = [s \in Sessions |-> sub[s]]
  /\ pending \in [Sessions -> SUBSET Entries]
  /\ cancelled = [s \in Sessions |-> cancelled[s]]
  /\ pool = [s \in Sessions |-> pool[s]]
  /\ queue \in [Sessions -> Seq(Entries)]
  /\ pc = [j \in Jobs |-> pc[j]]
  /\ list = [s \in Sessions |-> list[s]]
  /\ \A s \in Sessions : list[s] = [cap |-> list[s].cap, size |-> list[s].size]
  /\ slot = [j \in Jobs |-> slot[j]]
  /\ ret = [s \in Sessions |-> ret[s]]
  /\ alone = [s \in Sessions |-> alone[s]]

\* What the submitter has handed over, and what waits in the queue.
QueueOK(s) ==
  /\ sub[s] # "drain" => queue[s] = <<>>
  /\ queue[s] = <<>> \/ \E e \in Entries : queue[s] = <<e>>
  /\ \A e \in Entries : pc[<<s, e>>] = "queued" <=> queue[s] = <<e>>
  /\ \A e \in pending[s] : pc[<<s, e>>] = "none" /\ sub[s] \in {"submit", "drain"}
  /\ sub[s] = "idle" => \A e \in Entries : pc[<<s, e>>] = "none"
  /\ pool[s] = "stop" => cancelled[s]
  /\ pool[s] \in {"running", "shutdown", "stop"}
  /\ pool[s] = "shutdown" => sub[s] \in {"await", "done"}
  /\ ~cancelled[s] => \A e \in Entries : pc[<<s, e>>] \notin {"dropped", "quit"}

Queues == \A s \in Sessions : QueueOK(s)

\* A session that returned, and the list it returned.
Lists ==
  /\ \A s \in Sessions :
       /\ list[s].size \in Nat
       /\ list[s].size = 0 <=> GaveUp(s) = {}
       /\ sub[s] = "done" <=> ret[s].how # "none"
       /\ ret[s].how = "terminated" => ActiveJobs(s) = {} /\ ret[s].failures = list[s].size
  /\ \A j \in Jobs : slot[j].size \in Nat

\* A session that runs alone is the only one at work.
Alone ==
  \A s, t \in Sessions :
    s # t /\ alone[s] /\ Running(s) => ~Running(t) /\ ActiveJobs(t) = {}

\* Entries of s that a file of theirs still depends on.
ToDo(s) == pending[s] \cup {e \in Entries : pc[<<s, e>>] \in Active \cup {"queued", "gaveup"}}

Owed ==
  \A s \in Sessions : alone[s] /\ ~cancelled[s] /\ Running(s) =>
    \A e \in Entries : PathOf[e] \in Hashed =>
      file[PathOf[e]] = "right" \/ \E d \in ToDo(s) : PathOf[d] = PathOf[e]

\* After a clean return the jobs of later sessions leave the files alone.
Clean(s) ==
  ret[s] = [how |-> "terminated", failures |-> 0] /\ ~cancelled[s] /\ alone[s]

Settled ==
  \A s, t \in Sessions : Clean(s) =>
    \A e \in Entries : PathOf[e] \in Hashed =>
      /\ file[PathOf[e]] = "right"
      /\ pc[<<t, e>>] \notin Active \ {"check"}
      /\ FilterFirst => e \notin pending[t] /\ pc[<<t, e>>] # "queued"

IInv == Shape /\ Queues /\ Lists /\ Alone /\ Owed /\ Settled

-----------------------------------------------------------------------------
LEMMA JobPairs ==
  /\ \A j \in Jobs : j[1] \in Sessions /\ j[2] \in Entries /\ j = <<j[1], j[2]>>
  /\ \A s \in Sessions, e \in Entries : <<s, e>> \in Jobs
BY DEF Jobs

\* Queues of at most one job.
LEMMA ShortQueues ==
  /\ <<>> \in Seq(Entries) /\ Len(<<>>) = 0
  /\ \A e \in Entries : /\ <<e>> # <<>> /\ <<e>> \in Seq(Entries)
                        /\ Head(<<e>>) = e /\ Tail(<<e>>) = <<>>
                        /\ Append(<<>>, e) = <<e>>
  /\ \A d, e \in Entries : <<d>> = <<e>> => d = e
OBVIOUS

LEMMA Initially == Init => IInv
<1> SUFFICES ASSUME Init PROVE IInv
  OBVIOUS
<1> USE JobPairs
<1>0. \A s \in Sessions :
        /\ list[s].size = 0 /\ list[s] = [cap |-> list[s].cap, size |-> list[s].size]
        /\ sub[s] = "idle" /\ pending[s] = {} /\ pool[s] = "running" /\ queue[s] = <<>>
        /\ ret[s].how = "none" /\ ~alone[s]
        /\ \A e \in Entries : pc[<<s, e>>] = "none"
  BY DEF Init, EmptyList
<1>1. Shape
  BY <1>0 DEF Init, Shape
<1>2. Queues
  BY <1>0, ShortQueues DEF Queues, QueueOK
<1>3. Lists
  <2>1. \A s \in Sessions : GaveUp(s) = {}
    BY <1>0 DEF GaveUp
  <2>2. \A j \in Jobs : slot[j].size = 0
    BY DEF Init, EmptyList
  <2>3. \A s \in Sessions : list[s].size = 0 /\ sub[s] = "idle" /\ ret[s].how = "none"
    BY <1>0
  <2> QED BY <2>1, <2>2, <2>3 DEF Lists
<1>4. Alone /\ Owed
  BY <1>0 DEF Alone, Owed, Running
<1>5. Settled
  BY <1>0 DEF Settled, Clean
<1> QED BY <1>1, <1>2, <1>3, <1>4, <1>5 DEF IInv

-----------------------------------------------------------------------------
\* The steps of a job

\* The list only changes by a job that gives up.
Recorded(j, to) ==
  /\ list' = [s \in Sessions |-> list'[s]]
  /\ slot' = [k \in Jobs |-> slot'[k]]
  /\ \A s \in Sessions : list'[s] = [cap |-> list'[s].cap, size |-> list'[s].size]
  /\ \A k \in Jobs : slot'[k].size \in Nat
  /\ \A s \in Sessions : s # j[1] \/ to # "gaveup" => list'[s].size = list[s].size
  /\ to = "gaveup" => list'[j[1]].size \in Nat \ {0}

\* A job at work goes on, or ends well, or gives up; only a job that goes on
\* changes its file (to c), and it ends well only with its file right.
Moves(j, to, c) ==
  LET p == PathOf[j[2]] IN
  /\ UNCHANGED <<sub, pending, cancelled, pool, queue, ret, alone>>
  /\ pc[j] \in Active /\ pc' = [pc EXCEPT ![j] = to]
  /\ to \in Active \cup {"done", "gaveup"} /\ to # "check"
  /\ file' = [file EXCEPT ![p] = c]
  /\ c = file[p] \/ (to \in Active /\ pc[j] # "check")
  /\ to = "done" /\ p \in Hashed => c = "right"
  /\ pc[j] = "check" /\ p \in Hashed /\ file[p] = "right" => to = "done"

LEMMA JobStep ==
  ASSUME IInv, NEW j \in Jobs, NEW to, NEW c, Moves(j, to, c), Recorded(j, to)
  PROVE  IInv'
<1> USE JobPairs DEF Moves
<1> DEFINE s0 == j[1] e0 == j[2] p0 == PathOf[j[2]]
<1>1. s0 \in Sessions /\ e0 \in Entries /\ j = <<s0, e0>> /\ p0 \in Paths
  BY PoolAssumption
<1>2. pc'[<<s0, e0>>] = to /\ pc[<<s0, e0>>] \in Active
  BY <1>1 DEF IInv, Shape
<1>3. \A s \in Sessions, e \in Entries : <<s, e>> # <<s0, e0>> => pc'[<<s, e>>] = pc[<<s, e>>]
  BY <1>1 DEF IInv, Shape
<1>4. file'[p0] = c /\ \A p \in Paths : p # p0 => file'[p] = file[p]
  BY <1>1 DEF IInv, Shape
<1>5. {"none", "queued", "dropped", "quit", "done", "gaveup"} \cap Active = {}
  BY DEF Active, Transferring, Adding
<1> HIDE DEF s0, e0, p0
<1>6. Shape'
  BY DEF IInv, Shape, Recorded
<1>7. Queues'
  BY <1>2, <1>3, <1>5 DEF IInv, Queues, QueueOK
<1>8. Lists'
  <2> SUFFICES ASSUME NEW s \in Sessions
               PROVE  /\ list'[s].size \in Nat
                      /\ list'[s].size = 0 <=> GaveUp(s)' = {}
                      /\ sub[s] = "done" <=> ret[s].how # "none"
                      /\ ret[s].how = "terminated" => ActiveJobs(s)' = {} /\ ret[s].failures = list'[s].size
    BY DEF Lists, Recorded
  <2>1. CASE s = s0
    <3>1. ret[s].how # "terminated"
      BY <1>1, <1>2, <2>1 DEF IInv, Lists, ActiveJobs
    <3>2. CASE to = "gaveup"
      <4>1. e0 \in GaveUp(s)'
        BY <1>1, <1>2, <2>1, <3>2 DEF GaveUp
      <4>2. list'[s].size \in Nat \ {0}
        BY <2>1, <3>2 DEF Recorded, s0
      <4> QED BY <3>1, <4>1, <4>2 DEF IInv, Lists
    <3>3. CASE to # "gaveup"
      <4>1. GaveUp(s)' = GaveUp(s)
        BY <1>2, <1>3, <1>5, <2>1, <3>3 DEF GaveUp
      <4>2. list'[s].size = list[s].size
        BY <3>3 DEF Recorded
      <4> QED BY <3>1, <4>1, <4>2 DEF IInv, Lists
    <3> QED BY <3>2, <3>3
  <2>2. CASE s # s0
    <3>1. GaveUp(s)' = GaveUp(s) /\ ActiveJobs(s)' = ActiveJobs(s)
      BY <1>3, <2>2 DEF GaveUp, ActiveJobs
    <3>2. list'[s].size = list[s].size
      BY <2>2 DEF Recorded, s0
    <3> QED BY <3>1, <3>2 DEF IInv, Lists
  <2> QED BY <2>1, <2>2
<1>9. Alone'
  BY <1>1, <1>2, <1>3 DEF IInv, Alone, ActiveJobs, Running
<1>10. Owed'
  <2> SUFFICES ASSUME NEW s \in Sessions, alone[s], ~cancelled[s], Running(s),
                      NEW e \in Entries, PathOf[e] \in Hashed, file'[PathOf[e]] # "right"
               PROVE  \E d \in ToDo(s)' : PathOf[d] = PathOf[e]
    BY DEF Owed, Running
  <2>1. s = s0
    BY <1>1, <1>2 DEF IInv, Alone, ActiveJobs
  <2>2. CASE PathOf[e] = p0
    <3>1. to # "done"
      BY <1>4, <2>2 DEF p0
    <3>2. e0 \in ToDo(s)' /\ PathOf[e0] = PathOf[e]
      BY <1>1, <1>2, <2>1, <2>2, <3>1 DEF ToDo, p0, e0
    <3> QED BY <3>2
  <2>3. CASE PathOf[e] # p0
    <3>1. file'[PathOf[e]] = file[PathOf[e]]
      BY <1>4, <2>3, PoolAssumption
    <3>2. PICK d \in ToDo(s) : PathOf[d] = PathOf[e]
      BY <3>1 DEF IInv, Owed
    <3>3. d \in Entries /\ d # e0
      BY <2>3, <3>2 DEF ToDo, p0, e0, IInv, Shape
    <3>4. d \in ToDo(s)'
      BY <1>3, <2>1, <3>2, <3>3 DEF ToDo
    <3> QED BY <3>2, <3>4
  <2> QED BY <2>2, <2>3
<1>11. Settled'
  <2> SUFFICES ASSUME NEW s \in Sessions, NEW t \in Sessions, Clean(s),
                      NEW e \in Entries, PathOf[e] \in Hashed
               PROVE  /\ file'[PathOf[e]] = "right"
                      /\ pc'[<<t, e>>] \notin Active \ {"check"}
                      /\ FilterFirst => e \notin pending[t] /\ pc'[<<t, e>>] # "queued"
    BY DEF Settled, Clean
  <2>1. /\ file[PathOf[e]] = "right"
        /\ pc[<<t, e>>] \notin Active \ {"check"}
        /\ FilterFirst => e \notin pending[t] /\ pc[<<t, e>>] # "queued"
    BY DEF IInv, Settled
  <2>2. CASE PathOf[e] = p0
    <3>1. pc[<<s0, e0>>] = "check" /\ file[p0] = "right"
      BY <1>1, <1>2, <2>2 DEF IInv, Settled, p0, e0
    <3>2. to = "done" /\ c = "right"
      BY <1>1, <2>2, <3>1 DEF p0
    <3>3. pc'[<<t, e>>] = pc[<<t, e>>] \/ pc'[<<t, e>>] = "done"
      BY <1>2, <1>3, <3>2
    <3> QED BY <1>4, <1>5, <2>1, <2>2, <3>2, <3>3
  <2>3. CASE PathOf[e] # p0
    <3>1. file'[PathOf[e]] = file[PathOf[e]]
      BY <1>4, <2>3, PoolAssumption
    <3>2. <<t, e>> # <<s0, e0>>
      BY <2>3 DEF p0, e0
    <3> QED BY <1>1, <1>3, <2>1, <3>1, <3>2
  <2> QED BY <2>2, <2>3
<1> QED BY <1>6, <1>7, <1>8, <1>9, <1>10, <1>11 DEF IInv

\* The retry loop found the task cancelled: the pool stops.
LEMMA QuitStep ==
  ASSUME IInv, NEW j \in Jobs, TryAgain(j), cancelled[j[1]]
  PROVE  IInv'
<1> USE JobPairs
<1> DEFINE s0 == j[1]
<1>1. /\ s0 \in Sessions /\ cancelled[s0] /\ pc[<<s0, j[2]>>] = "loop" /\ j[2] \in Entries
      /\ pool' = [pool EXCEPT ![s0] = "stop"]
      /\ queue' = [queue EXCEPT ![s0] = <<>>]
      /\ UNCHANGED <<file, sub, pending, cancelled, list, slot, ret, alone>>
  BY DEF TryAgain
<1>2. \A e \in Entries :
        pc'[<<s0, e>>] = IF e = j[2] THEN "quit"
                         ELSE IF pc[<<s0, e>>] = "queued" THEN "dropped" ELSE pc[<<s0, e>>]
  BY <1>1 DEF TryAgain
<1>3. \A s \in Sessions \ {s0}, e \in Entries : pc'[<<s, e>>] = pc[<<s, e>>]
  <2>1. pc' = [k \in Jobs |-> IF k = j THEN "quit"
                              ELSE IF k[1] = s0 /\ pc[k] = "queued" THEN "dropped" ELSE pc[k]]
    BY <1>1 DEF TryAgain
  <2> SUFFICES ASSUME NEW s \in Sessions \ {s0}, NEW e \in Entries
               PROVE  pc'[<<s, e>>] = pc[<<s, e>>]
    OBVIOUS
  <2>2. <<s, e>> \in Jobs /\ <<s, e>>[1] = s /\ <<s, e>> # j
    BY <1>1
  <2> QED BY <2>1, <2>2
<1>4. {"none", "queued", "dropped", "quit", "gaveup"} \cap Active = {} /\ "loop" \in Active
  BY DEF Active, Transferring, Adding
<1>5. ret[s0].how # "terminated"
  BY <1>1, <1>4 DEF IInv, Lists, ActiveJobs
<1> HIDE DEF s0
<1>6. Shape'
  <2>1. pc' = [k \in Jobs |-> pc'[k]]
    BY <1>1 DEF TryAgain, s0
  <2> QED BY <1>1, <2>1, ShortQueues DEF IInv, Shape
<1>7. Queues'
  <2>1. queue'[s0] = <<>> /\ pool'[s0] = "stop"
        /\ \A s \in Sessions \ {s0} : queue'[s] = queue[s] /\ pool'[s] = pool[s]
    BY <1>1 DEF IInv, Shape
  <2>2. \A e \in Entries : pc'[<<s0, e>>] # "queued" /\ <<e>> # <<>>
    BY <1>2, ShortQueues
  <2> SUFFICES ASSUME NEW s \in Sessions PROVE QueueOK(s)'
    BY DEF Queues
  <2>3. QueueOK(s) /\ UNCHANGED <<sub, pending, cancelled>>
    BY <1>1 DEF IInv, Queues
  <2>4. CASE s = s0
    <3>1. \A e \in pending[s] : e \in Entries /\ pc'[<<s0, e>>] = "none"
      <4>1. pending[s] \subseteq Entries
        BY DEF IInv, Shape
      <4>2. \A e \in pending[s] : pc[<<s0, e>>] = "none"
        BY <2>3, <2>4 DEF QueueOK
      <4>3. \A e \in Entries : pc[<<s0, e>>] = "none" => pc'[<<s0, e>>] = "none"
        BY <1>1, <1>2
      <4> QED BY <4>1, <4>2, <4>3
    <3>2. QueueOK(s0) /\ sub[s0] # "idle"
      BY <1>1, <2>3, <2>4 DEF QueueOK
    <3>3. /\ sub'[s0] = sub[s0] /\ pending'[s0] = pending[s0] /\ cancelled'[s0]
      BY <1>1
    <3>4. \A e \in Entries : pc'[<<s0, e>>] = "queued" <=> queue'[s0] = <<e>>
      BY <2>1, <2>2
    <3>5. \A e \in pending'[s0] : pc'[<<s0, e>>] = "none" /\ sub'[s0] \in {"submit", "drain"}
      BY <2>4, <3>1, <3>2, <3>3 DEF QueueOK
    <3> QED BY <2>1, <2>4, <3>2, <3>3, <3>4, <3>5 DEF QueueOK
  <2>5. CASE s # s0
    <3>1. queue'[s] = queue[s] /\ pool'[s] = pool[s] /\ pending[s] \subseteq Entries
      BY <2>1, <2>5 DEF IInv, Shape
    <3>2. \A e \in Entries : pc'[<<s, e>>] = pc[<<s, e>>]
      BY <1>3, <2>5
    <3> QED BY <2>3, <3>1, <3>2 DEF QueueOK
  <2> QED BY <2>4, <2>5
<1>8. Lists'
  <2>1. \A s \in Sessions : GaveUp(s)' = GaveUp(s)
    BY <1>1, <1>2, <1>3 DEF GaveUp
  <2>2. \A s \in Sessions \ {s0} : ActiveJobs(s)' = ActiveJobs(s)
    BY <1>3 DEF ActiveJobs
  <2> QED BY <1>1, <1>5, <2>1, <2>2 DEF IInv, Lists
<1>9. Alone'
  <2>1. \A s \in Sessions : ActiveJobs(s)' \subseteq ActiveJobs(s)
    BY <1>2, <1>3, <1>4 DEF ActiveJobs
  <2> QED BY <1>1, <2>1 DEF IInv, Alone, Running
<1>10. Owed'
  <2>1. \A s \in Sessions \ {s0} : ToDo(s)' = ToDo(s)
    BY <1>1, <1>3 DEF ToDo
  <2> QED BY <1>1, <2>1 DEF IInv, Owed, Running
<1>11. Settled'
  <2>1. \A s \in Sessions, e \in Entries :
          pc'[<<s, e>>] = pc[<<s, e>>] \/ pc'[<<s, e>>] \in {"quit", "dropped"}
    BY <1>2, <1>3
  <2> QED BY <1>1, <1>4, <2>1 DEF IInv, Settled, Clean
<1> QED BY <1>6, <1>7, <1>8, <1>9, <1>10, <1>11 DEF IInv

LEMMA WorkerStep ==
  ASSUME IInv, NEW j \in Jobs, Worker(j)
  PROVE  IInv'
<1> USE JobPairs, PoolAssumption
<1> DEFINE p == PathOf[j[2]]
<1>0. p \in Paths /\ file = [file EXCEPT ![p] = file[p]]
  BY DEF IInv, Shape
<1>1. ASSUME UNCHANGED <<list, slot>>, NEW to, NEW c, to # "gaveup", Moves(j, to, c)
      PROVE  IInv'
  <2>1. Recorded(j, to)
    BY <1>1 DEF Recorded, IInv, Shape, Lists
  <2> QED BY <1>1, <2>1, JobStep
<1> USE DEF Goto, Active, Transferring, Adding
<1>2. CASE CheckExisting(j)
  <2>1. CASE SkipsDownload(p)
    <3>1. Moves(j, "done", file[p])
      BY <1>0, <1>2, <2>1 DEF CheckExisting, SkipsDownload, Moves
    <3> QED BY <1>1, <1>2, <3>1 DEF CheckExisting
  <2>2. CASE ~SkipsDownload(p)
    <3>1. Moves(j, "loop", file[p])
      BY <1>0, <1>2, <2>2 DEF CheckExisting, SkipsDownload, Moves
    <3> QED BY <1>1, <1>2, <3>1 DEF CheckExisting
  <2> QED BY <2>1, <2>2
<1>3. CASE TryAgain(j)
  <2>1. CASE ~cancelled[j[1]]
    <3>1. Moves(j, "prepare", file[p])
      BY <1>0, <1>3, <2>1 DEF TryAgain, Moves
    <3> QED BY <1>1, <1>3, <3>1 DEF TryAgain
  <2> QED BY <1>3, <2>1, QuitStep
<1>4. CASE Prepare(j)
  <2>1. Moves(j, "clear", file[p]) \/ Moves(j, "connect", file[p])
    BY <1>0, <1>4 DEF Prepare, Moves
  <2> QED BY <1>1, <1>4, <2>1 DEF Prepare
<1>5. CASE Clear(j)
  <2>1. Moves(j, "connect", "absent")
    BY <1>5 DEF Clear, Delete, Moves
  <2> QED BY <1>1, <1>5, <2>1 DEF Clear, Delete
<1>6. CASE Open(j)
  <2>1. Moves(j, "write", "partial")
    BY <1>6 DEF Open, Moves
  <2> QED BY <1>1, <1>6, <2>1 DEF Open
<1>7. CASE Close(j)
  <2>1. \E c : Moves(j, "verify", c)
    BY <1>0, <1>7 DEF Close, Moves
  <2> QED BY <1>1, <1>7, <2>1 DEF Close
<1>8. CASE IOFailure(j)
  <2>1. \E c : Moves(j, "failed", c)
    BY <1>0, <1>8 DEF IOFailure, Moves
  <2> QED BY <1>1, <1>8, <2>1 DEF IOFailure
<1>9. CASE Verify(j)
  <2>1. CASE IsRight(p)
    <3>1. Moves(j, "done", file[p])
      BY <1>0, <1>9, <2>1 DEF Verify, IsRight, Moves
    <3> QED BY <1>1, <1>9, <3>1 DEF Verify
  <2>2. CASE ~IsRight(p)
    <3>1. Moves(j, "discard", file[p])
      BY <1>0, <1>9, <2>2 DEF Verify, Moves
    <3> QED BY <1>1, <1>9, <3>1 DEF Verify
  <2> QED BY <2>1, <2>2
<1>10. CASE Discard(j)
  <2>1. Moves(j, "failed", "absent")
    BY <1>10 DEF Discard, Delete, Moves
  <2> QED BY <1>1, <1>10, <2>1 DEF Discard, Delete
<1>11. CASE AttemptFailed(j)
  <2>1. Moves(j, "ensure", file[p]) \/ Moves(j, "loop", file[p])
    BY <1>0, <1>11 DEF AttemptFailed, Moves
  <2> QED BY <1>1, <1>11, <2>1 DEF AttemptFailed
<1>12. CASE AddEnsure(j)
  <2>1. Moves(j, "publish", file[p]) \/ Moves(j, "load", file[p])
    BY <1>0, <1>12 DEF AddEnsure, Moves
  <2>2. Recorded(j, "publish") /\ Recorded(j, "load")
    BY <1>12 DEF AddEnsure, Recorded, IInv, Shape, Lists
  <2> QED BY <2>1, <2>2, JobStep
<1>13. CASE AddPublish(j)
  <2>1. Moves(j, "load", file[p])
    BY <1>0, <1>13 DEF AddPublish, Moves
  <2>2. Recorded(j, "load")
    <3> DEFINE l == list[j[1]]
    <3>1. list' = [list EXCEPT ![j[1]] = [l EXCEPT !.cap = Grown(slot[j])]] /\ slot' = slot
      BY <1>13 DEF AddPublish
    <3>2. l = [cap |-> l.cap, size |-> l.size]
      BY DEF IInv, Shape
    <3> DEFINE k == [l EXCEPT !.cap = Grown(slot[j])]
    <3>3. k.size = l.size /\ k = [cap |-> k.cap, size |-> k.size]
      BY <3>2
    <3> HIDE DEF k
    <3>4. /\ list'[j[1]] = k /\ \A s \in Sessions \ {j[1]} : list'[s] = list[s]
          /\ list' = [s \in Sessions |-> list'[s]]
      BY <3>1 DEF IInv, Shape, k
    <3> QED BY <3>1, <3>3, <3>4 DEF Recorded, IInv, Shape, Lists
  <2> QED BY <2>1, <2>2, JobStep
<1>14. CASE AddLoad(j)
  <2>1. Moves(j, "store", file[p])
    BY <1>0, <1>14 DEF AddLoad, Moves
  <2>2. Recorded(j, "store")
    BY <1>14 DEF AddLoad, Recorded, IInv, Shape, Lists
  <2> QED BY <2>1, <2>2, JobStep
<1>15. CASE AddStore(j)
  <2>1. Moves(j, "gaveup", file[p])
    BY <1>0, <1>15 DEF AddStore, Moves
  <2>2. Recorded(j, "gaveup")
    <3> DEFINE k == [list[j[1]] EXCEPT !.size = slot[j].size + 1]
    <3>1. list' = [list EXCEPT ![j[1]] = k]
      BY <1>15 DEF AddStore
    <3>2. list[j[1]] = [cap |-> list[j[1]].cap, size |-> list[j[1]].size]
      BY DEF IInv, Shape
    <3>3. k.size = slot[j].size + 1 /\ k = [cap |-> k.cap, size |-> k.size]
      BY <3>2
    <3> HIDE DEF k
    <3>4. /\ list'[j[1]] = k /\ \A s \in Sessions \ {j[1]} : list'[s] = list[s]
          /\ list' = [s \in Sessions |-> list'[s]]
      BY <3>1 DEF IInv, Shape
    <3>5. slot' = slot
      BY <1>15 DEF AddStore
    <3>6. slot[j].size \in Nat
      BY DEF IInv, Lists
    <3>7. /\ k.size \in Nat /\ k.size # 0
      BY <3>3, <3>6
    <3> QED BY <3>3, <3>4, <3>5, <3>7 DEF Recorded, IInv, Shape, Lists
  <2> QED BY <2>1, <2>2, JobStep
<1>16. CASE AddOverflow(j)
  <2>1. Moves(j, "crashed", file[p])
    BY <1>0, <1>16 DEF AddOverflow, Moves
  <2> QED BY <1>1, <1>16, <2>1 DEF AddOverflow
<1> QED BY <1>2, <1>3, <1>4, <1>5, <1>6, <1>7, <1>8, <1>9, <1>10, <1>11, <1>12, <1>13,
           <1>14, <1>15, <1>16 DEF Worker

-----------------------------------------------------------------------------
\* The steps of a submitter, and of the pool

\* A session begins: alone, unless another one is still at work; none that
\* runs alone goes on doing so.
LEMMA BeginStep ==
  ASSUME IInv, NEW s0 \in Sessions, Begin(s0)
  PROVE  IInv'
<1> USE JobPairs
<1>1. /\ sub[s0] = "idle" /\ sub'[s0] = "submit"
      /\ \A s \in Sessions \ {s0} : sub'[s] = sub[s] /\ pending'[s] = pending[s]
      /\ pending'[s0] = {e \in Entries : FilterFirst => ~IsRight(PathOf[e])}
      /\ UNCHANGED <<file, cancelled, pool, queue, pc, list, slot, ret>>
  BY DEF Begin, IInv, Shape
<1>2. /\ alone'[s0] => \A s \in Sessions \ {s0} : ~Running(s) /\ ActiveJobs(s) = {}
      /\ \A s \in Sessions \ {s0} : alone'[s] => alone[s] /\ ~Running(s)
      /\ alone' = [s \in Sessions |-> alone'[s]]
  BY DEF Begin
<1>3. \A s \in Sessions \ {s0} : Running(s)' = Running(s)
  BY <1>1 DEF Running
<1>4. \A s \in Sessions : ActiveJobs(s)' = ActiveJobs(s) /\ GaveUp(s)' = GaveUp(s)
  BY <1>1 DEF ActiveJobs, GaveUp
<1>6. Shape'
  <2>1. sub' = [s \in Sessions |-> sub'[s]] /\ pending' \in [Sessions -> SUBSET Entries]
    BY DEF Begin, IInv, Shape
  <2> QED BY <1>1, <1>2, <2>1 DEF IInv, Shape
<1>7. Queues'
  BY <1>1 DEF IInv, Queues, QueueOK
<1>8. Lists'
  BY <1>1, <1>4 DEF IInv, Lists
<1>9. Alone'
  BY <1>2, <1>3, <1>4 DEF Alone
<1>10. Owed'
  <2> SUFFICES ASSUME NEW s \in Sessions, alone'[s], Running(s)',
                      NEW e \in Entries, PathOf[e] \in Hashed, file[PathOf[e]] # "right"
               PROVE  \E d \in ToDo(s)' : PathOf[d] = PathOf[e]
    BY <1>1 DEF Owed
  <2>1. s = s0
    BY <1>2, <1>3
  <2>2. e \in ToDo(s)'
    BY <1>1, <2>1 DEF ToDo, IsRight
  <2> QED BY <2>2
<1>11. Settled'
  <2> SUFFICES ASSUME NEW s \in Sessions, NEW t \in Sessions, Clean(s)',
                      NEW e \in Entries, PathOf[e] \in Hashed
               PROVE  /\ file[PathOf[e]] = "right"
                      /\ pc[<<t, e>>] \notin Active \ {"check"}
                      /\ FilterFirst => e \notin pending'[t] /\ pc[<<t, e>>] # "queued"
    BY <1>1 DEF Settled
  <2>1. s # s0 /\ Clean(s)
    BY <1>1, <1>2 DEF Clean, IInv, Lists
  <2>2. /\ file[PathOf[e]] = "right"
        /\ pc[<<t, e>>] \notin Active \ {"check"}
        /\ FilterFirst => e \notin pending[t] /\ pc[<<t, e>>] # "queued"
    BY <2>1 DEF IInv, Settled
  <2>3. FilterFirst => e \notin pending'[t]
    BY <1>1, <2>2 DEF IsRight
  <2> QED BY <2>2, <2>3
<1> QED BY <1>6, <1>7, <1>8, <1>9, <1>10, <1>11 DEF IInv

\* With an empty queue and a pool that runs, execute discards nothing.
LEMMA SubmitStep ==
  ASSUME IInv, NEW s0 \in Sessions, Submit(s0)
  PROVE  IInv'
<1> USE JobPairs
<1>1. PICK e0 \in pending[s0] :
        pending' = [pending EXCEPT ![s0] = @ \ {e0}] /\ execute(s0, e0)
  BY DEF Submit
<1>2. /\ e0 \in Entries /\ sub[s0] = "submit" /\ queue[s0] = <<>> /\ pc[<<s0, e0>>] = "none"
      /\ sub'[s0] = "drain" /\ \A s \in Sessions \ {s0} : sub'[s] = sub[s] /\ pending'[s] = pending[s]
      /\ pending'[s0] = pending[s0] \ {e0}
      /\ UNCHANGED <<file, cancelled, pool, list, slot, ret, alone>>
  <2>1. pending \in [Sessions -> SUBSET Entries] /\ sub = [s \in Sessions |-> sub[s]]
    BY DEF IInv, Shape
  <2>2. sub[s0] = "submit" /\ sub' = [sub EXCEPT ![s0] = "drain"]
        /\ UNCHANGED <<file, cancelled, pool, list, slot, ret, alone>>
    BY DEF Submit
  <2>3. e0 \in Entries /\ queue[s0] = <<>> /\ pc[<<s0, e0>>] = "none"
    BY <2>1, <2>2 DEF IInv, Queues, QueueOK
  <2> QED BY <1>1, <2>1, <2>2, <2>3
<1>3. PICK to : /\ pc' = [pc EXCEPT ![<<s0, e0>>] = to]
                /\ \/ to \in {"check", "loop"} /\ queue' = queue /\ (FilterFirst => to = "loop")
                                               /\ (~FilterFirst => to = "check")
                   \/ to = "queued" /\ queue' = [queue EXCEPT ![s0] = <<e0>>]
                   \/ to = "dropped" /\ queue' = queue /\ cancelled[s0]
  <2>1. ~(Cardinality(Handed(s0)) >= MaxTask /\ Len(queue[s0]) >= MaxTask)
    BY <1>2, ShortQueues, PoolAssumption
  <2>2. pool[s0] # "running" => cancelled[s0]
    BY <1>2 DEF IInv, Queues, QueueOK
  <2>3. Append(queue[s0], e0) = <<e0>>
    BY <1>2, ShortQueues
  <2> QED BY <1>1, <2>1, <2>2, <2>3 DEF execute, FirstStep
<1>4. pc'[<<s0, e0>>] = to /\ \A s \in Sessions, e \in Entries :
        <<s, e>> # <<s0, e0>> => pc'[<<s, e>>] = pc[<<s, e>>]
  BY <1>2, <1>3 DEF IInv, Shape
<1>5. /\ queue'[s0] = IF to = "queued" THEN <<e0>> ELSE <<>>
      /\ \A s \in Sessions \ {s0} : queue'[s] = queue[s]
      /\ queue' \in [Sessions -> Seq(Entries)]
  BY <1>2, <1>3, ShortQueues DEF IInv, Shape
<1>6. Shape'
  <2>1. /\ sub' = [s \in Sessions |-> sub'[s]] /\ pending' \in [Sessions -> SUBSET Entries]
        /\ pc' = [j \in Jobs |-> pc'[j]]
    BY <1>1, <1>3 DEF Submit, IInv, Shape
  <2> QED BY <1>2, <1>5, <2>1 DEF IInv, Shape
<1>7. Queues'
  BY <1>2, <1>3, <1>4, <1>5, ShortQueues DEF IInv, Queues, QueueOK
<1>8. Lists'
  <2>1. \A s \in Sessions : GaveUp(s)' = GaveUp(s)
    BY <1>2, <1>3, <1>4 DEF GaveUp
  <2>2. \A s \in Sessions \ {s0} : ActiveJobs(s)' = ActiveJobs(s)
    BY <1>4 DEF ActiveJobs
  <2>3. ret[s0].how = "none"
    BY <1>2 DEF IInv, Lists
  <2> QED BY <1>2, <2>1, <2>2, <2>3 DEF IInv, Lists
<1>9. Alone'
  <2>1. \A s \in Sessions \ {s0} : ActiveJobs(s)' = ActiveJobs(s)
    BY <1>4 DEF ActiveJobs
  <2>2. \A s \in Sessions : Running(s)' = Running(s)
    BY <1>2 DEF Running
  <2> QED BY <1>2, <2>1, <2>2 DEF IInv, Alone, Running
<1>10. Owed'
  <2>1. \A s \in Sessions : Running(s)' = Running(s)
    BY <1>2 DEF Running
  <2>2. \A s \in Sessions : s # s0 \/ ~cancelled[s0] => ToDo(s) \subseteq ToDo(s)'
    BY <1>2, <1>3, <1>4 DEF ToDo, Active
  <2> QED BY <1>2, <2>1, <2>2 DEF IInv, Owed
<1>11. Settled'
  <2> SUFFICES ASSUME NEW s \in Sessions, NEW t \in Sessions, Clean(s),
                      NEW e \in Entries, PathOf[e] \in Hashed
               PROVE  /\ file[PathOf[e]] = "right"
                      /\ pc'[<<t, e>>] \notin Active \ {"check"}
                      /\ FilterFirst => e \notin pending'[t] /\ pc'[<<t, e>>] # "queued"
    BY <1>2 DEF Settled, Clean
  <2>1. /\ file[PathOf[e]] = "right"
        /\ pc[<<t, e>>] \notin Active \ {"check"}
        /\ FilterFirst => e \notin pending[t] /\ pc[<<t, e>>] # "queued"
    BY DEF IInv, Settled
  <2>2. {"queued", "dropped"} \cap Active = {}
    BY DEF Active, Transferring, Adding
  <2>3. CASE t = s0 /\ e = e0
    <3>1. ~FilterFirst
      BY <1>1, <2>1, <2>3
    <3> QED BY <1>3, <1>4, <2>1, <2>2, <2>3, <3>1
  <2>4. CASE ~(t = s0 /\ e = e0)
    BY <1>2, <1>4, <2>1, <2>4
  <2> QED BY <2>3, <2>4
<1> QED BY <1>6, <1>7, <1>8, <1>9, <1>10, <1>11 DEF IInv

\* A worker takes the one job that waits.
LEMMA TakeStep ==
  ASSUME IInv, NEW s0 \in Sessions, Take(s0)
  PROVE  IInv'
<1> USE JobPairs
<1>1. PICK e0 \in Entries : queue[s0] = <<e0>>
  BY DEF Take, IInv, Queues, QueueOK
<1>2. /\ sub[s0] = "drain" /\ pc[<<s0, e0>>] = "queued"
      /\ UNCHANGED <<file, sub, pending, cancelled, pool, list, slot, ret, alone>>
      /\ pc' = [pc EXCEPT ![<<s0, e0>>] = FirstStep]
      /\ queue' = [queue EXCEPT ![s0] = <<>>]
  <2>1. queue[s0] # <<>> /\ Head(queue[s0]) = e0 /\ Tail(queue[s0]) = <<>>
    BY <1>1, ShortQueues
  <2> QED BY <1>1, <2>1 DEF Take, IInv, Queues, QueueOK
<1>3. /\ pc'[<<s0, e0>>] = FirstStep
      /\ \A s \in Sessions, e \in Entries :
           <<s, e>> # <<s0, e0>> => pc'[<<s, e>>] = pc[<<s, e>>]
      /\ queue'[s0] = <<>> /\ \A s \in Sessions \ {s0} : queue'[s] = queue[s]
  BY <1>2 DEF IInv, Shape
<1>4. FirstStep \in {"check", "loop"} /\ (~FilterFirst => FirstStep = "check")
  BY DEF FirstStep
<1>6. Shape'
  <2>1. queue' \in [Sessions -> Seq(Entries)]
    BY <1>2, ShortQueues DEF IInv, Shape
  <2> QED BY <1>2, <2>1 DEF IInv, Shape
<1>7. Queues'
  BY <1>1, <1>2, <1>3, <1>4, ShortQueues DEF IInv, Queues, QueueOK
<1>8. Lists'
  <2>1. \A s \in Sessions : GaveUp(s)' = GaveUp(s)
    BY <1>2, <1>3, <1>4 DEF GaveUp
  <2>2. \A s \in Sessions \ {s0} : ActiveJobs(s)' = ActiveJobs(s)
    BY <1>3 DEF ActiveJobs
  <2>3. ret[s0].how = "none"
    BY <1>2 DEF IInv, Lists
  <2> QED BY <1>2, <2>1, <2>2, <2>3 DEF IInv, Lists
<1>9. Alone'
  <2>1. \A s \in Sessions \ {s0} : ActiveJobs(s)' = ActiveJobs(s)
    BY <1>3 DEF ActiveJobs
  <2> QED BY <1>2, <2>1 DEF IInv, Alone, Running
<1>10. Owed'
  <2>1. \A s \in Sessions : ToDo(s) \subseteq ToDo(s)'
    BY <1>2, <1>3, <1>4 DEF ToDo, Active
  <2> QED BY <1>2, <2>1 DEF IInv, Owed, Running
<1>11. Settled'
  <2> SUFFICES ASSUME NEW s \in Sessions, NEW t \in Sessions, Clean(s),
                      NEW e \in Entries, PathOf[e] \in Hashed
               PROVE  /\ file[PathOf[e]] = "right"
                      /\ pc'[<<t, e>>] \notin Active \ {"check"}
                      /\ FilterFirst => e \notin pending[t] /\ pc'[<<t, e>>] # "queued"
    BY <1>2 DEF Settled, Clean
  <2>1. /\ file[PathOf[e]] = "right"
        /\ pc[<<t, e>>] \notin Active \ {"check"}
        /\ FilterFirst => e \notin pending[t] /\ pc[<<t, e>>] # "queued"
    BY DEF IInv, Settled
  <2>2. CASE t = s0 /\ e = e0
    BY <1>2, <1>3, <1>4, <2>1, <2>2
  <2>3. CASE ~(t = s0 /\ e = e0)
    BY <1>3, <2>1, <2>3
  <2> QED BY <2>2, <2>3
<1> QED BY <1>6, <1>7, <1>8, <1>9, <1>10, <1>11 DEF IInv

\* Draining ends with an empty queue, and shutdown() with an empty list.
LEMMA SubmitterMoves ==
  ASSUME IInv, NEW s0 \in Sessions, Drained(s0) \/ Shutdown(s0)
  PROVE  IInv'
<1> USE JobPairs
<1>1. /\ UNCHANGED <<file, pending, cancelled, queue, pc, list, slot, ret, alone>>
      /\ \A s \in Sessions \ {s0} : sub'[s] = sub[s] /\ pool'[s] = pool[s]
      /\ sub' = [s \in Sessions |-> sub'[s]] /\ pool' = [s \in Sessions |-> pool'[s]]
  BY DEF Drained, Shutdown, IInv, Shape
<1>2. /\ sub[s0] \in {"submit", "drain"} /\ sub'[s0] \in {"submit", "await"}
      /\ queue[s0] = <<>>
      /\ \/ sub'[s0] = "submit" /\ pool'[s0] = pool[s0]
         \/ /\ sub'[s0] = "await" /\ pending[s0] = {}
            /\ pool'[s0] = IF pool[s0] = "running" THEN "shutdown" ELSE pool[s0]
  BY DEF Drained, Shutdown, IInv, Shape, Queues, QueueOK
<1>3. \A s \in Sessions : /\ Running(s)' = Running(s) /\ ActiveJobs(s)' = ActiveJobs(s)
                          /\ GaveUp(s)' = GaveUp(s) /\ ToDo(s)' = ToDo(s)
  BY <1>1, <1>2 DEF Running, ActiveJobs, GaveUp, ToDo
<1>6. Shape'
  BY <1>1 DEF IInv, Shape
<1>7. Queues'
  BY <1>1, <1>2 DEF IInv, Queues, QueueOK
<1>8. Lists'
  BY <1>1, <1>2, <1>3 DEF IInv, Lists
<1>9. Alone' /\ Owed'
  BY <1>1, <1>3 DEF IInv, Alone, Owed
<1>10. Settled'
  BY <1>1 DEF IInv, Settled, Clean
<1> QED BY <1>6, <1>7, <1>8, <1>9, <1>10 DEF IInv

\* A clean return: the list is empty because nobody gave up and all jobs ended.
LEMMA ReturnStep ==
  ASSUME IInv, NEW s0 \in Sessions, NEW how \in {"terminated", "timeout", "interrupted"},
         Return(s0, how)
  PROVE  IInv'
<1> USE JobPairs
<1>1. /\ UNCHANGED <<file, pending, cancelled, pool, queue, pc, list, slot, alone>>
      /\ \A s \in Sessions \ {s0} : sub'[s] = sub[s] /\ ret'[s] = ret[s]
      /\ sub' = [s \in Sessions |-> sub'[s]] /\ ret' = [s \in Sessions |-> ret'[s]]
      /\ sub[s0] = "await" /\ sub'[s0] = "done"
      /\ ret'[s0] = [how |-> how, failures |-> list[s0].size]
      /\ how = "terminated" => Terminated(s0)
  BY DEF Return, IInv, Shape
<1>2. queue[s0] = <<>> /\ pending[s0] = {}
  <2>1. QueueOK(s0) /\ pending[s0] \subseteq Entries
    BY DEF IInv, Shape, Queues
  <2> QED BY <1>1, <2>1 DEF QueueOK
<1>3. \A s \in Sessions : /\ ActiveJobs(s)' = ActiveJobs(s)
                          /\ GaveUp(s)' = GaveUp(s) /\ ToDo(s)' = ToDo(s)
  BY <1>1 DEF ActiveJobs, GaveUp, ToDo
<1>4. ~Running(s0)' /\ \A s \in Sessions \ {s0} : Running(s)' = Running(s)
  BY <1>1 DEF Running
<1>6. Shape'
  BY <1>1 DEF IInv, Shape
<1>7. Queues'
  BY <1>1, <1>2 DEF IInv, Queues, QueueOK
<1>8. Lists'
  BY <1>1, <1>3 DEF IInv, Lists, Terminated
<1>9. Alone' /\ Owed'
  BY <1>1, <1>3, <1>4 DEF IInv, Alone, Owed
<1>10. Settled'
  <2> SUFFICES ASSUME NEW s \in Sessions, NEW t \in Sessions, Clean(s)',
                      NEW e \in Entries, PathOf[e] \in Hashed
               PROVE  /\ file[PathOf[e]] = "right"
                      /\ pc[<<t, e>>] \notin Active \ {"check"}
                      /\ FilterFirst => e \notin pending[t] /\ pc[<<t, e>>] # "queued"
    BY <1>1 DEF Settled
  <2>1. CASE s # s0
    <3>1. Clean(s)
      BY <1>1, <2>1 DEF Clean
    <3> QED BY <3>1 DEF IInv, Settled
  <2>2. CASE s = s0
    <3>1. how = "terminated" /\ list[s0].size = 0 /\ ~cancelled[s0] /\ alone[s0]
      BY <1>1, <2>2 DEF Clean
    <3>2. ActiveJobs(s0) = {} /\ GaveUp(s0) = {} /\ Running(s0)
      BY <1>1, <3>1 DEF Terminated, IInv, Lists, Running
    <3>3. ToDo(s0) = {}
      <4>1. \A d \in Entries : pc[<<s0, d>>] # "queued"
        BY <1>2, ShortQueues DEF IInv, Queues, QueueOK
      <4> QED BY <1>2, <3>2, <4>1 DEF ToDo, ActiveJobs, GaveUp
    <3>4. file[PathOf[e]] = "right"
      BY <3>1, <3>2, <3>3 DEF IInv, Owed
    <3>5. ActiveJobs(t) = {} /\ (t # s0 => ~Running(t))
      BY <3>1, <3>2 DEF IInv, Alone
    <3>6. pending[t] = {} /\ queue[t] = <<>>
      <4>1. CASE t = s0
        BY <1>2, <4>1
      <4>2. CASE t # s0
        <5>1. QueueOK(t) /\ pending[t] \subseteq Entries
          BY DEF IInv, Shape, Queues
        <5> QED BY <3>5, <4>2, <5>1 DEF QueueOK, Running
      <4> QED BY <4>1, <4>2
    <3>7. pc[<<t, e>>] \notin Active \cup {"queued"}
      BY <3>5, <3>6, ShortQueues DEF ActiveJobs, IInv, Queues, QueueOK
    <3> QED BY <3>4, <3>6, <3>7
  <2> QED BY <2>1, <2>2
<1> QED BY <1>6, <1>7, <1>8, <1>9, <1>10 DEF IInv

LEMMA CancelStep ==
  ASSUME IInv, NEW s0 \in Sessions, Cancel(s0)
  PROVE  IInv'
<1>1. /\ UNCHANGED <<file, sub, pending, pool, queue, pc, list, slot, ret, alone>>
      /\ cancelled' = [cancelled EXCEPT ![s0] = TRUE]
      /\ \A s \in Sessions : cancelled[s] => cancelled'[s]
      /\ \A s \in Sessions \ {s0} : cancelled'[s] = cancelled[s]
  BY DEF Cancel, IInv, Shape
<1>2. \A s \in Sessions : /\ Running(s)' = Running(s) /\ ActiveJobs(s)' = ActiveJobs(s)
                         /\ GaveUp(s)' = GaveUp(s) /\ ToDo(s)' = ToDo(s)
  BY <1>1 DEF Running, ActiveJobs, GaveUp, ToDo
<1>6. Shape'
  BY <1>1 DEF IInv, Shape
<1>7. Queues'
  BY <1>1 DEF IInv, Queues, QueueOK
<1>8. Lists'
  BY <1>1, <1>2 DEF IInv, Lists
<1>9. Alone'
  BY <1>1, <1>2 DEF IInv, Alone
<1>10. Owed'
  BY <1>1, <1>2 DEF IInv, Owed
<1>11. Settled'
  BY <1>1 DEF IInv, Settled, Clean
<1> QED BY <1>6, <1>7, <1>8, <1>9, <1>10, <1>11 DEF IInv

-----------------------------------------------------------------------------
LEMMA InductiveStep == IInv /\ [Next]_vars => IInv'
<1> SUFFICES ASSUME IInv, [Next]_vars PROVE IInv'
  OBVIOUS
<1>1. CASE \E s \in Sessions : Submitter(s)
  BY <1>1, BeginStep, SubmitStep, SubmitterMoves, ReturnStep DEF Submitter
<1>2. CASE \E s \in Sessions : Cancel(s) \/ Take(s)
  BY <1>2, CancelStep, TakeStep
<1>3. CASE \E j \in Jobs : Worker(j)
  BY <1>3, WorkerStep
<1>4. CASE UNCHANGED vars
  <2> USE <1>4 DEF vars
  <2>1. \A s \in Sessions : /\ Running(s)' = Running(s) /\ ActiveJobs(s)' = ActiveJobs(s)
                            /\ GaveUp(s)' = GaveUp(s) /\ ToDo(s)' = ToDo(s)
    BY DEF Running, ActiveJobs, GaveUp, ToDo
  <2>2. Shape'
    BY DEF IInv, Shape
  <2>5. Queues'
    BY DEF IInv, Queues, QueueOK
  <2>3. Lists' /\ Alone' /\ Owed'
    BY <2>1 DEF IInv, Lists, Alone, Owed
  <2>4. Settled'
    BY DEF IInv, Settled, Clean
  <2> QED BY <2>2, <2>5, <2>3, <2>4 DEF IInv
<1> QED BY <1>1, <1>2, <1>3, <1>4 DEF Next

\* The invariant holds in every reachable state.
THEOREM Inductive == Spec => []IInv
BY InductiveStep, Initially, PTL DEF Spec

\* DiscardPolicy and `while (!workQueue.isEmpty())`: with a pool of any size, the
\* pool discards a job only of a session that was cancelled.
THEOREM NothingIsDiscarded == Spec => []NothingDiscarded
<1>1. IInv => NothingDiscarded
  BY DEF IInv, Queues, QueueOK, NothingDiscarded
<1> QED BY <1>1, Inductive, PTL

\* failedFile.add without a lock and `failedFile.size() > 0`: however many workers
\* race, a list is empty only if no job gave up, and then, if the session ran
\* alone, every file with a sha1 is there and right.
THEOREM ListsAreTrue == Spec => []ListTrue
<1>1. IInv => FailureNoticed
  BY DEF IInv, Lists, FailureNoticed
<1>2. IInv => CleanReturn
  BY DEF IInv, Settled, Clean, CleanReturn
<1> QED BY <1>1, <1>2, Inductive, PTL DEF ListTrue

\* awaitTermination: the file part on its own.
THEOREM ReturnsAreClean == Spec => []CleanReturn
<1>1. IInv => CleanReturn
  BY DEF IInv, Settled, Clean, CleanReturn
<1> QED BY <1>1, Inductive, PTL

-----------------------------------------------------------------------------
(***************************************************************************)
(* Types.  The attempts of a job stay within TryTimes because a job that   *)
(* can still make one has one left.  The size of the unlocked list never   *)
(* exceeds the jobs that gave up (Room): a lost add makes it smaller, never*)
(* larger, and the job that adds is not among them.  Nothing is said of    *)
(* the length of its array: an add may find it too short (AddOverflow).    *)
(***************************************************************************)
Places == Active \cup {"none", "queued", "dropped", "quit", "done", "gaveup"}

FilesTyped ==
  /\ file \in [Paths -> Contents]
  /\ stream \in [Jobs -> {"closed", "open", "orphan"}]

SubmittersTyped ==
  /\ sub \in [Sessions -> {"idle", "submit", "drain", "await", "done"}]
  /\ cancelled \in [Sessions -> BOOLEAN]
  /\ alone \in [Sessions -> BOOLEAN]

Ended == {"done", "gaveup", "quit", "dropped"} \cup Adding

JobsTyped ==
  /\ pc \in [Jobs -> Places]
  /\ tries \in [Jobs -> 0..TryTimes]
  /\ \A j \in Jobs : pc[j] \notin Ended => tries[j] < TryTimes

Room ==
  /\ \A s \in Sessions : list[s].size <= Cardinality(GaveUp(s))
  /\ \A j \in Jobs : pc[j] = "store" => slot[j].size <= Cardinality(GaveUp(j[1]))

ListsTyped ==
  /\ \A s \in Sessions : list[s].cap \in Nat
  /\ \A j \in Jobs : slot[j] \in [cap : Nat, size : 0..N]
  /\ \A s \in Sessions : ret[s] \in [how : {"none", "terminated", "timeout", "interrupted"},
                                     failures : 0..N]

TInv == IInv /\ FilesTyped /\ SubmittersTyped /\ JobsTyped /\ Room /\ ListsTyped

LEMMA GaveUpFinite ==
  ASSUME NEW s \in Sessions
  PROVE  /\ IsFiniteSet(GaveUp(s)) /\ Cardinality(GaveUp(s)) \in 0..N
         /\ \A e \in Entries \ GaveUp(s) : Cardinality(GaveUp(s)) + 1 \in 0..N
<1>1. IsFiniteSet(Entries) /\ Cardinality(Entries) = N
  <2>1. IsFiniteSet(1..N) /\ Cardinality(1..N) = N
    BY FS_Interval, PoolAssumption
  <2> QED BY <2>1 DEF Entries
<1>2. GaveUp(s) \in SUBSET Entries
  BY DEF GaveUp
<1>3. IsFiniteSet(GaveUp(s)) /\ Cardinality(GaveUp(s)) <= N
  BY <1>1, <1>2, FS_Subset
<1>4. Cardinality(GaveUp(s)) \in Nat
  BY <1>3, FS_CardinalityType
<1>5. ASSUME NEW e \in Entries \ GaveUp(s) PROVE Cardinality(GaveUp(s)) + 1 \in 0..N
  <2>1. GaveUp(s) \cup {e} \in SUBSET Entries
    BY <1>2
  <2>2. Cardinality(GaveUp(s) \cup {e}) <= N
    BY <1>1, <2>1, FS_Subset
  <2>3. Cardinality(GaveUp(s) \cup {e}) = Cardinality(GaveUp(s)) + 1
    BY <1>3, FS_AddElement
  <2> QED BY <1>4, <2>2, <2>3, PoolAssumption
<1> QED BY <1>3, <1>4, <1>5, PoolAssumption

LEMMA TypeParts == TInv => TypeOK
<1> SUFFICES ASSUME TInv PROVE TypeOK
  OBVIOUS
<1>1. pending \in [Sessions -> SUBSET Entries] /\ queue \in [Sessions -> Seq(Entries)]
  BY DEF TInv, IInv, Shape
<1>2. pool \in [Sessions -> {"running", "shutdown", "stop"}]
  BY DEF TInv, IInv, Shape, Queues, QueueOK
<1>3. \A s \in Sessions : list[s].size \in 0..N
  BY GaveUpFinite, PoolAssumption DEF TInv, IInv, Lists, Room
<1>4. \A s \in Sessions : list[s] \in [cap : Nat, size : 0..N]
  BY <1>3 DEF TInv, IInv, Shape, ListsTyped
<1>5. list \in [Sessions -> [cap : Nat, size : 0..N]]
  BY <1>4 DEF TInv, IInv, Shape
<1>6. /\ slot \in [Jobs -> [cap : Nat, size : 0..N]]
      /\ ret \in [Sessions -> [how : {"none", "terminated", "timeout", "interrupted"},
                               failures : 0..N]]
  BY DEF TInv, IInv, Shape, ListsTyped
<1> QED BY <1>1, <1>2, <1>5, <1>6 DEF TypeOK, TInv, FilesTyped, SubmittersTyped, JobsTyped,
  Places

LEMMA TypesInitially == Init => TInv
<1> SUFFICES ASSUME Init PROVE TInv
  OBVIOUS
<1>1. IInv
  BY Initially
<1>2. FilesTyped /\ SubmittersTyped
  BY DEF Init, FilesTyped, SubmittersTyped
<1>3. JobsTyped
  BY PoolAssumption DEF Init, JobsTyped, Places
<1>4. \A s \in Sessions : list[s].size = 0 /\ list[s].cap = 0
  BY DEF Init, EmptyList
<1>5. Room
  <2>1. \A s \in Sessions : 0 <= Cardinality(GaveUp(s))
    BY GaveUpFinite
  <2>2. \A j \in Jobs : pc[j] = "none"
    BY DEF Init
  <2> QED BY <1>4, <2>1, <2>2 DEF Room
<1>6. ListsTyped
  <2>1. 0 \in 0..N
    BY PoolAssumption
  <2> QED BY <1>4, <2>1 DEF Init, EmptyList, ListsTyped
<1> QED BY <1>1, <1>2, <1>3, <1>5, <1>6 DEF TInv

LEMMA FilesTypedStep == ASSUME TInv, Next PROVE FilesTyped'
<1> USE DEF FilesTyped
<1>1. FilesTyped /\ \A j \in Jobs : PathOf[j[2]] \in Paths
  BY PoolAssumption, JobPairs DEF TInv
<1>2. CASE \E s \in Sessions : Submitter(s) \/ Cancel(s) \/ Take(s)
  BY <1>1, <1>2 DEF Submitter, Begin, Submit, Drained, Shutdown, Return, Cancel, Take
<1>3. ASSUME NEW j \in Jobs, Worker(j) PROVE FilesTyped'
  <2>1. CASE Clear(j) \/ Discard(j)
    BY <1>1, <2>1 DEF Clear, Discard, Delete, Orphan, Contents
  <2>2. CASE Open(j)
    BY <1>1, <2>2 DEF Open, Contents
  <2>3. CASE Close(j)
    BY <1>1, <2>3 DEF Close, Contents
  <2>4. CASE IOFailure(j)
    BY <1>1, <2>4 DEF IOFailure, Contents
  <2>5. CASE ~(Clear(j) \/ Discard(j) \/ Open(j) \/ Close(j) \/ IOFailure(j))
    BY <1>1, <1>3, <2>5 DEF Worker, CheckExisting, TryAgain, Prepare, Verify, AttemptFailed,
      AddEnsure, AddPublish, AddLoad, AddStore, AddOverflow
  <2> QED BY <2>1, <2>2, <2>3, <2>4, <2>5
<1> QED BY <1>2, <1>3 DEF Next

LEMMA SubmittersTypedStep == ASSUME TInv, Next PROVE SubmittersTyped'
<1>1. SubmittersTyped
  BY DEF TInv
<1>2. CASE \E s \in Sessions : Begin(s)
  <2>1. PICK s \in Sessions : Begin(s)
    BY <1>2
  <2>2. alone' \in [Sessions -> BOOLEAN]
    BY <1>1, <2>1, Zenon DEF Begin, SubmittersTyped
  <2> QED BY <1>1, <2>1, <2>2 DEF Begin, SubmittersTyped
<1>3. CASE \E s \in Sessions : \/ Submit(s) \/ Drained(s) \/ Shutdown(s) \/ Cancel(s) \/ Take(s)
                             \/ \E how \in {"terminated", "timeout", "interrupted"} : Return(s, how)
  BY <1>1, <1>3 DEF SubmittersTyped, Submit, Drained, Shutdown, Return, Cancel, Take
<1>4. ASSUME NEW j \in Jobs, Worker(j) PROVE SubmittersTyped'
  BY <1>1, <1>4 DEF SubmittersTyped, Worker, CheckExisting, TryAgain, Prepare, Clear, Discard,
    Delete, Open, Close, IOFailure, Verify, AttemptFailed, AddEnsure, AddPublish, AddLoad, AddStore,
    AddOverflow
<1> QED BY <1>2, <1>3, <1>4 DEF Next, Submitter

\* How a step moves the jobs: one that has ended makes no attempt any more.
LEMMA JobsTypedStep == ASSUME TInv, Next PROVE JobsTyped'
<1> USE JobPairs DEF JobsTyped
<1>1. JobsTyped
  BY DEF TInv
<1>2. ASSUME UNCHANGED tries, NEW j \in Jobs, NEW to \in Places,
             pc' = [pc EXCEPT ![j] = to], pc[j] \notin Ended \/ to \in Ended
      PROVE  JobsTyped'
  BY <1>1, <1>2
<1>3. ASSUME UNCHANGED <<pc, tries>> PROVE JobsTyped'
  BY <1>1, <1>3
<1>4. CASE \E s \in Sessions : \/ Begin(s) \/ Drained(s) \/ Shutdown(s) \/ Cancel(s)
                             \/ \E how \in {"terminated", "timeout", "interrupted"} : Return(s, how)
  BY <1>3, <1>4 DEF Begin, Drained, Shutdown, Cancel, Return
<1>5. FirstStep \in Places /\ "queued" \in Places /\ "dropped" \in Places \cap Ended
  BY DEF FirstStep, Places, Ended, Active, Transferring
<1>6. ASSUME NEW s \in Sessions, Submit(s) PROVE JobsTyped'
  <2>1. PICK e \in pending[s] : execute(s, e)
    BY <1>6 DEF Submit
  <2>2. e \in Entries /\ pc[<<s, e>>] = "none"
    <3>1. QueueOK(s) /\ pending[s] \subseteq Entries
      BY DEF TInv, IInv, Shape, Queues
    <3> QED BY <2>1, <3>1 DEF QueueOK
  <2>3. \E to \in Places : pc' = [pc EXCEPT ![<<s, e>>] = to]
    BY <1>5, <2>1 DEF execute
  <2>4. pc[<<s, e>>] \notin Ended
    BY <2>2 DEF Ended, Adding
  <2> QED BY <1>2, <1>6, <2>2, <2>3, <2>4 DEF Submit
<1>7. ASSUME NEW s \in Sessions, Take(s) PROVE JobsTyped'
  <2>1. PICK e \in Entries : queue[s] = <<e>> /\ pc[<<s, e>>] = "queued"
    BY <1>7, ShortQueues DEF TInv, IInv, Queues, QueueOK, Take
  <2>2. pc' = [pc EXCEPT ![<<s, e>>] = FirstStep] /\ UNCHANGED tries
    BY <1>7, <2>1, ShortQueues DEF Take
  <2>3. pc[<<s, e>>] \notin Ended
    BY <2>1 DEF Ended, Adding
  <2> QED BY <1>2, <1>5, <2>2, <2>3
<1>8. ASSUME NEW j \in Jobs, Worker(j) PROVE JobsTyped'
  <2>1. CASE TryAgain(j) /\ cancelled[j[1]]
    <3>1. /\ UNCHANGED tries
          /\ pc' = [k \in Jobs |-> IF k = j THEN "quit"
                      ELSE IF k[1] = j[1] /\ pc[k] = "queued" THEN "dropped" ELSE pc[k]]
      BY <2>1 DEF TryAgain
    <3> QED BY <1>1, <3>1 DEF Places, Ended
  <2>2. CASE AttemptFailed(j)
    <3>1. pc[j] = "failed" /\ tries[j] < TryTimes /\ tries[j] \in 0..TryTimes
      BY <1>1, <2>2 DEF AttemptFailed, Goto, Ended, Adding
    <3>2. tries' = [tries EXCEPT ![j] = tries[j] + 1]
      BY <2>2 DEF AttemptFailed
    <3>3. PICK to : /\ pc' = [pc EXCEPT ![j] = to]
                    /\ to = IF tries[j] + 1 = TryTimes THEN "ensure" ELSE "loop"
      BY <2>2 DEF AttemptFailed, Goto
    <3>4. to \in Places /\ (to \notin Ended => tries[j] + 1 < TryTimes)
      BY <3>1, <3>3, PoolAssumption DEF Places, Active, Ended, Adding
    <3>5. tries[j] + 1 \in 0..TryTimes
      BY <3>1, PoolAssumption
    <3> QED BY <1>1, <3>2, <3>3, <3>4, <3>5
  <2>3. CASE ~(TryAgain(j) /\ cancelled[j[1]]) /\ ~AttemptFailed(j)
    <3>1. UNCHANGED tries /\ \E to \in Places :
            pc' = [pc EXCEPT ![j] = to] /\ (pc[j] \notin Ended \/ to \in Ended)
      BY <1>8, <2>3 DEF Worker, CheckExisting, TryAgain, Prepare, Clear, Discard, Delete, Open,
        Close, IOFailure, Verify, AddEnsure, AddPublish, AddLoad, AddStore, AddOverflow, Goto, Places, Ended,
        Active, Transferring, Adding
    <3> QED BY <1>2, <3>1
  <2> QED BY <2>1, <2>2, <2>3
<1> QED BY <1>4, <1>6, <1>7, <1>8 DEF Next, Submitter

\* A step that is no step of ArrayList.add leaves the list and who gave up alone.
Adds(j) == AddEnsure(j) \/ AddPublish(j) \/ AddLoad(j) \/ AddStore(j)

LEMMA Elsewhere ==
  ASSUME TInv, Next, ~\E j \in Jobs : Adds(j)
  PROVE  /\ UNCHANGED <<list, slot>>
         /\ \A s \in Sessions : GaveUp(s)' = GaveUp(s)
         /\ \A j \in Jobs : pc'[j] = "store" => pc[j] = "store"
<1> USE JobPairs
<1>0. pc = [j \in Jobs |-> pc[j]]
  BY DEF TInv, IInv, Shape
<1>1. ASSUME \A j \in Jobs : pc'[j] # pc[j] =>
                pc[j] # "gaveup" /\ pc'[j] \notin {"gaveup", "store"}
      PROVE  /\ \A s \in Sessions : GaveUp(s)' = GaveUp(s)
             /\ \A j \in Jobs : pc'[j] = "store" => pc[j] = "store"
  BY <1>1 DEF GaveUp
<1>2. CASE \E s \in Sessions : \/ Begin(s) \/ Drained(s) \/ Shutdown(s) \/ Cancel(s)
                             \/ \E how \in {"terminated", "timeout", "interrupted"} : Return(s, how)
  BY <1>1, <1>2 DEF Begin, Drained, Shutdown, Cancel, Return
<1>3. ASSUME NEW s \in Sessions, NEW e \in Entries, NEW to,
             pc' = [pc EXCEPT ![<<s, e>>] = to], pc[<<s, e>>] # "gaveup",
             to \notin {"gaveup", "store"}
      PROVE  \A j \in Jobs : pc'[j] # pc[j] => pc[j] # "gaveup" /\ pc'[j] \notin {"gaveup", "store"}
  BY <1>0, <1>3
<1>4. ASSUME NEW s \in Sessions, Submit(s)
      PROVE  /\ UNCHANGED <<list, slot>>
             /\ \A t \in Sessions : GaveUp(t)' = GaveUp(t)
             /\ \A j \in Jobs : pc'[j] = "store" => pc[j] = "store"
  <2>1. PICK e \in pending[s] : execute(s, e)
    BY <1>4 DEF Submit
  <2>2. e \in Entries /\ pc[<<s, e>>] # "gaveup"
    <3>1. QueueOK(s) /\ pending[s] \subseteq Entries
      BY DEF TInv, IInv, Shape, Queues
    <3> QED BY <2>1, <3>1 DEF QueueOK
  <2>3. \E to : pc' = [pc EXCEPT ![<<s, e>>] = to] /\ to \notin {"gaveup", "store"}
    BY <2>1 DEF execute, FirstStep
  <2> QED BY <1>1, <1>3, <1>4, <2>2, <2>3 DEF Submit
<1>5. ASSUME NEW s \in Sessions, Take(s)
      PROVE  /\ UNCHANGED <<list, slot>>
             /\ \A t \in Sessions : GaveUp(t)' = GaveUp(t)
             /\ \A j \in Jobs : pc'[j] = "store" => pc[j] = "store"
  <2>1. PICK e \in Entries : queue[s] = <<e>> /\ pc[<<s, e>>] = "queued"
    BY <1>5, ShortQueues DEF TInv, IInv, Queues, QueueOK, Take
  <2>2. pc' = [pc EXCEPT ![<<s, e>>] = FirstStep] /\ UNCHANGED <<list, slot>>
    BY <1>5, <2>1, ShortQueues DEF Take
  <2>3. pc[<<s, e>>] # "gaveup" /\ FirstStep \notin {"gaveup", "store"}
    BY <2>1 DEF FirstStep
  <2> QED BY <1>1, <1>3, <2>2, <2>3
<1>6. ASSUME NEW j \in Jobs, Worker(j)
      PROVE  /\ UNCHANGED <<list, slot>>
             /\ \A t \in Sessions : GaveUp(t)' = GaveUp(t)
             /\ \A k \in Jobs : pc'[k] = "store" => pc[k] = "store"
  <2>1. CASE TryAgain(j) /\ cancelled[j[1]]
    <3>1. /\ UNCHANGED <<list, slot>> /\ pc[j] = "loop"
          /\ pc' = [k \in Jobs |-> IF k = j THEN "quit"
                      ELSE IF k[1] = j[1] /\ pc[k] = "queued" THEN "dropped" ELSE pc[k]]
      BY <2>1 DEF TryAgain
    <3>2. \A k \in Jobs : pc'[k] # pc[k] => pc[k] # "gaveup" /\ pc'[k] \notin {"gaveup", "store"}
      BY <3>1
    <3> QED BY <1>1, <3>1, <3>2
  <2>2. CASE ~(TryAgain(j) /\ cancelled[j[1]])
    <3>1. UNCHANGED <<list, slot>>
      BY <1>6 DEF Worker, CheckExisting, TryAgain, Prepare, Clear, Discard, Delete, Open,
        Close, IOFailure, Verify, AttemptFailed, AddOverflow, Adds
    <3>2. ASSUME NEW from, NEW to, Goto(j, from, to), from # "gaveup",
                 to \notin {"gaveup", "store"}
          PROVE  \A k \in Jobs : pc'[k] # pc[k] => pc[k] # "gaveup" /\ pc'[k] \notin {"gaveup", "store"}
      BY <1>0, <3>2 DEF Goto
    <3>3. CASE CheckExisting(j) \/ Prepare(j)
      BY <1>1, <3>1, <3>2, <3>3 DEF CheckExisting, Prepare
    <3>4. CASE Clear(j) \/ Discard(j) \/ Open(j) \/ Close(j)
      BY <1>1, <3>1, <3>2, <3>4 DEF Clear, Discard, Delete, Open, Close
    <3>5. CASE TryAgain(j)
      <4>1. Goto(j, "loop", "prepare")
        BY <2>2, <3>5 DEF TryAgain, Goto
      <4> QED BY <1>1, <3>1, <3>2, <4>1
    <3>6. CASE IOFailure(j)
      BY <1>0, <1>1, <3>1, <3>6 DEF IOFailure
    <3>7. CASE Verify(j)
      BY <1>1, <3>1, <3>2, <3>7 DEF Verify
    <3>8. CASE AttemptFailed(j) \/ AddOverflow(j)
      BY <1>1, <3>1, <3>2, <3>8 DEF AttemptFailed, AddOverflow
    <3> QED BY <1>6, <3>3, <3>4, <3>5, <3>6, <3>7, <3>8 DEF Worker, Adds
  <2> QED BY <2>1, <2>2
<1> QED BY <1>2, <1>4, <1>5, <1>6 DEF Next, Submitter

LEMMA RoomKept == ASSUME TInv, Next PROVE Room'
<1> USE JobPairs
<1>1. CASE ~\E j \in Jobs : Adds(j)
  <2>1. Room /\ UNCHANGED <<list, slot>>
        /\ \A s \in Sessions : GaveUp(s)' = GaveUp(s)
        /\ \A j \in Jobs : pc'[j] = "store" => pc[j] = "store"
    BY <1>1, Elsewhere DEF TInv
  <2> QED BY <2>1 DEF Room
<1>2. ASSUME NEW j \in Jobs, NEW to, pc[j] \notin {"gaveup", "store"}, to # "gaveup",
             pc' = [pc EXCEPT ![j] = to], \A s \in Sessions : list'[s].size = list[s].size,
             to = "store" => slot'[j].size = list[j[1]].size,
             \A k \in Jobs \ {j} : slot'[k] = slot[k]
      PROVE  Room'
  <2>1. pc'[j] = to /\ \A k \in Jobs \ {j} : pc'[k] = pc[k]
    BY <1>2 DEF TInv, IInv, Shape
  <2>2. \A s \in Sessions, e \in Entries : pc'[<<s, e>>] = "gaveup" <=> pc[<<s, e>>] = "gaveup"
    BY <1>2, <2>1
  <2>3. \A s \in Sessions : GaveUp(s)' = GaveUp(s)
    BY <2>2 DEF GaveUp
  <2>4. \A s \in Sessions : list[s].size <= Cardinality(GaveUp(s))
    BY DEF TInv, Room
  <2>5. ASSUME NEW k \in Jobs, pc'[k] = "store" PROVE slot'[k].size <= Cardinality(GaveUp(k[1]))
    <3>1. CASE k = j
      BY <1>2, <2>1, <2>4, <2>5, <3>1
    <3>2. CASE k # j
      BY <1>2, <2>1, <2>5, <3>2 DEF TInv, Room
    <3> QED BY <3>1, <3>2
  <2> QED BY <1>2, <2>3, <2>4, <2>5 DEF Room
<1>4. ASSUME NEW j \in Jobs, AddPublish(j) PROVE Room'
  <2>1. \A s \in Sessions : list'[s].size = list[s].size
    <3>1. list[j[1]] = [cap |-> list[j[1]].cap, size |-> list[j[1]].size]
      BY DEF TInv, IInv, Shape
    <3>2. [list[j[1]] EXCEPT !.cap = Grown(slot[j])].size = list[j[1]].size
      BY <3>1
    <3> DEFINE k == [list[j[1]] EXCEPT !.cap = Grown(slot[j])]
    <3>3. list' = [list EXCEPT ![j[1]] = k]
      BY <1>4 DEF AddPublish
    <3> HIDE DEF k
    <3>4. \A s \in Sessions : list'[s] = IF s = j[1] THEN k ELSE list[s]
      BY <3>3 DEF TInv, IInv, Shape
    <3> QED BY <3>2, <3>4 DEF k
  <2> QED BY <1>2, <1>4, <2>1 DEF AddPublish, Goto
<1>6. ASSUME NEW j \in Jobs, AddEnsure(j) PROVE Room'
  <2>1. \A k \in Jobs \ {j} : slot'[k] = slot[k]
    BY <1>6 DEF AddEnsure, TInv, IInv, Shape
  <2>2. CASE list[j[1]].size + 1 > list[j[1]].cap
    <3>1. Goto(j, "ensure", "publish") /\ UNCHANGED list
      BY <1>6, <2>2 DEF AddEnsure
    <3> QED BY <1>2, <2>1, <3>1 DEF Goto
  <2>3. CASE ~(list[j[1]].size + 1 > list[j[1]].cap)
    <3>1. Goto(j, "ensure", "load") /\ UNCHANGED list
      BY <1>6, <2>3 DEF AddEnsure
    <3> QED BY <1>2, <2>1, <3>1 DEF Goto
  <2> QED BY <2>2, <2>3
<1>5. ASSUME NEW j \in Jobs, AddLoad(j) PROVE Room'
  <2>1. slot'[j].size = list[j[1]].size /\ \A k \in Jobs \ {j} : slot'[k] = slot[k]
    BY <1>5 DEF AddLoad, TInv, IInv, Shape
  <2> QED BY <1>2, <1>5, <2>1 DEF AddLoad, Goto
<1>3. ASSUME NEW j \in Jobs, AddStore(j)
      PROVE  Room'
  <2> DEFINE s0 == j[1]
  <2>1. /\ pc[j] = "store" /\ pc'[j] = "gaveup" /\ \A k \in Jobs \ {j} : pc'[k] = pc[k]
        /\ UNCHANGED slot
    BY <1>3 DEF AddStore, Goto, TInv, IInv, Shape
  <2>2. /\ GaveUp(s0)' = GaveUp(s0) \cup {j[2]} /\ j[2] \notin GaveUp(s0)
        /\ \A s \in Sessions \ {s0} : GaveUp(s)' = GaveUp(s)
    BY <2>1 DEF GaveUp
  <2>3. /\ Cardinality(GaveUp(s0) \cup {j[2]}) = Cardinality(GaveUp(s0)) + 1
        /\ Cardinality(GaveUp(s0)) \in Nat
    <3>1. IsFiniteSet(GaveUp(s0)) /\ Cardinality(GaveUp(s0)) \in Nat
      BY GaveUpFinite, FS_CardinalityType
    <3> QED BY <2>2, <3>1, FS_AddElement
  <2>4. list'[s0].size = slot[j].size + 1 /\ \A s \in Sessions \ {s0} : list'[s] = list[s]
    <3> DEFINE l == list[s0]
               k == [l EXCEPT !.size = slot[j].size + 1]
    <3>1. list' = [list EXCEPT ![s0] = k]
      BY <1>3 DEF AddStore
    <3>2. /\ l = [cap |-> l.cap, size |-> l.size]
          /\ list = [s \in Sessions |-> list[s]]
      BY DEF TInv, IInv, Shape
    <3>3. k.size = slot[j].size + 1
      BY <3>2
    <3> HIDE DEF k
    <3> QED BY <3>1, <3>2, <3>3
  <2>5. slot[j].size <= Cardinality(GaveUp(s0)) /\ slot[j].size \in Nat
    BY <2>1 DEF TInv, Room, IInv, Lists
  <2>6. \A s \in Sessions : /\ Cardinality(GaveUp(s)) \in Nat /\ list[s].size \in Nat
                            /\ list[s].size <= Cardinality(GaveUp(s))
    <3>1. \A s \in Sessions : Cardinality(GaveUp(s)) \in Nat
      BY GaveUpFinite, FS_CardinalityType
    <3> QED BY <3>1 DEF TInv, IInv, Lists, Room
  <2>7. \A s \in Sessions : IF s = s0 THEN Cardinality(GaveUp(s)') = Cardinality(GaveUp(s)) + 1
                                        ELSE GaveUp(s)' = GaveUp(s)
    BY <2>2, <2>3
  <2> HIDE DEF s0
  <2>8. ASSUME NEW s \in Sessions PROVE list'[s].size <= Cardinality(GaveUp(s)')
    BY <2>4, <2>5, <2>6, <2>7
  <2>9. ASSUME NEW k \in Jobs, pc'[k] = "store" PROVE slot'[k].size <= Cardinality(GaveUp(k[1])')
    <3>1. /\ slot'[k] = slot[k] /\ slot[k].size <= Cardinality(GaveUp(k[1]))
          /\ slot[k].size \in Nat /\ k[1] \in Sessions
      BY <2>1, <2>9 DEF TInv, Room, IInv, Lists
    <3> QED BY <2>6, <2>7, <3>1
  <2> QED BY <2>8, <2>9 DEF Room
<1> QED BY <1>1, <1>3, <1>4, <1>5, <1>6 DEF Adds

LEMMA ListsTypedStep == ASSUME TInv, Next PROVE ListsTyped'
<1> USE JobPairs
<1>0. ListsTyped /\ \A s \in Sessions : list[s].size \in 0..N
  BY GaveUpFinite, PoolAssumption DEF TInv, IInv, Lists, Room
<1>1. \A s \in Sessions : ret'[s] \in [how : {"none", "terminated", "timeout", "interrupted"},
                                       failures : 0..N]
  <2>1. CASE \E s \in Sessions, how \in {"terminated", "timeout", "interrupted"} : Return(s, how)
    BY <1>0, <2>1 DEF ListsTyped, Return, TInv, IInv, Shape
  <2>2. CASE ~\E s \in Sessions, how \in {"terminated", "timeout", "interrupted"} : Return(s, how)
    <3>1. ret' = ret
      BY <2>2 DEF Next, Submitter, Begin, Submit, Drained, Shutdown, Cancel, Take, Worker,
        CheckExisting, TryAgain, Prepare, Clear, Discard, Delete, Open, Close, IOFailure, Verify,
        AttemptFailed, AddEnsure, AddPublish, AddLoad, AddStore,
    AddOverflow
    <3> QED BY <1>0, <3>1 DEF ListsTyped
  <2> QED BY <2>1, <2>2
<1>2. CASE ~\E j \in Jobs : Adds(j)
  BY <1>0, <1>1, <1>2, Elsewhere DEF ListsTyped
<1>3. ASSUME NEW j \in Jobs, AddPublish(j) PROVE ListsTyped'
  <2> DEFINE k == [list[j[1]] EXCEPT !.cap = Grown(slot[j])]
  <2>1. list' = [list EXCEPT ![j[1]] = k] /\ UNCHANGED slot
    BY <1>3 DEF AddPublish
  <2>2. Grown(slot[j]) \in Nat
    BY <1>0, PoolAssumption DEF ListsTyped, Grown
  <2>3. list[j[1]] = [cap |-> list[j[1]].cap, size |-> list[j[1]].size]
    BY DEF TInv, IInv, Shape
  <2>4. k.cap = Grown(slot[j])
    BY <2>3
  <2> HIDE DEF k
  <2>5. list'[j[1]] = k /\ \A s \in Sessions \ {j[1]} : list'[s] = list[s]
    BY <2>1 DEF TInv, IInv, Shape
  <2> QED BY <1>0, <1>1, <2>1, <2>2, <2>4, <2>5 DEF ListsTyped
<1>4. ASSUME NEW j \in Jobs, AddEnsure(j) \/ AddLoad(j) PROVE ListsTyped'
  <2>1. /\ UNCHANGED list /\ \A k \in Jobs \ {j} : slot'[k] = slot[k]
        /\ slot'[j] = list[j[1]]
    BY <1>4 DEF AddEnsure, AddLoad, TInv, IInv, Shape
  <2>2. list[j[1]] \in [cap : Nat, size : 0..N]
    <3>1. list[j[1]] = [cap |-> list[j[1]].cap, size |-> list[j[1]].size]
      BY DEF TInv, IInv, Shape
    <3> QED BY <1>0, <3>1 DEF ListsTyped
  <2>3. \A k \in Jobs : slot'[k] \in [cap : Nat, size : 0..N]
    BY <1>0, <2>1, <2>2 DEF ListsTyped
  <2> QED BY <1>0, <1>1, <2>1, <2>3 DEF ListsTyped
<1>5. ASSUME NEW j \in Jobs, AddStore(j) PROVE ListsTyped'
  <2> DEFINE k == [list[j[1]] EXCEPT !.size = slot[j].size + 1]
  <2>1. list' = [list EXCEPT ![j[1]] = k] /\ UNCHANGED slot
    BY <1>5 DEF AddStore
  <2>2. list[j[1]] = [cap |-> list[j[1]].cap, size |-> list[j[1]].size]
    BY DEF TInv, IInv, Shape
  <2>3. k.cap = list[j[1]].cap
    BY <2>2
  <2> HIDE DEF k
  <2>4. list'[j[1]] = k /\ \A s \in Sessions \ {j[1]} : list'[s] = list[s]
    BY <2>1 DEF TInv, IInv, Shape
  <2> QED BY <1>0, <1>1, <2>1, <2>3, <2>4 DEF ListsTyped
<1> QED BY <1>2, <1>3, <1>4, <1>5 DEF Adds

\* The types of the state, among them that no job makes more than tryTimes
\* attempts and that failedFile.size() never exceeds the length of the download
\* list, however many workers overlap in add.  The length of the array of
\* failedFile is not bounded by it, nor are the adds by the array.
THEOREM Types == Spec => []TypeOK
<1>1. TInv /\ [Next]_vars => TInv'
  <2> SUFFICES ASSUME TInv, [Next]_vars PROVE TInv'
    OBVIOUS
  <2>1. IInv'
    BY InductiveStep DEF TInv
  <2>2. CASE Next
    BY <2>1, <2>2, FilesTypedStep, SubmittersTypedStep, JobsTypedStep, RoomKept,
      ListsTypedStep DEF TInv
  <2>3. CASE UNCHANGED vars
    BY <2>1, <2>3 DEF vars, TInv, FilesTyped, SubmittersTyped, JobsTyped, Room, GaveUp, ListsTyped
  <2> QED BY <2>2, <2>3
<1> QED BY <1>1, TypesInitially, TypeParts, PTL DEF Spec
=============================================================================
