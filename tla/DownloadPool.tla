---------------------------- MODULE DownloadPool ----------------------------
(***************************************************************************)
(* The parallel downloader that the installers, the launch check and the   *)
(* DownloadTask dialog each carry a copy of: one submitter (the background *)
(* thread of an Android AsyncTask) feeds a fixed thread pool whose bounded *)
(* queue discards silently when full, waits for it, and hands back the     *)
(* list of files whose download failed.                                    *)
(*                                                                         *)
(*   DownloadUtil.downloadMultipleFiles, DownloadTask.doInBackground and   *)
(*   CheckLibTask.doInBackground  -> the submitter and its worker jobs     *)
(*   DownloadTask.downloadFileMonitored / isRightFile -> one attempt       *)
(*                                                                         *)
(* A session is one execution of such a task.  CheckLibTask runs on        *)
(* AsyncTask.THREAD_POOL_EXECUTOR, so a session may begin while the        *)
(* workers of an earlier, cancelled one are still alive.                   *)
(*                                                                         *)
(* Abstractions.  File contents are "absent", "partial" (anything with the *)
(* wrong bytes) or "right".  Computing a hash is one step.  Progress and   *)
(* speed callbacks only repaint and are left out.                          *)
(***************************************************************************)
EXTENDS Naturals, Sequences, FiniteSets

CONSTANTS
  N,            \* length of the download list
  Paths,        \* target files
  PathOf,       \* the target file of each list entry
  Hashed,       \* files whose list entry carries a sha1
  Sessions,     \* executions of the task
  MaxTask,      \* pool size and queue capacity
  TryTimes,     \* attempts per entry (5 in the code)
  FilterFirst,  \* TRUE: CheckLibTask, which lists only files that look wrong
  FirstCapacity \* of the array of an ArrayList that was empty (10 in Java)

Entries == 1..N
Jobs == Sessions \X Entries

ASSUME PoolAssumption ==
  /\ N \in Nat \ {0}
  /\ PathOf \in [Entries -> Paths]
  /\ Hashed \subseteq Paths
  /\ MaxTask \in Nat \ {0}
  /\ TryTimes \in Nat \ {0}
  /\ FilterFirst \in BOOLEAN
  /\ FirstCapacity \in Nat \ {0}

VARIABLES
  file,       \* contents of every target file
  sub,        \* where the submitter of each session is
  pending,    \* list entries the submitter has not yet handed over
  cancelled,  \* AsyncTask.isCancelled()
  pool,       \* run state of the ThreadPoolExecutor
  queue,      \* its ArrayBlockingQueue
  pc,         \* where each job is
  tries,      \* attempts each job has finished
  stream,     \* the job's FileOutputStream: "closed", "open" or "orphan"
  list,       \* failedFile, the unsynchronised ArrayList of each session:
              \*   the length of its array and its size (nobody reads its elements)
  slot,       \* what a job inside ArrayList.add has read of the two
  ret,        \* how awaitTermination returned, and failedFile.size() at that time
  alone       \* history: no other session had live jobs while this one ran

vars == <<file, sub, pending, cancelled, pool, queue, pc, tries, stream,
          list, slot, ret, alone>>

-----------------------------------------------------------------------------
Contents == {"absent", "partial", "right"}

IsRight(p) ==
  \/ file[p] = "right"
  \/ p \notin Hashed /\ file[p] # "absent"

\* `exists() && Objects.equals(getFileSha1(path), sha1)`: never true without a sha1
SkipsDownload(p) == file[p] = "right" /\ p \in Hashed

Transferring == {"prepare", "clear", "connect", "write", "verify", "discard", "failed"}
Adding == {"ensure", "publish", "load", "store", "crashed"}
Active == {"check", "loop"} \cup Transferring \cup Adding

ActiveJobs(s) == {e \in Entries : pc[<<s, e>>] \in Active}
Handed(s) == {e \in Entries : pc[<<s, e>>] # "none"}
Running(s) == sub[s] \in {"submit", "drain", "await"}
Terminated(s) == pool[s] # "running" /\ queue[s] = <<>> /\ ActiveJobs(s) = {}

\* An exception that leaves a job ends the process: no handler is installed for it.
Alive == \A j \in Jobs : pc[j] # "crashed"

Goto(j, from, to) == pc[j] = from /\ pc' = [pc EXCEPT ![j] = to]

\* Streams still attached to path p lose their file when p is deleted.
Orphan(p) ==
  stream' = [j \in Jobs |-> IF PathOf[j[2]] = p /\ stream[j] = "open"
                              THEN "orphan" ELSE stream[j]]

EmptyList == [cap |-> 0, size |-> 0]

Init ==
  /\ file \in [Paths -> Contents]
  /\ sub = [s \in Sessions |-> "idle"]
  /\ pending = [s \in Sessions |-> {}]
  /\ cancelled = [s \in Sessions |-> FALSE]
  /\ pool = [s \in Sessions |-> "running"]
  /\ queue = [s \in Sessions |-> <<>>]
  /\ pc = [j \in Jobs |-> "none"]
  /\ tries = [j \in Jobs |-> 0]
  /\ stream = [j \in Jobs |-> "closed"]
  /\ list = [s \in Sessions |-> EmptyList]
  /\ slot = [j \in Jobs |-> EmptyList]
  /\ ret = [s \in Sessions |-> [how |-> "none", failures |-> 0]]
  /\ alone = [s \in Sessions |-> FALSE]

-----------------------------------------------------------------------------
(* The submitter.                                                          *)

\* doInBackground starts: the list is fixed and the pool created.
Begin(s) ==
  /\ sub[s] = "idle"
  /\ sub' = [sub EXCEPT ![s] = "submit"]
  /\ pending' = [pending EXCEPT ![s] =
       {e \in Entries : FilterFirst => ~IsRight(PathOf[e])}]
  /\ alone' = [t \in Sessions |->
       IF t = s THEN \A u \in Sessions \ {s} : ~Running(u) /\ ActiveJobs(u) = {}
                ELSE alone[t] /\ ~Running(t)]
  /\ UNCHANGED <<file, cancelled, pool, queue, pc, tries, stream, list, slot, ret>>

FirstStep == IF FilterFirst THEN "loop" ELSE "check"

\* ThreadPoolExecutor.execute: a new thread while there are fewer than MaxTask,
\* then the queue; DiscardPolicy drops the job when the queue is full or the
\* pool stopped.
execute(s, e) ==
  \/ /\ pool[s] = "running"
     /\ Cardinality(Handed(s)) < MaxTask
     /\ pc' = [pc EXCEPT ![<<s, e>>] = FirstStep]
     /\ UNCHANGED queue
  \/ /\ pool[s] = "running"
     /\ Cardinality(Handed(s)) >= MaxTask
     /\ Len(queue[s]) < MaxTask
     /\ pc' = [pc EXCEPT ![<<s, e>>] = "queued"]
     /\ queue' = [queue EXCEPT ![s] = Append(@, e)]
  \/ /\ \/ pool[s] # "running"
        \/ Cardinality(Handed(s)) >= MaxTask /\ Len(queue[s]) >= MaxTask
     /\ pc' = [pc EXCEPT ![<<s, e>>] = "dropped"]
     /\ UNCHANGED queue

\* The list is gone through in order.
Submit(s) ==
  /\ sub[s] = "submit"
  /\ \E e \in pending[s] :
       /\ \A d \in pending[s] : e <= d
       /\ pending' = [pending EXCEPT ![s] = @ \ {e}]
       /\ execute(s, e)
  /\ sub' = [sub EXCEPT ![s] = "drain"]
  /\ UNCHANGED <<file, cancelled, pool, tries, stream, list, slot, ret, alone>>

Drained_NoWait(s) ==
  /\ sub[s] = "drain"
  /\ sub' = [sub EXCEPT ![s] = "submit"]
  /\ UNCHANGED <<file, pending, cancelled, pool, queue, pc, tries, stream, list, slot, ret, alone>>

\* while (!workQueue.isEmpty());
Drained(s) ==
  /\ sub[s] = "drain"
  /\ queue[s] = <<>>
  /\ sub' = [sub EXCEPT ![s] = "submit"]
  /\ UNCHANGED <<file, pending, cancelled, pool, queue, pc, tries, stream, list, slot, ret, alone>>

Shutdown_Forgotten(s) ==
  /\ sub[s] = "submit"
  /\ pending[s] = {}
  /\ sub' = [sub EXCEPT ![s] = "await"]
  /\ UNCHANGED <<file, pending, cancelled, pool, queue, pc, tries, stream, list, slot, ret, alone>>

Shutdown(s) ==
  /\ sub[s] = "submit"
  /\ pending[s] = {}
  /\ pool' = [pool EXCEPT ![s] = IF @ = "running" THEN "shutdown" ELSE @]
  /\ sub' = [sub EXCEPT ![s] = "await"]
  /\ UNCHANGED <<file, pending, cancelled, queue, pc, tries, stream, list, slot, ret, alone>>

\* awaitTermination(1, HOURS): terminated, timed out (its result is not looked
\* at) or interrupted by AsyncTask.cancel(true).
Return(s, how) ==
  /\ sub[s] = "await"
  /\ \/ how = "terminated" /\ Terminated(s)
     \/ how = "timeout" /\ ~Terminated(s)
     \/ how = "interrupted" /\ ~Terminated(s) /\ cancelled[s]
  /\ ret' = [ret EXCEPT ![s] = [how |-> how, failures |-> list[s].size]]
  /\ sub' = [sub EXCEPT ![s] = "done"]
  /\ UNCHANGED <<file, pending, cancelled, pool, queue, pc, tries, stream, list, slot, alone>>

\* The owner of the AsyncTask calls cancel(true).
Cancel(s) ==
  /\ Running(s)
  /\ ~cancelled[s]
  /\ cancelled' = [cancelled EXCEPT ![s] = TRUE]
  /\ UNCHANGED <<file, sub, pending, pool, queue, pc, tries, stream, list, slot, ret, alone>>

-----------------------------------------------------------------------------
(* A worker thread running one job.                                        *)

Take(s) ==
  /\ queue[s] # <<>>
  /\ Cardinality(ActiveJobs(s)) < MaxTask
  /\ pc' = [pc EXCEPT ![<<s, Head(queue[s])>>] = FirstStep]
  /\ queue' = [queue EXCEPT ![s] = Tail(@)]
  /\ UNCHANGED <<file, sub, pending, cancelled, pool, tries, stream, list, slot, ret, alone>>

\* The job skips a file that is already there with the right hash.
CheckExisting(j) ==
  /\ Goto(j, "check", IF SkipsDownload(PathOf[j[2]]) THEN "done" ELSE "loop")
  /\ UNCHANGED <<file, sub, pending, cancelled, pool, queue, tries, stream, list, slot, ret, alone>>

\* Top of the retry loop: a cancelled task shuts the pool down and leaves.
TryAgain(j) ==
  LET s == j[1] IN
  /\ pc[j] = "loop"
  /\ \/ /\ cancelled[s]
        /\ pool' = [pool EXCEPT ![s] = "stop"]
        /\ queue' = [queue EXCEPT ![s] = <<>>]
        /\ pc' = [k \in Jobs |-> IF k = j THEN "quit"
                                 ELSE IF k[1] = s /\ pc[k] = "queued" THEN "dropped" ELSE pc[k]]
     \/ /\ ~cancelled[s]
        /\ pc' = [pc EXCEPT ![j] = "prepare"]
        /\ UNCHANGED <<pool, queue>>
  /\ UNCHANGED <<file, sub, pending, cancelled, tries, stream, list, slot, ret, alone>>

\* downloadFileMonitored: an existing file that is not right is deleted first.
Prepare(j) ==
  LET p == PathOf[j[2]] IN
  /\ Goto(j, "prepare", IF file[p] # "absent" /\ ~IsRight(p) THEN "clear" ELSE "connect")
  /\ UNCHANGED <<file, sub, pending, cancelled, pool, queue, tries, stream, list, slot, ret, alone>>

Delete(j, from, to) ==
  /\ Goto(j, from, to)
  /\ file' = [file EXCEPT ![PathOf[j[2]]] = "absent"]
  /\ Orphan(PathOf[j[2]])
  /\ UNCHANGED <<sub, pending, cancelled, pool, queue, tries, list, slot, ret, alone>>

Clear(j) == Delete(j, "clear", "connect")

\* The connection is up: new FileOutputStream(file) truncates what is there.
Open(j) ==
  /\ Goto(j, "connect", "write")
  /\ file' = [file EXCEPT ![PathOf[j[2]]] = "partial"]
  /\ stream' = [stream EXCEPT ![j] = "open"]
  /\ UNCHANGED <<sub, pending, cancelled, pool, queue, tries, list, slot, ret, alone>>

\* The body ends.  What it leaves in the file depends on the server and on
\* other jobs writing the same path; an orphan's bytes go nowhere.
Close(j) ==
  LET p == PathOf[j[2]] IN
  /\ Goto(j, "write", "verify")
  /\ \/ stream[j] = "open" /\ \E c \in {"partial", "right"} : file' = [file EXCEPT ![p] = c]
     \/ stream[j] = "orphan" /\ UNCHANGED file
  /\ stream' = [stream EXCEPT ![j] = "closed"]
  /\ UNCHANGED <<sub, pending, cancelled, pool, queue, tries, list, slot, ret, alone>>

\* IOException while connecting or while copying: the file stays as it is.
IOFailure(j) ==
  LET p == PathOf[j[2]] IN
  /\ pc[j] \in {"connect", "write"}
  /\ pc' = [pc EXCEPT ![j] = "failed"]
  /\ \/ UNCHANGED file
     \/ stream[j] = "open" /\ file' = [file EXCEPT ![p] = "partial"]
  /\ stream' = [stream EXCEPT ![j] = "closed"]
  /\ UNCHANGED <<sub, pending, cancelled, pool, queue, tries, list, slot, ret, alone>>

Verify_AnyFile(j) ==
  /\ Goto(j, "verify", IF file[PathOf[j[2]]] # "absent" THEN "done" ELSE "discard")
  /\ UNCHANGED <<file, sub, pending, cancelled, pool, queue, tries, stream, list, slot, ret, alone>>

\* isRightFile after the copy, then delete() of a wrong file: two steps.
Verify(j) ==
  /\ Goto(j, "verify", IF IsRight(PathOf[j[2]]) THEN "done" ELSE "discard")
  /\ UNCHANGED <<file, sub, pending, cancelled, pool, queue, tries, stream, list, slot, ret, alone>>

Discard(j) == Delete(j, "discard", "failed")

AttemptFailed_OneMore(j) ==
  /\ Goto(j, "failed", IF tries[j] = TryTimes THEN "ensure" ELSE "loop")
  /\ tries' = [tries EXCEPT ![j] = @ + 1]
  /\ UNCHANGED <<file, sub, pending, cancelled, pool, queue, stream, list, slot, ret, alone>>

AttemptFailed_NotRecorded(j) ==
  /\ Goto(j, "failed", IF tries[j] + 1 = TryTimes THEN "quit" ELSE "loop")
  /\ tries' = [tries EXCEPT ![j] = @ + 1]
  /\ UNCHANGED <<file, sub, pending, cancelled, pool, queue, stream, list, slot, ret, alone>>

\* The attempt returned false: loop, or record the failure after the last one.
AttemptFailed(j) ==
  /\ Goto(j, "failed", IF tries[j] + 1 = TryTimes THEN "ensure" ELSE "loop")
  /\ tries' = [tries EXCEPT ![j] = @ + 1]
  /\ UNCHANGED <<file, sub, pending, cancelled, pool, queue, stream, list, slot, ret, alone>>

-----------------------------------------------------------------------------
(* failedFile.add(bean) on an ArrayList shared without a lock: grow the    *)
(* array if it has no room, read array and size, then store the element.   *)
(* Growing computes the new length from what was read before, so a thread  *)
(* that lags behind replaces the array of the others by a shorter one; and *)
(* the index read last may lie beyond the array.                           *)

AddEnsure(j) ==
  LET l == list[j[1]] IN
  /\ Goto(j, "ensure", IF l.size + 1 > l.cap THEN "publish" ELSE "load")
  /\ slot' = [slot EXCEPT ![j] = l]
  /\ UNCHANGED <<file, sub, pending, cancelled, pool, queue, tries, stream, list, ret, alone>>

\* ArrayList.grow: half as long again, FirstCapacity at first, at least as long as needed.
Grown(l) ==
  LET c == IF l.cap = 0 THEN FirstCapacity ELSE l.cap + l.cap \div 2
  IN  IF c < l.size + 1 THEN l.size + 1 ELSE c

AddPublish(j) ==
  /\ Goto(j, "publish", "load")
  /\ list' = [list EXCEPT ![j[1]].cap = Grown(slot[j])]
  /\ UNCHANGED <<file, sub, pending, cancelled, pool, queue, tries, stream, slot, ret, alone>>

AddLoad(j) ==
  /\ Goto(j, "load", "store")
  /\ slot' = [slot EXCEPT ![j] = list[j[1]]]
  /\ UNCHANGED <<file, sub, pending, cancelled, pool, queue, tries, stream, list, ret, alone>>

AddStore(j) ==
  /\ Goto(j, "store", "gaveup")
  /\ slot[j].size < slot[j].cap
  /\ list' = [list EXCEPT ![j[1]].size = slot[j].size + 1]
  /\ UNCHANGED <<file, sub, pending, cancelled, pool, queue, tries, stream, slot, ret, alone>>

\* ArrayIndexOutOfBoundsException, which nothing in the job catches.
AddOverflow(j) ==
  /\ Goto(j, "store", "crashed")
  /\ slot[j].size >= slot[j].cap
  /\ UNCHANGED <<file, sub, pending, cancelled, pool, queue, tries, stream, list, slot, ret, alone>>

-----------------------------------------------------------------------------
Submitter(s) ==
  \/ Begin(s) \/ Submit(s) \/ Drained(s) \/ Shutdown(s)
  \/ \E how \in {"terminated", "timeout", "interrupted"} : Return(s, how)

Worker(j) ==
  \/ CheckExisting(j) \/ TryAgain(j) \/ Prepare(j) \/ Clear(j)
  \/ Open(j) \/ Close(j) \/ IOFailure(j) \/ Verify(j) \/ Discard(j) \/ AttemptFailed(j)
  \/ AddEnsure(j) \/ AddPublish(j) \/ AddLoad(j) \/ AddStore(j) \/ AddOverflow(j)

Next ==
  /\ Alive
  /\ \/ \E s \in Sessions : Submitter(s) \/ Cancel(s) \/ Take(s)
     \/ \E j \in Jobs : Worker(j)

Spec == Init /\ [][Next]_vars

\* Threads run, and every transfer ends one way or the other.  Nothing is assumed
\* of the one-hour limit or of the user.
Fairness ==
  /\ \A s \in Sessions : /\ WF_vars(Alive /\ (Submit(s) \/ Drained(s) \/ Shutdown(s)))
                         /\ WF_vars(Alive /\ Return(s, "terminated"))
                         /\ WF_vars(Alive /\ Take(s))
  /\ \A j \in Jobs : WF_vars(Alive /\ Worker(j))

FairSpec == Spec /\ Fairness
-----------------------------------------------------------------------------
GaveUp(s) == {e \in Entries : pc[<<s, e>>] = "gaveup"}

TypeOK ==
  /\ file \in [Paths -> Contents]
  /\ sub \in [Sessions -> {"idle", "submit", "drain", "await", "done"}]
  /\ pending \in [Sessions -> SUBSET Entries]
  /\ cancelled \in [Sessions -> BOOLEAN]
  /\ pool \in [Sessions -> {"running", "shutdown", "stop"}]
  /\ queue \in [Sessions -> Seq(Entries)]
  /\ pc \in [Jobs -> Active \cup {"none", "queued", "dropped", "quit", "done", "gaveup"}]
  /\ tries \in [Jobs -> 0..TryTimes]
  /\ stream \in [Jobs -> {"closed", "open", "orphan"}]
  /\ list \in [Sessions -> [cap : Nat, size : 0..N]]
  /\ slot \in [Jobs -> [cap : Nat, size : 0..N]]
  /\ ret \in [Sessions -> [how : {"none", "terminated", "timeout", "interrupted"},
                           failures : 0..N]]
  /\ alone \in [Sessions -> BOOLEAN]

\* The pool's DiscardPolicy throws jobs away without a trace.  Waiting for the
\* queue to empty after every execute() must keep it from ever doing so: only a
\* cancelled session loses a list entry unattempted.
NothingDiscarded ==
  \A s \in Sessions : ~cancelled[s] => \A e \in Entries : pc[<<s, e>>] # "dropped"

\* Callers only look at failedFile.size() > 0.  However the unsynchronised adds
\* overlap, a session whose pool has terminated has a non-empty list exactly when
\* some job used up its attempts.
FailureNoticed ==
  \A s \in Sessions : ret[s].how = "terminated" => (ret[s].failures > 0 <=> GaveUp(s) # {})

\* A session that ends by itself with an empty list leaves every file it was asked
\* for, and that has a sha1, in place with the right contents -- also when several
\* entries name one path (assets sharing a hash).  Excepted are the sessions that
\* overlapped another one: workers of a cancelled launch check may still truncate.
CleanReturn ==
  \A s \in Sessions :
    /\ ret[s] = [how |-> "terminated", failures |-> 0] /\ ~cancelled[s] /\ alone[s]
    => \A e \in Entries : PathOf[e] \in Hashed => file[PathOf[e]] = "right"

\* The list a session returns can be believed, however its workers raced: not
\* empty if a job gave up, and if it is empty the files are there and right.
ListTrue == FailureNoticed /\ CleanReturn

\* Every session that begins comes to an end, cancelled or not.  Excepted is the
\* process that an add past the end of the unlocked list has killed.
SessionEnds == \A s \in Sessions : (sub[s] = "submit") ~> (sub[s] = "done" \/ ~Alive)
=============================================================================
