---------------------------- MODULE TaskExecutor ----------------------------
(***************************************************************************)
(* The task framework: AsyncTaskExecutor turns a tree of Task objects into *)
(* a chain of CompletableFuture stages that run on the common pool.        *)
(*                                                                         *)
(*   executeTasks, executeTasksExceptionally -> EnterGroup, Outcomes       *)
(*   executeNormalTask           -> Begin .. Finish, one action per stage  *)
(*   executeCompletableFutureTask -> BeginFuture, EndFuture                *)
(*   start, cancel               -> start, EnterRoot, Stop, cancel         *)
(*                                                                         *)
(* Abstractions.  Results, stages, significance, logging and the task      *)
(* counter only feed the display.  No task of the repository overrides     *)
(* isRelyingOnDependencies or doPreExecute, and the one postExecute only   *)
(* repaints.  Exceptions are "error", "cancel" (CancellationException and  *)
(* InterruptedException) and "Error" (a java.lang.Error, which no stage of *)
(* the executor catches).                                                  *)
(***************************************************************************)
EXTENDS Naturals, Sequences

CONSTANTS
  Tasks,     \* the tasks of the tree
  Root,      \* firstTask
  Kind,      \* "plain", "finalizer" (whenComplete) or "future"
  Before,    \* getDependents()
  After,     \* getDependencies()
  Relying,   \* tasks whose isRelyingOnDependents() is true
  Faulty,    \* tasks whose execute(), or future, may end with an Exception
  Erring     \* tasks whose execute(), or future, may end with an Error

Subtasks(t) == Before[t] \cup After[t]

\* A tree: no task is the subtask of two others, nor in a circle
ASSUME TreeAssumption ==
  /\ Root \in Tasks /\ Relying \subseteq Tasks /\ Faulty \subseteq Tasks
  /\ Erring \subseteq Tasks
  /\ Kind \in [Tasks -> {"plain", "finalizer", "future"}]
  /\ Before \in [Tasks -> SUBSET Tasks] /\ After \in [Tasks -> SUBSET Tasks]
  /\ \A t \in Tasks : Kind[t] = "finalizer" =>
       (\E p \in Tasks : Before[t] = {p}) /\ After[t] = {} /\ t \notin Relying
  /\ \A t \in Tasks : Kind[t] = "future" => Before[t] = {} /\ After[t] = {}
  /\ \A t \in Tasks : Root \notin Subtasks(t) /\ Before[t] \cap After[t] = {}
  /\ \A p, q \in Tasks : p # q => Subtasks(p) \cap Subtasks(q) = {}
  /\ \A G \in (SUBSET Tasks) \ {{}} : \E t \in G : \A p \in G : t \notin Subtasks(p)

VARIABLES
  phase,      \* of the executor: "new", "started", "running", "stopped", "uncaught"
  reported,   \* what onStop told the listeners: "none", "success", "failure"
  cancelled,  \* the executor's flag
  exception,  \* TaskExecutor.exception
  stage,      \* the CompletableFuture stage each task is at
  state,      \* Task.state
  exc,        \* Task.exception
  depsOk,     \* Task.dependentsSucceeded
  met,        \* how the group of subtasks a task waited for ended
  out,        \* how the task's future completed
  heard,      \* what listeners were told of each task
  broken      \* tasks in which an assertion failed

executorVars == <<phase, reported, cancelled>>
taskVars == <<stage, state, exc, depsOk, met, out>>
vars == <<executorVars, exception, taskVars, heard, broken>>

Problems == {"error", "cancel"}
Stages == {"idle", "begin", "before", "waitBefore", "running", "after",
           "waitAfter", "finish", "future", "ended"}

Init ==
  /\ phase = "new" /\ reported = "none"
  /\ cancelled = FALSE /\ exception = "none"
  /\ stage = [t \in Tasks |-> "idle"]
  /\ state = [t \in Tasks |-> "READY"]
  /\ exc = [t \in Tasks |-> "none"]
  /\ depsOk = [t \in Tasks |-> FALSE]
  /\ met = [t \in Tasks |-> "none"]
  /\ out = [t \in Tasks |-> "none"]
  /\ heard = [t \in Tasks |-> <<>>]
  /\ broken = {}

Tell(t, event) == heard' = [heard EXCEPT ![t] = Append(@, event)]

-----------------------------------------------------------------------------
(* Groups of subtasks. *)

Ended_Any(G) == G = {} \/ \E t \in G : stage[t] = "ended"

Ended(G) == \A t \in G : stage[t] = "ended"

\* CompletableFuture.allOf waits for all, then has the problem of any of them
Outcomes(G) ==
  LET bad == {out[t] : t \in G} \ {"ok"} IN IF bad = {} THEN {"ok"} ELSE bad

EnterGroup_Uncompleted(t, from, G, wait) ==
  /\ stage[t] = from
  /\ IF cancelled /\ G # {}
     THEN /\ exc' = [u \in Tasks |-> IF u \in G THEN "cancel" ELSE exc[u]]
          /\ stage' = [stage EXCEPT ![t] = wait]
          /\ UNCHANGED met
     ELSE /\ stage' = [u \in Tasks |-> IF u = t THEN wait
                                      ELSE IF u \in G THEN "begin" ELSE stage[u]]
          /\ UNCHANGED <<exc, met>>
  /\ UNCHANGED <<executorVars, exception, state, depsOk, out, heard, broken>>

\* executeTasksExceptionally: t goes to `wait` with its subtasks begun, or,
\* when cancelled, straight on with a CancellationException
EnterGroup(t, from, G, wait) ==
  /\ stage[t] = from
  /\ IF cancelled /\ G # {}
     THEN /\ exc' = [u \in Tasks |-> IF u \in G THEN "cancel" ELSE exc[u]]
          /\ met' = [met EXCEPT ![t] = "cancel"]
          /\ stage' = [stage EXCEPT ![t] = wait]
     ELSE /\ stage' = [u \in Tasks |-> IF u = t THEN wait
                                      ELSE IF u \in G THEN "begin" ELSE stage[u]]
          /\ UNCHANGED <<exc, met>>
  /\ UNCHANGED <<executorVars, exception, state, depsOk, out, heard, broken>>

\* The group t waits for has ended with e
Joined(t, G, e) ==
  IF met[t] = "cancel" THEN e = "cancel" ELSE Ended(G) /\ e \in Outcomes(G)

-----------------------------------------------------------------------------
(* The stages of executeNormalTask. *)

Fails_Silent(t, e) ==
  /\ out' = [out EXCEPT ![t] = e]
  /\ stage' = [stage EXCEPT ![t] = "ended"]
  /\ state' = [state EXCEPT ![t] = "FAILED"]
  /\ UNCHANGED <<exc, exception, heard>>

\* .exceptionally: an Error passes through without a word to anybody
Fails(t, e) ==
  /\ out' = [out EXCEPT ![t] = e]
  /\ stage' = [stage EXCEPT ![t] = "ended"]
  /\ IF e \in Problems
     THEN /\ exc' = [exc EXCEPT ![t] = e]
          /\ exception' = e
          /\ state' = [state EXCEPT ![t] = "FAILED"]
          /\ Tell(t, "failed")
     ELSE UNCHANGED <<exc, exception, state, heard>>

Begin(t) ==
  /\ stage[t] = "begin" /\ Kind[t] # "future"
  /\ IF cancelled
     THEN Fails(t, "cancel")
     ELSE /\ stage' = [stage EXCEPT ![t] = "before"]
          /\ state' = [state EXCEPT ![t] = "READY"]
          /\ Tell(t, "ready")
          /\ UNCHANGED <<exc, exception, out>>
  /\ UNCHANGED <<executorVars, depsOk, met, broken>>

EnterBefore(t) == EnterGroup(t, "before", Before[t], "waitBefore")

JoinBefore(t) ==
  /\ stage[t] = "waitBefore"
  /\ \E e \in Problems \cup {"ok", "Error"} :
       /\ Joined(t, Before[t], e)
       /\ IF e = "Error" \/ (e \in Problems /\ t \in Relying)
          THEN Fails(t, e) /\ UNCHANGED depsOk
          ELSE /\ depsOk' = [depsOk EXCEPT ![t] = (e = "ok")]
               /\ exc' = IF e = "ok" THEN exc ELSE [exc EXCEPT ![t] = e]
               /\ stage' = [stage EXCEPT ![t] = "running"]
               /\ state' = [state EXCEPT ![t] = "RUNNING"]
               /\ Tell(t, "running")
               /\ UNCHANGED <<exception, out>>
  /\ met' = [met EXCEPT ![t] = "none"]
  /\ UNCHANGED <<executorVars, broken>>

Throws_Interrupted(t) ==
  {"ok"} \cup (IF t \in Faulty THEN {"error", "interrupted"} ELSE {})
         \cup (IF t \in Erring THEN {"Error"} ELSE {})

\* How execute() of a task ends.  whenComplete's checks its assertion, calls
\* the action, and throws again what the task before it threw.
Throws(t) ==
  {"ok"} \cup (IF t \in Faulty THEN {"error"} ELSE {})
         \cup (IF t \in Faulty /\ cancelled THEN {"cancel"} ELSE {})
         \cup (IF t \in Erring THEN {"Error"} ELSE {})

Asserts(t) ==
  Kind[t] = "finalizer" =>
    \A p \in Before[t] : depsOk[t] = (exc[p] = "none")

ExecuteOutcomes(t) ==
  IF ~Asserts(t) THEN {"Error"}
  ELSE IF Kind[t] = "finalizer" /\ ~depsOk[t]
  THEN (Throws(t) \ {"ok"}) \cup {exc[p] : p \in Before[t]}
  ELSE Throws(t)

execute(t) ==
  /\ stage[t] = "running"
  /\ broken' = IF Asserts(t) THEN broken ELSE broken \cup {t}
  /\ \E e \in ExecuteOutcomes(t) :
       IF e = "ok"
       THEN /\ stage' = [stage EXCEPT ![t] = "after"]
            /\ state' = [state EXCEPT ![t] = "EXECUTED"]
            /\ UNCHANGED <<exc, exception, out, heard>>
       ELSE IF e = "Error"
       THEN /\ stage' = [stage EXCEPT ![t] = "ended"]
            /\ state' = [state EXCEPT ![t] = "EXECUTED"]
            /\ out' = [out EXCEPT ![t] = e]
            /\ UNCHANGED <<exc, exception, heard>>
       ELSE Fails(t, e)
  /\ UNCHANGED <<executorVars, depsOk, met>>

EnterAfter(t) == EnterGroup(t, "after", After[t], "waitAfter")

JoinAfter(t) ==
  /\ stage[t] = "waitAfter"
  /\ \E e \in Problems \cup {"ok", "Error"} :
       /\ Joined(t, After[t], e)
       /\ IF e = "Error"
          THEN Fails(t, e) /\ met' = [met EXCEPT ![t] = "none"]
          ELSE /\ met' = [met EXCEPT ![t] = e]
               /\ stage' = [stage EXCEPT ![t] = "finish"]
               /\ UNCHANGED <<exc, exception, out, state, heard>>
  /\ UNCHANGED <<executorVars, depsOk, broken>>

Succeeds(t) ==
  /\ stage' = [stage EXCEPT ![t] = "ended"]
  /\ state' = [state EXCEPT ![t] = "SUCCEEDED"]
  /\ out' = [out EXCEPT ![t] = "ok"]
  /\ Tell(t, "finished")
  /\ UNCHANGED <<exc, exception>>

Finish_Tolerant(t) ==
  /\ stage[t] = "finish"
  /\ IF cancelled THEN Fails(t, "cancel") ELSE Succeeds(t)
  /\ UNCHANGED <<executorVars, depsOk, met, broken>>

Finish_NotCancelled(t) ==
  /\ stage[t] = "finish"
  /\ IF met[t] # "ok" THEN Fails(t, met[t]) ELSE Succeeds(t)
  /\ UNCHANGED <<executorVars, depsOk, met, broken>>

\* checkCancellation() and the reports after it are one step: cancel() may come
\* before the check, or after all is over.
Finish(t) ==
  /\ stage[t] = "finish"
  /\ IF met[t] # "ok" THEN Fails(t, met[t])
     ELSE IF cancelled THEN Fails(t, "cancel")
     ELSE Succeeds(t)
  /\ UNCHANGED <<executorVars, depsOk, met, broken>>

-----------------------------------------------------------------------------
(* executeCompletableFutureTask: the future is somebody else's. *)

\* .exceptionally of an Exception: a cancelled future is left without one
FutureFails(t, e) ==
  /\ out' = [out EXCEPT ![t] = e]
  /\ stage' = [stage EXCEPT ![t] = "ended"]
  /\ exc' = [exc EXCEPT ![t] = IF e = "cancel" THEN "none" ELSE e]
  /\ exception' = IF e = "cancel" THEN exception ELSE e
  /\ state' = [state EXCEPT ![t] = "FAILED"]
  /\ Tell(t, "failed")

BeginFuture(t) ==
  /\ stage[t] = "begin" /\ Kind[t] = "future"
  /\ IF cancelled
     THEN FutureFails(t, "cancel")
     ELSE /\ stage' = [stage EXCEPT ![t] = "future"]
          /\ state' = [state EXCEPT ![t] = "READY"]
          /\ Tell(t, "ready")
          /\ UNCHANGED <<exc, exception, out>>
  /\ UNCHANGED <<executorVars, depsOk, met, broken>>

EndFuture(t) ==
  /\ stage[t] = "future"
  /\ \E e \in {"ok"} \cup (IF t \in Faulty THEN Problems ELSE {})
                    \cup (IF t \in Erring THEN {"Error"} ELSE {}) :
       IF e = "Error" THEN Fails(t, e)
       ELSE IF e # "ok" THEN FutureFails(t, e)
       ELSE IF cancelled THEN FutureFails(t, "cancel")
       ELSE Succeeds(t)
  /\ UNCHANGED <<executorVars, depsOk, met, broken>>

-----------------------------------------------------------------------------
(* The executor. *)

start ==
  /\ phase = "new" /\ phase' = "started"
  /\ UNCHANGED <<reported, cancelled, exception, taskVars, heard, broken>>

cancel ==
  /\ phase # "new" /\ ~cancelled     \* throws before start, is idle after
  /\ cancelled' = TRUE
  /\ UNCHANGED <<phase, reported, exception, taskVars, heard, broken>>

\* executeTasks(null, {firstTask})
EnterRoot ==
  /\ phase = "started"
  /\ IF cancelled
     THEN /\ exc' = [exc EXCEPT ![Root] = "cancel"]
          /\ phase' = "stopped" /\ reported' = "failure"
          /\ UNCHANGED stage
     ELSE /\ phase' = "running"
          /\ stage' = [stage EXCEPT ![Root] = "begin"]
          /\ UNCHANGED <<exc, reported>>
  /\ UNCHANGED <<cancelled, exception, state, depsOk, met, out, heard, broken>>

\* onStop, or, for an Error, Lang.handleUncaughtException alone
Stop ==
  /\ phase = "running" /\ stage[Root] = "ended"
  /\ IF out[Root] = "Error"
     THEN phase' = "uncaught" /\ UNCHANGED reported
     ELSE /\ phase' = "stopped"
          /\ reported' = IF out[Root] = "ok" THEN "success" ELSE "failure"
  /\ UNCHANGED <<cancelled, exception, taskVars, heard, broken>>

Run(t) ==
  \/ Begin(t) \/ EnterBefore(t) \/ JoinBefore(t) \/ execute(t)
  \/ EnterAfter(t) \/ JoinAfter(t) \/ Finish(t)
  \/ BeginFuture(t) \/ EndFuture(t)

Next == start \/ cancel \/ EnterRoot \/ Stop \/ \E t \in Tasks : Run(t)

Spec == Init /\ [][Next]_vars

\* The pool runs every stage it is given, every execute() returns, and every
\* future the executor is given from outside completes.
FairSpec ==
  /\ Spec
  /\ WF_vars(EnterRoot) /\ WF_vars(Stop)
  /\ \A t \in Tasks : WF_vars(Run(t))

-----------------------------------------------------------------------------
(* Properties. *)

TypeOK ==
  /\ phase \in {"new", "started", "running", "stopped", "uncaught"}
  /\ reported \in {"none", "success", "failure"}
  /\ cancelled \in BOOLEAN /\ exception \in Problems \cup {"none"}
  /\ stage \in [Tasks -> Stages]
  /\ state \in [Tasks -> {"READY", "RUNNING", "EXECUTED", "SUCCEEDED", "FAILED"}]
  /\ exc \in [Tasks -> Problems \cup {"none"}]
  /\ depsOk \in [Tasks -> BOOLEAN]
  /\ met \in [Tasks -> Problems \cup {"none", "ok"}]
  /\ out \in [Tasks -> Problems \cup {"none", "ok", "Error"}]
  /\ broken \subseteq Tasks

\* executeTasks joins with allOf: when listeners hear onStop, or the Error was
\* handled, no task of the tree is still at work, however it failed.
QuietAfterStop ==
  phase \in {"stopped", "uncaught"} =>
    \A t \in Tasks : stage[t] \in {"idle", "ended"}

\* getDependents "should execute before this task running", getDependencies
\* "after this task running", "not executed if execution fails": who is at work
\* while a task waits, runs or has failed.
TreeOrder ==
  \A t \in Tasks :
    /\ stage[t] \in {"running", "after", "waitAfter", "finish"} =>
         \A d \in Before[t] : /\ stage[d] \in {"idle", "ended"}
                              /\ t \in Relying => out[d] = "ok"
    /\ state[t] \in {"READY", "RUNNING"} => \A d \in After[t] : stage[d] = "idle"
    /\ stage[t] = "ended" =>
         \A d \in Before[t] \cup After[t] : stage[d] \in {"idle", "ended"}

Needed(t) == After[t] \cup IF t \in Relying THEN Before[t] ELSE {}

\* onStop(true): every task the root relies on, however deep, has succeeded.
SuccessComplete ==
  reported = "success" =>
    /\ state[Root] = "SUCCEEDED"
    /\ \A t \in Tasks : state[t] = "SUCCEEDED" =>
                          \A d \in Needed(t) : state[d] = "SUCCEEDED"

\* onStop(false): the executor knows the exception, unless it was cancelled, and
\* blames a cancellation only if somebody cancelled a future of the tree.
FailureExplained ==
  reported = "failure" /\ ~cancelled =>
    \/ exception = "error"
    \/ exception = "cancel" /\ \E t \in Tasks : Kind[t] = "future" /\ out[t] = "cancel"

\* Every task listeners saw getting ready is reported finished or failed, once and
\* last, before the chain is reported stopped.  The stages handle Exceptions only:
\* excepted is a task that ended with an Error, of its own or of a subtask.  No
\* end of it is ever reported, even if onStop is called, for an Exception of a task
\* beside it.
AllHeard ==
  phase = "stopped" =>
    \A t \in Tasks :
      LET n == Len(heard[t])
          ends == {i \in 1..n : heard[t][i] \in {"finished", "failed"}}
      IN IF out[t] = "Error" THEN ends = {} ELSE n > 0 => ends = {n}

\* What onStop says is so: a success is complete and a failure has a reason.
StopTrue == SuccessComplete /\ FailureExplained

\* After onStop no task is at work and every one that was has been heard of.
StopLast == QuietAfterStop /\ AllHeard

\* A cancel() that comes before the root is done, that is before its last
\* checkCancellation(), is never answered by success.
CancelWins ==
  [](cancelled /\ stage[Root] # "ended" => [](reported # "success"))

\* TaskListener.onStop: "Executed when the task execution chain stopped."  Every
\* chain that starts comes to its onStop, unless an Error has come through to the
\* root's own future: beside an Exception it need not.
StopHeard == phase = "started" ~> (reported # "none" \/ out[Root] = "Error")

\* Task.whenComplete asserts "When whenComplete succeeded, Task.exception must
\* be null."
AssertionHolds == broken = {}
=============================================================================
