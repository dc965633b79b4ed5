--------------------------- MODULE TaskExecutorProofs ---------------------------
(***************************************************************************)
(* What AsyncTaskExecutor promises of any tree of tasks.                   *)
(*                                                                         *)
(* A task's subtasks leave "idle" only while the task waits for them, and  *)
(* have ended when it goes on (Family).  So of the tasks at work one has   *)
(* no parent at work, and that is the root: once the root has ended, none  *)
(* is.  What a future completed with follows the same way up the tree      *)
(* (Result, Blame), and down from onStop to the root (Phases).             *)
(***************************************************************************)
EXTENDS TaskExecutor, TLAPS

Idle(G) == \A d \in G : stage[d] = "idle"
Quiet(G) == \A d \in G : stage[d] \in {"idle", "ended"}

\* Where the subtasks of t are.
Family(t) ==
  /\ stage[t] \in {"idle", "begin", "before", "future"} => Idle(Subtasks(t))
  /\ stage[t] = "waitBefore" => /\ Idle(After[t])
                                /\ met[t] = "cancel" => Idle(Before[t])
  /\ stage[t] \in {"running", "after"} => Quiet(Before[t]) /\ Idle(After[t])
  /\ stage[t] = "waitAfter" => /\ Quiet(Before[t])
                               /\ met[t] = "cancel" => Idle(After[t])
  /\ stage[t] \in {"finish", "ended"} => Quiet(Subtasks(t))
  /\ stage[t] = "ended" /\ state[t] \in {"READY", "RUNNING"} => Idle(After[t])
  /\ stage[t] \in {"after", "waitAfter", "finish"} => state[t] = "EXECUTED"
  /\ stage[t] \in {"idle", "begin", "before", "running", "after", "future"} => met[t] = "none"
  /\ stage[t] = "future" => Kind[t] = "future"
  /\ stage[t] # "idle" => t = Root \/ \E p \in Tasks : t \in Subtasks(p)

\* What t knows of its subtasks, and what its future says of them.
Result(t) ==
  /\ t \in Relying /\ stage[t] \in {"running", "after", "waitAfter", "finish"} =>
       \A d \in Before[t] : out[d] = "ok"
  /\ stage[t] = "finish" =>
       /\ met[t] # "none"
       /\ met[t] = "ok" => \A d \in After[t] : out[d] = "ok"
  /\ out[t] = "none" <=> stage[t] # "ended"
  /\ out[t] = "ok" <=> state[t] = "SUCCEEDED"
  /\ out[t] = "ok" => \A d \in Needed(t) : out[d] = "ok"

Phases ==
  /\ phase \in {"new", "started"} => Idle(Tasks) /\ reported = "none"
  /\ phase = "running" => stage[Root] # "idle" /\ reported = "none"
  /\ phase = "uncaught" => stage[Root] = "ended" /\ out[Root] = "Error" /\ reported = "none"
  /\ phase = "stopped" =>
       \/ cancelled /\ Idle(Tasks) /\ reported = "failure"
       \/ /\ stage[Root] = "ended" /\ out[Root] # "Error"
          /\ reported = IF out[Root] = "ok" THEN "success" ELSE "failure"

\* A future of the tree was cancelled by somebody else.
Blamed == \E u \in Tasks : Kind[u] = "future" /\ out[u] = "cancel"

Blame ==
  /\ \A t \in Tasks : Kind[t] # "future" /\ out[t] \in Problems => exception # "none"
  /\ ~cancelled /\ ~Blamed =>
       exception # "cancel" /\ \A t \in Tasks : "cancel" \notin {out[t], exc[t], met[t]}

IInv == TypeOK /\ (\A t \in Tasks : Family(t) /\ Result(t)) /\ Phases /\ Blame

-----------------------------------------------------------------------------
\* Types

LEMMA FailsTypes ==
  ASSUME TypeOK, NEW t \in Tasks, NEW e \in Problems \cup {"none", "ok", "Error"},
         Fails(t, e) \/ (e \in Problems /\ FutureFails(t, e)) \/ Succeeds(t)
  PROVE  /\ exception' \in Problems \cup {"none"} /\ stage' \in [Tasks -> Stages]
         /\ state' \in [Tasks -> {"READY", "RUNNING", "EXECUTED", "SUCCEEDED", "FAILED"}]
         /\ exc' \in [Tasks -> Problems \cup {"none"}]
         /\ out' \in [Tasks -> Problems \cup {"none", "ok", "Error"}]
BY DEF Fails, FutureFails, Succeeds, TypeOK, Stages, Problems

\* How an execute() can end.
LEMMA Outcome ==
  ASSUME TypeOK, NEW t \in Tasks, NEW e \in ExecuteOutcomes(t)
  PROVE  /\ e \in Problems \cup {"ok", "Error"}
         /\ e = "cancel" => cancelled \/ \E p \in Tasks : exc[p] = "cancel"
<1>1. Before[t] \subseteq Tasks
  BY TreeAssumption
<1>2. /\ Throws(t) \subseteq {"ok", "error", "cancel", "Error"}
      /\ "cancel" \in Throws(t) => cancelled
  BY DEF Throws
<1>3. CASE ~Asserts(t)
  BY <1>3 DEF ExecuteOutcomes
<1>4. CASE Asserts(t) /\ Kind[t] = "finalizer" /\ ~depsOk[t]
  <2>1. \A p \in Before[t] : exc[p] \in Problems
    BY <1>1, <1>4 DEF Asserts, TypeOK
  <2>2. e \in Throws(t) \/ \E p \in Before[t] : e = exc[p]
    BY <1>4 DEF ExecuteOutcomes
  <2> QED BY <1>1, <1>2, <2>1, <2>2 DEF Problems
<1>5. CASE Asserts(t) /\ ~(Kind[t] = "finalizer" /\ ~depsOk[t])
  BY <1>2, <1>5 DEF ExecuteOutcomes, Problems
<1> QED BY <1>3, <1>4, <1>5

LEMMA Typed == TypeOK /\ [Next]_vars => TypeOK'
<1> SUFFICES ASSUME TypeOK, [Next]_vars PROVE TypeOK'
  OBVIOUS
<1> USE DEF executorVars, taskVars
<1>1. CASE UNCHANGED vars
  BY <1>1 DEF vars, TypeOK
<1>2. CASE start \/ cancel \/ Stop
  BY <1>2 DEF start, cancel, Stop, TypeOK
<1>3. CASE EnterRoot
  BY <1>3, TreeAssumption DEF EnterRoot, TypeOK, Stages, Problems
<1>4. ASSUME NEW t \in Tasks, Run(t) PROVE TypeOK'
  <2>1. CASE Begin(t)
    <3>1. CASE Fails(t, "cancel")
      BY <2>1, <3>1, FailsTypes DEF Begin, TypeOK, Problems
    <3>2. CASE ~Fails(t, "cancel")
      BY <2>1, <3>2 DEF Begin, TypeOK, Stages
    <3> QED BY <3>1, <3>2
  <2>2. CASE EnterBefore(t)
    BY <2>2 DEF EnterBefore, EnterGroup, TypeOK, Stages, Problems
  <2>3. CASE JoinBefore(t)
    <3>1. PICK e \in Problems \cup {"ok", "Error"} :
            \/ Fails(t, e) /\ UNCHANGED depsOk
            \/ /\ e # "Error" /\ depsOk' = [depsOk EXCEPT ![t] = (e = "ok")]
               /\ exc' = IF e = "ok" THEN exc ELSE [exc EXCEPT ![t] = e]
               /\ stage' = [stage EXCEPT ![t] = "running"]
               /\ state' = [state EXCEPT ![t] = "RUNNING"]
               /\ UNCHANGED <<exception, out>>
      BY <2>3 DEF JoinBefore
    <3>2. CASE Fails(t, e) /\ UNCHANGED depsOk
      BY <2>3, <3>2, FailsTypes DEF JoinBefore, TypeOK
    <3>3. CASE ~(Fails(t, e) /\ UNCHANGED depsOk)
      <4>1. depsOk' \in [Tasks -> BOOLEAN]
        <5>1. depsOk' = [depsOk EXCEPT ![t] = (e = "ok")]
          BY <3>1, <3>3
        <5>2. CASE e = "ok"
          BY <5>1, <5>2 DEF TypeOK
        <5>3. CASE e # "ok"
          BY <5>1, <5>3 DEF TypeOK
        <5> QED BY <5>2, <5>3
      <4> QED BY <2>3, <3>1, <3>3, <4>1 DEF JoinBefore, TypeOK, Stages
    <3> QED BY <3>1, <3>2, <3>3
  <2>4. CASE execute(t)
    <3>1. PICK e \in ExecuteOutcomes(t) :
            \/ /\ stage' = [stage EXCEPT ![t] = "after"]
               /\ state' = [state EXCEPT ![t] = "EXECUTED"]
               /\ UNCHANGED <<exc, exception, out, heard>>
            \/ /\ stage' = [stage EXCEPT ![t] = "ended"]
               /\ state' = [state EXCEPT ![t] = "EXECUTED"]
               /\ out' = [out EXCEPT ![t] = "Error"]
               /\ UNCHANGED <<exc, exception, heard>>
            \/ Fails(t, e)
      BY <2>4 DEF execute
    <3>2. e \in Problems \cup {"ok", "Error"}
      BY Outcome
    <3>3. CASE Fails(t, e)
      BY <2>4, <3>2, <3>3, FailsTypes DEF execute, TypeOK
    <3>4. CASE ~Fails(t, e)
      BY <2>4, <3>1, <3>4 DEF execute, TypeOK, Stages
    <3> QED BY <3>3, <3>4
  <2>5. CASE EnterAfter(t)
    BY <2>5 DEF EnterAfter, EnterGroup, TypeOK, Stages, Problems
  <2>6. CASE JoinAfter(t)
    <3>1. PICK e \in Problems \cup {"ok", "Error"} :
            \/ Fails(t, e) /\ met' = [met EXCEPT ![t] = "none"]
            \/ /\ e # "Error" /\ met' = [met EXCEPT ![t] = e]
               /\ stage' = [stage EXCEPT ![t] = "finish"]
               /\ UNCHANGED <<exc, exception, out, state, heard>>
      BY <2>6 DEF JoinAfter
    <3>2. CASE Fails(t, e) /\ met' = [met EXCEPT ![t] = "none"]
      BY <2>6, <3>2, FailsTypes DEF JoinAfter, TypeOK
    <3>3. CASE ~(Fails(t, e) /\ met' = [met EXCEPT ![t] = "none"])
      BY <2>6, <3>1, <3>3 DEF JoinAfter, TypeOK, Stages
    <3> QED BY <3>2, <3>3
  <2>7. CASE Finish(t)
    <3>1. \E e \in Problems \cup {"none", "ok", "Error"} : Fails(t, e) \/ Succeeds(t)
      BY <2>7 DEF Finish, TypeOK, Problems
    <3> QED BY <2>7, <3>1, FailsTypes DEF Finish, TypeOK
  <2>8. CASE BeginFuture(t)
    <3>1. CASE FutureFails(t, "cancel")
      BY <2>8, <3>1, FailsTypes DEF BeginFuture, TypeOK, Problems
    <3>2. CASE ~FutureFails(t, "cancel")
      BY <2>8, <3>2 DEF BeginFuture, TypeOK, Stages
    <3> QED BY <3>1, <3>2
  <2>9. CASE EndFuture(t)
    <3>1. (\E e \in Problems : FutureFails(t, e)) \/ Succeeds(t) \/ Fails(t, "Error")
      BY <2>9 DEF EndFuture, Problems
    <3>2. "ok" \in Problems \cup {"none", "ok", "Error"}
      OBVIOUS
    <3>3. Problems \subseteq Problems \cup {"none", "ok", "Error"}
      OBVIOUS
    <3> QED BY <2>9, <3>1, <3>2, <3>3, FailsTypes DEF EndFuture, TypeOK
  <2> QED BY <1>4, <2>1, <2>2, <2>3, <2>4, <2>5, <2>6, <2>7, <2>8, <2>9 DEF Run
<1> QED BY <1>1, <1>2, <1>3, <1>4 DEF Next

-----------------------------------------------------------------------------
\* The tree

LEMMA Tree ==
  ASSUME NEW t \in Tasks
  PROVE  /\ Subtasks(t) \subseteq Tasks /\ t \notin Subtasks(t) /\ Root \notin Subtasks(t)
         /\ Before[t] \cap After[t] = {}
         /\ \A u \in Tasks \ {t} : Subtasks(u) \cap Subtasks(t) = {}
<1>1. Subtasks(t) \subseteq Tasks
  BY TreeAssumption DEF Subtasks
<1>2. t \notin Subtasks(t)
  <2>1. {t} \in (SUBSET Tasks) \ {{}}
    OBVIOUS
  <2>2. \E u \in {t} : \A p \in {t} : u \notin Subtasks(p)
    BY <2>1, TreeAssumption
  <2> QED BY <2>2
<1>3. Root \notin Subtasks(t) /\ Before[t] \cap After[t] = {}
  BY TreeAssumption
<1>4. \A u \in Tasks \ {t} : Subtasks(u) \cap Subtasks(t) = {}
  BY TreeAssumption
<1> QED BY <1>1, <1>2, <1>3, <1>4

\* A task is at work or waits, so its parent waits; the topmost such task has
\* no parent, and is the root.
LEMMA RootOutlivesAll ==
  ASSUME IInv, stage[Root] \in {"idle", "ended"}
  PROVE  Quiet(Tasks)
<1> DEFINE A == {t \in Tasks : stage[t] \notin {"idle", "ended"}}
<1>1. SUFFICES ASSUME A # {} PROVE FALSE
  BY DEF Quiet
<1>2. A \in (SUBSET Tasks) \ {{}}
  BY <1>1
<1>3. PICK t \in A : \A p \in A : t \notin Subtasks(p)
  BY <1>2, TreeAssumption
<1>4. t \in Tasks /\ stage[t] \notin {"idle", "ended"}
  BY <1>3
<1>5. PICK p \in Tasks : t \in Subtasks(p)
  BY <1>4 DEF IInv, Family
<1>6. stage[p] \in {"idle", "ended"}
  BY <1>3, <1>5
<1>7. Quiet(Subtasks(p))
  BY <1>6 DEF IInv, Family, Idle, Quiet
<1> QED BY <1>4, <1>5, <1>7 DEF Quiet

-----------------------------------------------------------------------------
\* A task goes on

\* t goes on, and the subtasks G begin with it.
Moves(t, G) ==
  /\ stage[t] \notin {"idle", "ended"} /\ stage'[t] # "idle"
  /\ G \in {{}, Before[t], After[t]} /\ Idle(G)
  /\ \A u \in Tasks \ {t} :
       /\ stage'[u] = IF u \in G THEN "begin" ELSE stage[u]
       /\ state'[u] = state[u] /\ met'[u] = met[u] /\ out'[u] = out[u]

LEMMA EnterMoves ==
  ASSUME TypeOK, NEW t \in Tasks, NEW from \in {"before", "after"},
         NEW G \in {Before[t], After[t]}, Idle(G), NEW wait \in {"waitBefore", "waitAfter"},
         EnterGroup(t, from, G, wait)
  PROVE  \/ cancelled /\ met'[t] = "cancel" /\ Moves(t, {})
         \/ ~cancelled /\ UNCHANGED <<exc, met>> /\ Moves(t, G)
         \/ G = {} /\ UNCHANGED <<exc, met>> /\ Moves(t, {})
<1>1. /\ stage[t] = from /\ UNCHANGED <<state, out>>
  BY DEF EnterGroup
<1>2. CASE cancelled /\ G # {}
  <2>1. met' = [met EXCEPT ![t] = "cancel"] /\ stage' = [stage EXCEPT ![t] = wait]
    BY <1>2 DEF EnterGroup
  <2> QED BY <1>1, <1>2, <2>1 DEF TypeOK, Moves, Idle
<1>3. CASE ~(cancelled /\ G # {})
  <2>1. /\ stage' = [u \in Tasks |-> IF u = t THEN wait
                                    ELSE IF u \in G THEN "begin" ELSE stage[u]]
        /\ UNCHANGED <<exc, met>>
    BY <1>3 DEF EnterGroup
  <2>2. Moves(t, G)
    BY <1>1, <2>1 DEF TypeOK, Moves
  <2> QED BY <1>3, <2>1, <2>2
<1> QED BY <1>2, <1>3

LEMMA OthersStay ==
  ASSUME IInv, NEW t \in Tasks, NEW G, Moves(t, G), NEW u \in Tasks \ {t}
  PROVE  Family(u)' /\ Result(u)'
<1>1. Family(u) /\ Result(u) /\ Result(t)
  BY DEF IInv
<1>2. G \subseteq Subtasks(t) /\ Idle(G)
  BY DEF Moves, Subtasks
<1>3. \A d \in Subtasks(u) : d \in Tasks /\ d \notin G
  BY <1>2, Tree
<1>4. /\ \A d \in Subtasks(u) : stage[d] \in {"idle", "ended"} => stage'[d] = stage[d]
      /\ \A d \in Tasks : out[d] = "ok" => out'[d] = "ok"
      /\ \A d \in Tasks : state[d] = "SUCCEEDED" => state'[d] = "SUCCEEDED"
  <2>1. out[t] # "ok" /\ state[t] # "SUCCEEDED"
    BY <1>1 DEF Moves, Result
  <2> QED BY <1>3, <2>1 DEF Moves
<1>5. stage'[u] = (IF u \in G THEN "begin" ELSE stage[u])
      /\ state'[u] = state[u] /\ met'[u] = met[u] /\ out'[u] = out[u]
  BY DEF Moves
<1>6. Before[u] \subseteq Subtasks(u) /\ After[u] \subseteq Subtasks(u) /\ Needed(u) \subseteq Subtasks(u)
  BY DEF Subtasks, Needed
<1>7. CASE u \in G
  <2>1. stage[u] = "idle" /\ stage'[u] = "begin"
    BY <1>2, <1>5, <1>7 DEF Idle
  <2>2. Family(u)'
    <3>1. u = Root \/ \E p \in Tasks : u \in Subtasks(p)
      BY <1>2, <1>7
    <3>2. \A d \in Subtasks(u) : stage'[d] = "idle"
      BY <1>1, <1>4, <2>1 DEF Family, Idle
    <3> QED BY <1>1, <1>5, <2>1, <3>1, <3>2 DEF Family, Idle
  <2>3. Result(u)'
    BY <1>1, <1>3, <1>4, <1>5, <1>6, <2>1 DEF Result
  <2> QED BY <2>2, <2>3
<1>8. CASE u \notin G
  <2>1. stage'[u] = stage[u]
    BY <1>5, <1>8
  <2>2. Family(u)'
    BY <1>1, <1>4, <1>5, <1>6, <2>1 DEF Family, Idle, Quiet
  <2>3. Result(u)'
    BY <1>1, <1>3, <1>4, <1>5, <1>6, <2>1 DEF Result
  <2> QED BY <2>2, <2>3
<1> QED BY <1>7, <1>8

\* What t and its subtasks are after a step: all that OthersStay leaves open.
Settled(t) == (\E G : Moves(t, G)) /\ Family(t)' /\ Result(t)'

LEMMA Parts == \A t : /\ Before[t] \subseteq Subtasks(t) /\ After[t] \subseteq Subtasks(t)
                      /\ Needed(t) \subseteq Subtasks(t)
BY DEF Subtasks, Needed

\* The task fails; an Error leaves its state as it was.
LEMMA FailsSettle ==
  ASSUME IInv, NEW t \in Tasks, NEW e \in Problems \cup {"Error"},
         Fails(t, e) \/ (e \in Problems /\ FutureFails(t, e)),
         \A u \in Tasks \ {t} : met'[u] = met[u],
         stage[t] \notin {"idle", "ended"}, Quiet(Subtasks(t)),
         state[t] \in {"READY", "RUNNING"} => Idle(After[t])
  PROVE  Settled(t)
<1>1. Family(t) /\ Result(t) /\ TypeOK
  BY DEF IInv
<1>2. /\ stage' = [stage EXCEPT ![t] = "ended"] /\ out' = [out EXCEPT ![t] = e]
      /\ \/ state' = [state EXCEPT ![t] = "FAILED"]
         \/ state' = state
  BY DEF Fails, FutureFails
<1>3. stage'[t] = "ended" /\ out'[t] = e /\ state'[t] # "SUCCEEDED"
      /\ (state'[t] \in {"READY", "RUNNING"} => Idle(After[t]))
  BY <1>1, <1>2 DEF TypeOK, Result
<1>4. Moves(t, {})
  BY <1>1, <1>2 DEF TypeOK, Moves, Idle
<1>5. \A d \in Subtasks(t) : stage'[d] = stage[d]
  BY <1>4, Tree DEF Moves
<1>6. Family(t)'
  <2>1. t = Root \/ \E p \in Tasks : t \in Subtasks(p)
    BY <1>1 DEF Family
  <2> QED BY <1>3, <1>5, <2>1, Parts DEF Family, Quiet, Idle
<1>7. Result(t)'
  BY <1>3 DEF Result, Problems
<1> QED BY <1>4, <1>6, <1>7 DEF Settled

\* The task succeeds.
LEMMA SucceedsSettle ==
  ASSUME IInv, NEW t \in Tasks, Succeeds(t), UNCHANGED met,
         stage[t] \notin {"idle", "ended"}, Quiet(Subtasks(t)),
         \A d \in Needed(t) : out[d] = "ok"
  PROVE  Settled(t)
<1>1. Family(t) /\ Result(t) /\ TypeOK
  BY DEF IInv
<1>2. /\ stage' = [stage EXCEPT ![t] = "ended"] /\ out' = [out EXCEPT ![t] = "ok"]
      /\ state' = [state EXCEPT ![t] = "SUCCEEDED"]
  BY DEF Succeeds
<1>3. stage'[t] = "ended" /\ out'[t] = "ok" /\ state'[t] = "SUCCEEDED"
  BY <1>1, <1>2 DEF TypeOK
<1>4. Moves(t, {})
  BY <1>1, <1>2 DEF TypeOK, Moves, Idle
<1>5. \A d \in Subtasks(t) : stage'[d] = stage[d] /\ out'[d] = out[d]
  BY <1>4, Tree DEF Moves
<1>6. Family(t)'
  <2>1. t = Root \/ \E p \in Tasks : t \in Subtasks(p)
    BY <1>1 DEF Family
  <2> QED BY <1>3, <1>5, <2>1, Parts DEF Family, Quiet, Idle
<1>7. Result(t)'
  BY <1>3, <1>5, Parts DEF Result
<1> QED BY <1>4, <1>6, <1>7 DEF Settled

\* The task goes on to a stage `to` without its subtasks.
GoesOn(t, to) ==
  /\ stage' = [stage EXCEPT ![t] = to]
  /\ state' = [state EXCEPT ![t] = state'[t]]
  /\ met' = [met EXCEPT ![t] = met'[t]]
  /\ out' = out

LEMMA GoesOnMoves ==
  ASSUME IInv, NEW t \in Tasks, NEW to, GoesOn(t, to), stage[t] \notin {"idle", "ended"},
         to \notin {"idle", "ended"}
  PROVE  /\ Moves(t, {}) /\ stage'[t] = to /\ out'[t] = "none"
         /\ t = Root \/ \E p \in Tasks : t \in Subtasks(p)
         /\ \A d \in Subtasks(t) : stage'[d] = stage[d] /\ out'[d] = out[d]
<1>1. Family(t) /\ Result(t) /\ TypeOK
  BY DEF IInv
<1>2. stage'[t] = to /\ \A u \in Tasks \ {t} : stage'[u] = stage[u]
  BY <1>1 DEF GoesOn, TypeOK
<1>3. \A u \in Tasks \ {t} : state'[u] = state[u]
  BY <1>1 DEF GoesOn, TypeOK
<1>4. \A u \in Tasks \ {t} : met'[u] = met[u]
  BY <1>1 DEF GoesOn, TypeOK
<1>5. Moves(t, {})
  BY <1>2, <1>3, <1>4 DEF Moves, Idle, GoesOn
<1>6. \A d \in Subtasks(t) : stage'[d] = stage[d] /\ out'[d] = out[d]
  BY <1>2, Tree DEF GoesOn
<1>7. out'[t] = "none" /\ (t = Root \/ \E p \in Tasks : t \in Subtasks(p))
  BY <1>1 DEF GoesOn, Family, Result
<1> QED BY <1>2, <1>5, <1>6, <1>7

LEMMA BeginSettles ==
  ASSUME IInv, NEW t \in Tasks, Begin(t) \/ BeginFuture(t) PROVE Settled(t)
<1>1. Family(t) /\ Result(t) /\ TypeOK /\ stage[t] = "begin" /\ UNCHANGED met
  BY DEF IInv, Begin, BeginFuture
<1>2. Idle(Subtasks(t)) /\ met[t] = "none"
  BY <1>1 DEF Family
<1>3. CASE Fails(t, "cancel") \/ FutureFails(t, "cancel")
  BY <1>1, <1>2, <1>3, FailsSettle, Parts DEF Idle, Quiet, Problems
<1>4. CASE ~(Fails(t, "cancel") \/ FutureFails(t, "cancel"))
  <2>1. /\ UNCHANGED <<met, out>> /\ state' = [state EXCEPT ![t] = "READY"]
        /\ \E to \in {"before", "future"} : /\ stage' = [stage EXCEPT ![t] = to]
                                            /\ to = "future" => Kind[t] = "future"
    BY <1>4 DEF Begin, BeginFuture
  <2>2. PICK to \in {"before", "future"} : /\ stage' = [stage EXCEPT ![t] = to]
                                           /\ to = "future" => Kind[t] = "future"
    BY <2>1
  <2>3. GoesOn(t, to) /\ state'[t] = "READY" /\ met'[t] = "none"
    BY <1>1, <1>2, <2>1, <2>2 DEF GoesOn, TypeOK
  <2>4. /\ Moves(t, {}) /\ stage'[t] = to /\ out'[t] = "none"
        /\ t = Root \/ \E p \in Tasks : t \in Subtasks(p)
        /\ \A d \in Subtasks(t) : stage'[d] = stage[d] /\ out'[d] = out[d]
    BY <1>1, <2>3, GoesOnMoves
  <2>5. Family(t)'
    BY <1>2, <2>2, <2>3, <2>4, Parts DEF Family, Idle
  <2>6. Result(t)'
    BY <2>3, <2>4 DEF Result
  <2> QED BY <2>4, <2>5, <2>6 DEF Settled
<1> QED BY <1>3, <1>4

LEMMA EnterSettles ==
  ASSUME IInv, NEW t \in Tasks, EnterBefore(t) \/ EnterAfter(t) PROVE Settled(t)
<1>1. Family(t) /\ Result(t) /\ TypeOK
  BY DEF IInv
<1>2. UNCHANGED <<state, out>>
  BY DEF EnterBefore, EnterAfter, EnterGroup
<1>3. out[t] = "none" => out'[t] = "none" /\ (out[t] # "ok") /\ state[t] # "SUCCEEDED"
  BY <1>1, <1>2 DEF Result
<1>4. ASSUME NEW G, Moves(t, G)
      PROVE  \A d \in Subtasks(t) : /\ out'[d] = out[d]
                                    /\ stage'[d] = IF d \in G THEN "begin" ELSE stage[d]
  BY <1>4, Tree DEF Moves
<1>5. CASE EnterBefore(t)
  <2>1. stage[t] = "before" /\ Idle(Subtasks(t)) /\ met[t] = "none" /\ out[t] = "none"
        /\ (t = Root \/ \E p \in Tasks : t \in Subtasks(p))
    BY <1>1, <1>5 DEF EnterBefore, EnterGroup, Family, Result
  <2>2. Idle(Before[t])
    BY <2>1, Parts DEF Idle
  <2>3. stage'[t] = "waitBefore"
    BY <1>1, <1>5 DEF EnterBefore, EnterGroup, TypeOK
  <2>4. \/ met'[t] = "cancel" /\ Moves(t, {})
        \/ met'[t] = "none" /\ \E G \in {Before[t], {}} : Moves(t, G)
    BY <1>1, <1>5, <2>1, <2>2, EnterMoves DEF EnterBefore
  <2>5. CASE met'[t] = "cancel" /\ Moves(t, {})
    BY <1>2, <1>3, <1>4, <2>1, <2>3, <2>5, Parts DEF Settled, Family, Result, Idle
  <2>6. CASE met'[t] = "none" /\ \E G \in {Before[t], {}} : Moves(t, G)
    <3>1. PICK G \in {Before[t], {}} : Moves(t, G)
      BY <2>6
    <3>2. \A d \in After[t] : stage'[d] = "idle"
      BY <1>4, <2>1, <3>1, Parts, Tree DEF Idle
    <3>3. Family(t)'
      BY <2>1, <2>3, <2>6, <3>2 DEF Family, Idle
    <3>4. Result(t)'
      BY <1>2, <1>3, <2>1, <2>3 DEF Result
    <3> QED BY <3>1, <3>3, <3>4 DEF Settled
  <2> QED BY <2>4, <2>5, <2>6
<1>6. CASE EnterAfter(t)
  <2>1. stage[t] = "after" /\ Quiet(Before[t]) /\ Idle(After[t]) /\ met[t] = "none"
        /\ out[t] = "none" /\ state[t] = "EXECUTED"
        /\ (t = Root \/ \E p \in Tasks : t \in Subtasks(p))
        /\ (t \in Relying => \A d \in Before[t] : out[d] = "ok")
    BY <1>1, <1>6 DEF EnterAfter, EnterGroup, Family, Result
  <2>3. stage'[t] = "waitAfter"
    BY <1>1, <1>6 DEF EnterAfter, EnterGroup, TypeOK
  <2>4. \/ met'[t] = "cancel" /\ Moves(t, {})
        \/ met'[t] = "none" /\ \E G \in {After[t], {}} : Moves(t, G)
    BY <1>1, <1>6, <2>1, EnterMoves DEF EnterAfter
  <2>5. PICK G \in {After[t], {}} : Moves(t, G) /\ (met'[t] = "cancel" => G = {})
    BY <2>4
  <2>6. \A d \in Before[t] : stage'[d] = stage[d] /\ out'[d] = out[d]
    BY <1>4, <2>5, Parts, Tree
  <2>7. G = {} => \A d \in After[t] : stage'[d] = "idle"
    BY <1>4, <2>1, <2>5, Parts DEF Idle
  <2>8. Family(t)'
    BY <1>2, <2>1, <2>3, <2>5, <2>6, <2>7 DEF Family, Idle, Quiet
  <2>9. Result(t)'
    BY <1>2, <1>3, <2>1, <2>3, <2>6 DEF Result
  <2> QED BY <2>5, <2>8, <2>9 DEF Settled
<1> QED BY <1>5, <1>6

LEMMA AllOf ==
  ASSUME NEW G, "ok" \in Outcomes(G)
  PROVE  \A d \in G : out[d] = "ok"
BY DEF Outcomes

LEMMA JoinBeforeSettles ==
  ASSUME IInv, NEW t \in Tasks, JoinBefore(t) PROVE Settled(t)
<1>1. Family(t) /\ Result(t) /\ TypeOK /\ stage[t] = "waitBefore"
  BY DEF IInv, JoinBefore
<1>2. PICK e \in Problems \cup {"ok", "Error"} :
        /\ Joined(t, Before[t], e)
        /\ IF e = "Error" \/ (e \in Problems /\ t \in Relying)
           THEN Fails(t, e)
           ELSE /\ stage' = [stage EXCEPT ![t] = "running"]
                /\ state' = [state EXCEPT ![t] = "RUNNING"]
                /\ UNCHANGED out
  BY DEF JoinBefore
<1>3. met' = [met EXCEPT ![t] = "none"]
  BY DEF JoinBefore
<1>4. Quiet(Before[t]) /\ Idle(After[t]) /\ Quiet(Subtasks(t))
  <2>1. Idle(After[t]) /\ (met[t] = "cancel" => Idle(Before[t]))
    BY <1>1 DEF Family
  <2>2. Quiet(Before[t])
    BY <1>2, <2>1 DEF Joined, Ended, Idle, Quiet
  <2> QED BY <2>1, <2>2 DEF Idle, Quiet, Subtasks
<1>5. e = "ok" => \A d \in Before[t] : out[d] = "ok"
  BY <1>2, AllOf DEF Joined
<1>6. CASE e = "Error" \/ (e \in Problems /\ t \in Relying)
  BY <1>1, <1>2, <1>3, <1>4, <1>6, FailsSettle DEF TypeOK
<1>7. CASE ~(e = "Error" \/ (e \in Problems /\ t \in Relying))
  <2>1. GoesOn(t, "running") /\ state'[t] = "RUNNING" /\ met'[t] = "none"
    BY <1>1, <1>2, <1>3, <1>7 DEF GoesOn, TypeOK
  <2>2. /\ Moves(t, {}) /\ stage'[t] = "running" /\ out'[t] = "none"
        /\ t = Root \/ \E p \in Tasks : t \in Subtasks(p)
        /\ \A d \in Subtasks(t) : stage'[d] = stage[d] /\ out'[d] = out[d]
    BY <1>1, <2>1, GoesOnMoves
  <2>3. Family(t)'
    BY <1>4, <2>1, <2>2, Parts DEF Family, Idle, Quiet
  <2>4. Result(t)'
    BY <1>2, <1>5, <1>7, <2>1, <2>2, Parts DEF Result, Problems
  <2> QED BY <2>2, <2>3, <2>4 DEF Settled
<1> QED BY <1>6, <1>7

LEMMA ExecuteSettles ==
  ASSUME IInv, NEW t \in Tasks, execute(t) PROVE Settled(t)
<1>1. Family(t) /\ Result(t) /\ TypeOK /\ stage[t] = "running" /\ UNCHANGED met
  BY DEF IInv, execute
<1>2. /\ Quiet(Before[t]) /\ Idle(After[t]) /\ met[t] = "none" /\ out[t] = "none"
      /\ t \in Relying => \A d \in Before[t] : out[d] = "ok"
      /\ t = Root \/ \E p \in Tasks : t \in Subtasks(p)
  BY <1>1 DEF Family, Result
<1>3. Quiet(Subtasks(t))
  BY <1>2 DEF Idle, Quiet, Subtasks
<1>4. PICK e \in ExecuteOutcomes(t) :
        \/ /\ stage' = [stage EXCEPT ![t] = "after"]
           /\ state' = [state EXCEPT ![t] = "EXECUTED"]
           /\ UNCHANGED out
        \/ /\ e = "Error" /\ stage' = [stage EXCEPT ![t] = "ended"]
           /\ state' = [state EXCEPT ![t] = "EXECUTED"]
           /\ out' = [out EXCEPT ![t] = e]
        \/ e \notin {"ok", "Error"} /\ Fails(t, e)
  BY DEF execute
<1>5. e \in Problems \cup {"ok", "Error"}
  BY <1>1, Outcome
<1>6. CASE e \notin {"ok", "Error"} /\ Fails(t, e)
  BY <1>1, <1>2, <1>3, <1>5, <1>6, FailsSettle
<1>7. CASE stage' = [stage EXCEPT ![t] = "after"] /\ state' = [state EXCEPT ![t] = "EXECUTED"] /\ out' = out
  <2>1. GoesOn(t, "after") /\ state'[t] = "EXECUTED" /\ met'[t] = "none"
    BY <1>1, <1>2, <1>7 DEF GoesOn, TypeOK
  <2>2. /\ Moves(t, {}) /\ stage'[t] = "after" /\ out'[t] = "none"
        /\ \A d \in Subtasks(t) : stage'[d] = stage[d] /\ out'[d] = out[d]
    BY <1>1, <2>1, GoesOnMoves
  <2>3. Family(t)'
    BY <1>2, <2>1, <2>2, Parts DEF Family, Idle, Quiet
  <2>4. Result(t)'
    BY <1>2, <2>1, <2>2, Parts DEF Result
  <2> QED BY <2>2, <2>3, <2>4 DEF Settled
<1>8. CASE /\ e = "Error" /\ stage' = [stage EXCEPT ![t] = "ended"]
           /\ state' = [state EXCEPT ![t] = "EXECUTED"]
           /\ out' = [out EXCEPT ![t] = e]
  <2>1. stage'[t] = "ended" /\ state'[t] = "EXECUTED" /\ out'[t] = "Error"
    BY <1>1, <1>8 DEF TypeOK
  <2>2. Moves(t, {})
    BY <1>1, <1>8 DEF TypeOK, Moves, Idle
  <2>3. \A d \in Subtasks(t) : stage'[d] = stage[d]
    BY <2>2, Tree DEF Moves
  <2> QED BY <1>2, <1>3, <2>1, <2>2, <2>3 DEF Settled, Family, Result, Quiet
<1> QED BY <1>4, <1>6, <1>7, <1>8

LEMMA JoinAfterSettles ==
  ASSUME IInv, NEW t \in Tasks, JoinAfter(t) PROVE Settled(t)
<1>1. Family(t) /\ Result(t) /\ TypeOK /\ stage[t] = "waitAfter"
  BY DEF IInv, JoinAfter
<1>2. PICK e \in Problems \cup {"ok", "Error"} :
        /\ Joined(t, After[t], e)
        /\ IF e = "Error"
           THEN Fails(t, e) /\ met' = [met EXCEPT ![t] = "none"]
           ELSE /\ met' = [met EXCEPT ![t] = e]
                /\ stage' = [stage EXCEPT ![t] = "finish"]
                /\ UNCHANGED <<out, state>>
  BY DEF JoinAfter
<1>3. /\ Quiet(Before[t]) /\ state[t] = "EXECUTED"
      /\ t \in Relying => \A d \in Before[t] : out[d] = "ok"
  BY <1>1 DEF Family, Result
<1>4. Quiet(Subtasks(t))
  <2>1. Quiet(After[t])
    BY <1>1, <1>2 DEF Family, Joined, Ended, Idle, Quiet
  <2> QED BY <1>3, <2>1 DEF Quiet, Subtasks
<1>5. e = "ok" => \A d \in After[t] : out[d] = "ok"
  BY <1>2, AllOf DEF Joined
<1>6. CASE e = "Error"
  BY <1>1, <1>2, <1>3, <1>4, <1>6, FailsSettle DEF TypeOK
<1>7. CASE e # "Error"
  <2>1. GoesOn(t, "finish") /\ state'[t] = "EXECUTED" /\ met'[t] = e
    BY <1>1, <1>2, <1>3, <1>7 DEF GoesOn, TypeOK
  <2>2. /\ Moves(t, {}) /\ stage'[t] = "finish" /\ out'[t] = "none"
        /\ t = Root \/ \E p \in Tasks : t \in Subtasks(p)
        /\ \A d \in Subtasks(t) : stage'[d] = stage[d] /\ out'[d] = out[d]
    BY <1>1, <2>1, GoesOnMoves
  <2>3. Family(t)'
    BY <1>4, <2>1, <2>2, Parts DEF Family, Quiet
  <2>4. Result(t)'
    BY <1>3, <1>5, <2>1, <2>2, Parts DEF Result, Problems
  <2> QED BY <2>2, <2>3, <2>4 DEF Settled
<1> QED BY <1>6, <1>7

LEMMA FinishSettles ==
  ASSUME IInv, NEW t \in Tasks, Finish(t) PROVE Settled(t)
<1>1. Family(t) /\ Result(t) /\ TypeOK /\ stage[t] = "finish" /\ UNCHANGED met
  BY DEF IInv, Finish
<1>2. /\ Quiet(Subtasks(t)) /\ state[t] = "EXECUTED"
      /\ met[t] \in Problems \cup {"ok"}
      /\ met[t] = "ok" => \A d \in Needed(t) : out[d] = "ok"
  BY <1>1 DEF Family, Result, TypeOK, Needed
<1>3. \/ \E e \in Problems : Fails(t, e)
      \/ met[t] = "ok" /\ Succeeds(t)
  BY <1>2 DEF Finish, Problems
<1> QED BY <1>1, <1>2, <1>3, FailsSettle, SucceedsSettle

LEMMA FutureSettles ==
  ASSUME IInv, NEW t \in Tasks, EndFuture(t) PROVE Settled(t)
<1>1. Family(t) /\ Result(t) /\ TypeOK /\ stage[t] = "future" /\ UNCHANGED met
  BY DEF IInv, EndFuture
<1>2. Idle(Subtasks(t)) /\ Quiet(Subtasks(t)) /\ Idle(After[t])
  BY <1>1, Parts DEF Family, Idle, Quiet
<1>4. Needed(t) = {}
  BY <1>1, TreeAssumption DEF Family, Needed
<1>3. \/ \E e \in Problems : FutureFails(t, e)
      \/ Succeeds(t) \/ Fails(t, "Error")
  BY DEF EndFuture, Problems
<1> QED BY <1>1, <1>2, <1>3, <1>4, FailsSettle, SucceedsSettle

LEMMA RunSettles ==
  ASSUME IInv, NEW t \in Tasks, Run(t)
  PROVE  Settled(t) /\ UNCHANGED <<phase, reported, cancelled>>
<1>1. UNCHANGED <<phase, reported, cancelled>>
  BY DEF Run, Begin, EnterBefore, JoinBefore, execute, EnterAfter, EnterGroup, JoinAfter,
     Finish, BeginFuture, EndFuture, executorVars
<1> QED BY <1>1, BeginSettles, EnterSettles, JoinBeforeSettles, ExecuteSettles, JoinAfterSettles,
           FinishSettles, FutureSettles DEF Run

-----------------------------------------------------------------------------
\* onStop and its reasons

LEMMA PhasesHold ==
  ASSUME IInv, NEW t \in Tasks, Settled(t), UNCHANGED <<phase, reported, cancelled>>
  PROVE  Phases'
<1>1. PICK G : Moves(t, G)
  BY DEF Settled
<1>2. stage[t] \notin {"idle", "ended"}
  BY <1>1 DEF Moves
<1>3. ~(phase \in {"new", "started"})
  BY <1>2 DEF IInv, Phases, Idle
<1>4. ~(phase \in {"stopped", "uncaught"})
  <2>1. SUFFICES ASSUME phase \in {"stopped", "uncaught"} PROVE FALSE
    OBVIOUS
  <2>2. Quiet(Tasks)
    BY <2>1, RootOutlivesAll DEF IInv, Phases, Idle, Quiet
  <2> QED BY <1>2, <2>2 DEF Quiet
<1>5. phase = "running"
  BY <1>3, <1>4 DEF IInv, TypeOK
<1>6. stage[Root] # "idle" /\ reported = "none"
  BY <1>5 DEF IInv, Phases
<1>7. stage'[Root] # "idle"
  BY <1>1, <1>6, TreeAssumption DEF Moves
<1> QED BY <1>5, <1>6, <1>7 DEF Phases

\* What a step of t may do to the exceptions: e is its own, or a subtask's.
Blames(t, e) ==
  /\ e = "cancel" => cancelled \/ Blamed'
                     \/ \E u \in Tasks : "cancel" \in {out[u], exc[u], met[u]}
  /\ exception' = exception \/ (exception' = e /\ e \in Problems)
  /\ \A u \in Tasks : /\ out'[u] \in {out[u], e, "ok", "Error"}
                      /\ exc'[u] \in {exc[u], e, "none"}
                      /\ met'[u] \in {met[u], e, "none"}
  /\ Kind[t] # "future" /\ out'[t] \in Problems => exception' # "none"

LEMMA BlameHolds ==
  ASSUME IInv, NEW t \in Tasks, Settled(t), UNCHANGED cancelled, NEW e, Blames(t, e)
  PROVE  Blame'
<1>1. PICK G : Moves(t, G)
  BY DEF Settled
<1>2. \A u \in Tasks : out[u] = "cancel" => out'[u] = out[u]
  BY <1>1 DEF IInv, Result, Moves
<1>3. Blamed => Blamed'
  BY <1>2 DEF Blamed
<1>4. \A u \in Tasks \ {t} : out'[u] = out[u]
  BY <1>1 DEF Moves
<1>5. exception # "none" => exception' # "none"
  BY DEF Blames, Problems
<1>6. \A u \in Tasks : Kind[u] # "future" /\ out'[u] \in Problems => exception' # "none"
  BY <1>4, <1>5 DEF IInv, Blame, Blames
<1>7. ASSUME ~cancelled, ~Blamed'
      PROVE  exception' # "cancel" /\ \A u \in Tasks : "cancel" \notin {out'[u], exc'[u], met'[u]}
  <2>1. exception # "cancel" /\ \A u \in Tasks : "cancel" \notin {out[u], exc[u], met[u]}
    BY <1>3, <1>7 DEF IInv, Blame
  <2>2. e # "cancel"
    BY <1>7, <2>1 DEF Blames
  <2> QED BY <2>1, <2>2 DEF Blames
<1> QED BY <1>6, <1>7 DEF Blame

LEMMA FailsBlame ==
  ASSUME TypeOK, NEW t \in Tasks, NEW e \in Problems \cup {"Error"},
         Fails(t, e), \A u \in Tasks : met'[u] \in {met[u], "none"},
         e = "cancel" => cancelled \/ \E u \in Tasks : "cancel" \in {out[u], exc[u], met[u]}
  PROVE  Blames(t, e)
<1>1. \A u \in Tasks : out'[u] \in {out[u], e} /\ exc'[u] \in {exc[u], e}
  BY DEF Fails, TypeOK
<1>2. exception' = exception \/ (exception' = e /\ e \in Problems)
  BY DEF Fails
<1>3. out'[t] \in Problems => exception' # "none"
  BY DEF Fails, TypeOK, Problems
<1> QED BY <1>1, <1>2, <1>3 DEF Blames

LEMMA FutureBlame ==
  ASSUME TypeOK, NEW t \in Tasks, Kind[t] = "future", NEW e \in Problems, FutureFails(t, e),
         UNCHANGED met
  PROVE  Blames(t, e)
<1>1. out' = [out EXCEPT ![t] = e]
  BY DEF FutureFails
<1>2. out'[t] = e /\ \A u \in Tasks : out'[u] \in {out[u], e}
  BY <1>1 DEF TypeOK
<1>3. \A u \in Tasks : exc'[u] \in {exc[u], e, "none"}
  BY DEF FutureFails, TypeOK
<1>4. e = "cancel" => Blamed'
  BY <1>2 DEF Blamed
<1>5. exception' = exception \/ (exception' = e /\ e \in Problems)
  BY DEF FutureFails
<1> QED BY <1>2, <1>3, <1>4, <1>5 DEF Blames

LEMMA RunBlames ==
  ASSUME IInv, NEW t \in Tasks, Run(t), Settled(t)
  PROVE  \E e : Blames(t, e)
<1>0. TypeOK
  BY DEF IInv
<1>9. Before[t] \subseteq Tasks /\ After[t] \subseteq Tasks
  BY TreeAssumption
<1>1. CASE Begin(t)
  <2>1. CASE Fails(t, "cancel") /\ cancelled
    <3>1. Blames(t, "cancel")
      BY <1>0, <1>1, <2>1, FailsBlame DEF Begin, Problems
    <3> QED BY <3>1
  <2>2. CASE ~(Fails(t, "cancel") /\ cancelled)
    <3>1. UNCHANGED <<exc, exception, out, met>>
      BY <1>1, <2>2 DEF Begin
    <3>2. out[t] = "none"
      BY <1>1 DEF Begin, IInv, Result
    <3>3. Blames(t, "ok")
      BY <3>1, <3>2 DEF Blames, Problems
    <3> QED BY <3>3
  <2> QED BY <2>1, <2>2
<1>2. CASE EnterBefore(t) \/ EnterAfter(t)
  <2>1. UNCHANGED <<exception, out>>
    BY <1>2 DEF EnterBefore, EnterAfter, EnterGroup
  <2>2. out[t] = "none"
    BY <1>2 DEF EnterBefore, EnterAfter, EnterGroup, IInv, Result
  <2>3. \/ UNCHANGED <<exc, met>>
        \/ /\ cancelled
           /\ \A u \in Tasks : exc'[u] \in {exc[u], "cancel"} /\ met'[u] \in {met[u], "cancel"}
    BY <1>0, <1>2 DEF EnterBefore, EnterAfter, EnterGroup, TypeOK
  <2>4. CASE UNCHANGED <<exc, met>>
    <3>1. Blames(t, "ok")
      BY <2>1, <2>2, <2>4 DEF Blames, Problems
    <3> QED BY <3>1
  <2>5. CASE /\ cancelled
             /\ \A u \in Tasks : exc'[u] \in {exc[u], "cancel"} /\ met'[u] \in {met[u], "cancel"}
    <3>1. Blames(t, "cancel")
      BY <2>1, <2>2, <2>5 DEF Blames, Problems
    <3> QED BY <3>1
  <2> QED BY <2>3, <2>4, <2>5
<1>3. CASE JoinBefore(t)
  <2>1. PICK e \in Problems \cup {"ok", "Error"} :
          /\ Joined(t, Before[t], e)
          /\ \/ e # "ok" /\ Fails(t, e)
             \/ /\ exc' = IF e = "ok" THEN exc ELSE [exc EXCEPT ![t] = e]
                /\ UNCHANGED <<exception, out>>
    BY <1>3 DEF JoinBefore, Problems
  <2>2. e = "cancel" => \E u \in Tasks : "cancel" \in {out[u], exc[u], met[u]}
    <3>1. e = "cancel" => met[t] = "cancel" \/ \E d \in Before[t] : out[d] = "cancel"
      BY <2>1 DEF Joined, Outcomes
    <3> QED BY <1>9, <3>1
  <2>3. \A u \in Tasks : met'[u] \in {met[u], "none"}
    BY <1>0, <1>3 DEF JoinBefore, TypeOK
  <2>4. out[t] = "none"
    BY <1>3 DEF JoinBefore, IInv, Result
  <2>5. CASE e # "ok" /\ Fails(t, e)
    BY <1>0, <2>1, <2>2, <2>3, <2>5, FailsBlame
  <2>6. CASE /\ exc' = IF e = "ok" THEN exc ELSE [exc EXCEPT ![t] = e]
             /\ UNCHANGED <<exception, out>>
    <3>1. \A u \in Tasks : exc'[u] \in {exc[u], e}
      BY <1>0, <2>6 DEF TypeOK
    <3>2. Blames(t, e)
      BY <2>2, <2>3, <2>4, <2>6, <3>1 DEF Blames, Problems
    <3> QED BY <3>2
  <2> QED BY <2>1, <2>5, <2>6
<1>4. CASE execute(t)
  <2>1. PICK e \in ExecuteOutcomes(t) :
          \/ UNCHANGED <<exc, exception, out>>
          \/ out' = [out EXCEPT ![t] = "Error"] /\ UNCHANGED <<exc, exception>>
          \/ e \in Problems /\ Fails(t, e)
    <3>1. PICK e \in ExecuteOutcomes(t) :
            \/ UNCHANGED <<exc, exception, out>>
            \/ out' = [out EXCEPT ![t] = "Error"] /\ UNCHANGED <<exc, exception>>
            \/ e \notin {"ok", "Error"} /\ Fails(t, e)
      BY <1>4 DEF execute
    <3>2. e \in Problems \cup {"ok", "Error"}
      BY <1>0, Outcome
    <3> QED BY <3>1, <3>2
  <2>2. e = "cancel" => cancelled \/ \E u \in Tasks : "cancel" \in {out[u], exc[u], met[u]}
    BY <1>0, Outcome
  <2>3. UNCHANGED met /\ out[t] = "none"
    BY <1>4 DEF execute, IInv, Result
  <2>4. CASE e \in Problems /\ Fails(t, e)
    BY <1>0, <2>2, <2>3, <2>4, FailsBlame
  <2>5. CASE ~(e \in Problems /\ Fails(t, e))
    <3>1. UNCHANGED <<exc, exception>> /\ \A u \in Tasks : out'[u] \in {out[u], "Error"}
      BY <1>0, <2>1, <2>5 DEF TypeOK
    <3>2. Blames(t, "ok")
      BY <2>3, <3>1 DEF Blames, Problems
    <3> QED BY <3>2
  <2> QED BY <2>4, <2>5
<1>5. CASE JoinAfter(t)
  <2>1. PICK e \in Problems \cup {"ok", "Error"} :
          /\ Joined(t, After[t], e)
          /\ \/ Fails(t, e) /\ e = "Error" /\ met' = [met EXCEPT ![t] = "none"]
             \/ UNCHANGED <<exc, exception, out>> /\ met' = [met EXCEPT ![t] = e]
    BY <1>5 DEF JoinAfter
  <2>2. e = "cancel" => \E u \in Tasks : "cancel" \in {out[u], exc[u], met[u]}
    <3>1. e = "cancel" => met[t] = "cancel" \/ \E d \in After[t] : out[d] = "cancel"
      BY <2>1 DEF Joined, Outcomes
    <3> QED BY <1>9, <3>1
  <2>3. out[t] = "none"
    BY <1>5 DEF JoinAfter, IInv, Result
  <2>4. CASE Fails(t, e) /\ e = "Error" /\ met' = [met EXCEPT ![t] = "none"]
    <3>1. \A u \in Tasks : met'[u] \in {met[u], "none"}
      BY <1>0, <2>4 DEF TypeOK
    <3> QED BY <1>0, <2>4, <3>1, FailsBlame
  <2>5. CASE UNCHANGED <<exc, exception, out>> /\ met' = [met EXCEPT ![t] = e]
    <3>1. \A u \in Tasks : met'[u] \in {met[u], e}
      BY <1>0, <2>5 DEF TypeOK
    <3>2. Blames(t, e)
      BY <2>2, <2>3, <2>5, <3>1 DEF Blames, Problems
    <3> QED BY <3>2
  <2> QED BY <2>1, <2>4, <2>5
<1>6. CASE Finish(t)
  <2>1. met[t] \in Problems \cup {"ok"} /\ UNCHANGED met
    BY <1>0, <1>6 DEF Finish, IInv, Result, TypeOK
  <2>2. CASE Succeeds(t)
    <3>1. \A u \in Tasks : out'[u] \in {out[u], "ok"}
      BY <1>0, <2>2 DEF Succeeds, TypeOK
    <3>2. out'[t] = "ok"
      BY <1>0, <2>2 DEF Succeeds, TypeOK
    <3>3. Blames(t, "ok")
      BY <2>1, <2>2, <3>1, <3>2 DEF Succeeds, Blames, Problems
    <3> QED BY <3>3
  <2>3. CASE ~Succeeds(t)
    <3>1. PICK e \in Problems : Fails(t, e) /\ (e = met[t] \/ (e = "cancel" /\ cancelled))
      BY <1>6, <2>1, <2>3 DEF Finish, Problems
    <3>2. Blames(t, e)
      BY <1>0, <2>1, <3>1, FailsBlame
    <3> QED BY <3>2
  <2> QED BY <2>2, <2>3
<1>7. CASE BeginFuture(t) \/ EndFuture(t)
  <2>1. Kind[t] = "future" /\ UNCHANGED met
    BY <1>7 DEF BeginFuture, EndFuture, IInv, Family
  <2>2. \/ \E e \in Problems : FutureFails(t, e)
        \/ Succeeds(t) \/ Fails(t, "Error")
        \/ UNCHANGED <<exc, exception, out>>
    BY <1>7 DEF BeginFuture, EndFuture, Problems
  <2>3. CASE \E e \in Problems : FutureFails(t, e)
    BY <1>0, <2>1, <2>3, FutureBlame
  <2>4. CASE Succeeds(t) \/ UNCHANGED <<exc, exception, out>>
    <3>1. \A u \in Tasks : out'[u] \in {out[u], "ok"}
      BY <1>0, <2>4 DEF Succeeds, TypeOK
    <3>2. Blames(t, "ok")
      BY <2>1, <2>4, <3>1 DEF Succeeds, Blames, Problems
    <3> QED BY <3>2
  <2>5. CASE Fails(t, "Error")
    <3>1. Blames(t, "Error")
      BY <1>0, <2>1, <2>5, FailsBlame
    <3> QED BY <3>1
  <2> QED BY <2>2, <2>3, <2>4, <2>5
<1> QED BY <1>1, <1>2, <1>3, <1>4, <1>5, <1>6, <1>7 DEF Run

-----------------------------------------------------------------------------
\* The invariant, and what it says

LEMMA Initially == Init => IInv
<1> SUFFICES ASSUME Init PROVE IInv
  OBVIOUS
<1> USE DEF Init
<1>1. TypeOK
  BY DEF TypeOK, Stages, Problems
<1>2. \A t \in Tasks : Family(t) /\ Result(t)
  BY TreeAssumption DEF Family, Result, Idle, Subtasks
<1>3. Phases /\ Blame
  BY DEF Phases, Idle, Blame, Blamed, Problems
<1> QED BY <1>1, <1>2, <1>3 DEF IInv

LEMMA Inductive == IInv /\ [Next]_vars => IInv'
<1> SUFFICES ASSUME IInv, [Next]_vars PROVE IInv'
  OBVIOUS
<1>0. TypeOK'
  BY Typed DEF IInv
<1>1. ASSUME NEW t \in Tasks, Run(t) PROVE IInv'
  <2>1. Settled(t) /\ UNCHANGED <<phase, reported, cancelled>>
    BY <1>1, RunSettles
  <2>2. \A u \in Tasks : Family(u)' /\ Result(u)'
    BY <2>1, OthersStay DEF Settled
  <2>3. Phases' /\ Blame'
    BY <1>1, <2>1, PhasesHold, RunBlames, BlameHolds
  <2> QED BY <1>0, <2>2, <2>3 DEF IInv
<1>2. CASE start \/ cancel \/ Stop \/ UNCHANGED vars
  <2>1. UNCHANGED <<exception, taskVars>>
    BY <1>2 DEF start, cancel, Stop, vars
  <2>2. \A u \in Tasks : Family(u)' /\ Result(u)'
    BY <2>1 DEF taskVars, IInv, Family, Result, Idle, Quiet
  <2>3. cancelled => cancelled'
    BY <1>2 DEF start, cancel, Stop, vars, executorVars
  <2>4. Blame'
    BY <2>1, <2>3 DEF taskVars, IInv, Blame, Blamed
  <2>5. Phases'
    <3>1. CASE start
      BY <2>1, <3>1 DEF start, taskVars, IInv, Phases, Idle
    <3>2. CASE Stop
      BY <2>1, <3>2 DEF Stop, taskVars, IInv, Phases, Idle
    <3>3. CASE cancel \/ UNCHANGED vars
      BY <2>1, <2>3, <3>3 DEF cancel, vars, executorVars, taskVars, IInv, Phases, Idle
    <3> QED BY <1>2, <3>1, <3>2, <3>3
  <2> QED BY <1>0, <2>2, <2>4, <2>5 DEF IInv
<1>3. CASE EnterRoot
  <2>1. Root \in Tasks /\ Idle(Tasks) /\ reported = "none" /\ TypeOK
    BY <1>3, TreeAssumption DEF EnterRoot, IInv, Phases
  <2>2. UNCHANGED <<cancelled, exception, state, met, out>>
    BY <1>3 DEF EnterRoot
  <2>3. CASE cancelled
    <3>1. phase' = "stopped" /\ reported' = "failure" /\ UNCHANGED stage
      BY <1>3, <2>3 DEF EnterRoot
    <3>2. \A u \in Tasks : Family(u)' /\ Result(u)'
      BY <2>2, <3>1 DEF IInv, Family, Result, Idle, Quiet
    <3>3. Phases' /\ Blame'
      BY <2>1, <2>2, <2>3, <3>1 DEF IInv, Phases, Idle, Blame
    <3> QED BY <1>0, <3>2, <3>3 DEF IInv
  <2>4. CASE ~cancelled
    <3>1. phase' = "running" /\ UNCHANGED <<reported, exc>> /\ stage' = [stage EXCEPT ![Root] = "begin"]
      BY <1>3, <2>4 DEF EnterRoot
    <3>2. stage'[Root] = "begin" /\ \A u \in Tasks \ {Root} : stage'[u] = "idle"
      BY <2>1, <3>1 DEF TypeOK, Idle
    <3>3. ASSUME NEW u \in Tasks PROVE Family(u)' /\ Result(u)'
      <4>1. \A d \in Subtasks(u) : stage'[d] = "idle"
        BY <3>2, Tree
      <4>2. stage[u] = "idle" /\ stage'[u] \in {"idle", "begin"} /\ Family(u) /\ Result(u)
        BY <2>1, <3>2 DEF IInv, Idle
      <4>3. stage'[u] # "idle" => u = Root
        BY <3>2
      <4> QED BY <2>2, <4>1, <4>2, <4>3 DEF Family, Result, Idle
    <3>4. Phases'
      BY <2>1, <3>1, <3>2 DEF Phases
    <3>5. Blame'
      BY <2>2, <3>1 DEF IInv, Blame, Blamed
    <3> QED BY <1>0, <3>3, <3>4, <3>5 DEF IInv
  <2> QED BY <2>3, <2>4
<1> QED BY <1>1, <1>2, <1>3 DEF Next

LEMMA Invariant == Spec => []IInv
BY Initially, Inductive, PTL DEF Spec

\* The states of the executor, the tasks and their futures.
THEOREM TypesHold == Spec => []TypeOK
<1>1. IInv => TypeOK
  BY DEF IInv
<1> QED BY <1>1, Invariant, PTL

\* getDependents have ended, successfully where the task relies on them, before
\* it runs; getDependencies begin after it; and both have ended when it has.
THEOREM OrderHolds == Spec => []TreeOrder
<1>1. IInv => TreeOrder
  <2> SUFFICES ASSUME IInv, NEW t \in Tasks
               PROVE  /\ stage[t] \in {"running", "after", "waitAfter", "finish"} =>
                           \A d \in Before[t] : /\ stage[d] \in {"idle", "ended"}
                                                /\ t \in Relying => out[d] = "ok"
                      /\ state[t] \in {"READY", "RUNNING"} => \A d \in After[t] : stage[d] = "idle"
                      /\ stage[t] = "ended" =>
                           \A d \in Before[t] \cup After[t] : stage[d] \in {"idle", "ended"}
    BY DEF TreeOrder
  <2>1. Family(t) /\ Result(t) /\ stage[t] \in Stages
    BY DEF IInv, TypeOK
  <2> QED BY <2>1 DEF Family, Result, Idle, Quiet, Subtasks, Stages
<1> QED BY <1>1, Invariant, PTL

\* When onStop is called, or an Error was handled, no task is at work.
THEOREM StopsAreQuiet == Spec => []QuietAfterStop
<1>1. IInv => QuietAfterStop
  <2> SUFFICES ASSUME IInv, phase \in {"stopped", "uncaught"} PROVE Quiet(Tasks)
    BY DEF QuietAfterStop, Quiet
  <2>1. Root \in Tasks
    BY TreeAssumption
  <2>2. stage[Root] \in {"idle", "ended"}
    BY <2>1 DEF IInv, Phases, Idle
  <2> QED BY <2>2, RootOutlivesAll
<1> QED BY <1>1, Invariant, PTL

\* onStop(true) means that all the root needs, however deep, has succeeded;
\* onStop(false) comes with the exception to blame, unless the executor was
\* cancelled.  A root that is itself somebody else's future may be cancelled
\* without an exception (executeCompletableFutureTask), so it is excluded.
THEOREM StopsAreTrue == ASSUME Kind[Root] # "future" PROVE Spec => []StopTrue
<1>1. IInv => StopTrue
  <2> SUFFICES ASSUME IInv PROVE StopTrue
    OBVIOUS
  <2>1. Root \in Tasks
    BY TreeAssumption
  <2>2. \A t \in Tasks : Needed(t) \subseteq Tasks
    BY Tree, Parts
  <2>3. SuccessComplete
    <3>1. \A t \in Tasks : state[t] = "SUCCEEDED" => \A d \in Needed(t) : state[d] = "SUCCEEDED"
      BY <2>2 DEF IInv, Result
    <3>2. reported = "success" => state[Root] = "SUCCEEDED"
      BY <2>1 DEF IInv, Result, Phases, TypeOK
    <3> QED BY <3>1, <3>2 DEF SuccessComplete
  <2>4. FailureExplained
    <3> SUFFICES ASSUME reported = "failure", ~cancelled
                 PROVE  exception = "error" \/ (exception = "cancel" /\ Blamed)
      BY DEF FailureExplained, Blamed
    <3>1. stage[Root] = "ended" /\ out[Root] \notin {"Error", "ok"}
      BY DEF IInv, Phases, TypeOK
    <3>2. out[Root] \in Problems
      BY <2>1, <3>1 DEF IInv, Result, TypeOK
    <3>3. exception \in Problems
      BY <2>1, <3>2 DEF IInv, Blame, TypeOK
    <3> QED BY <3>3 DEF IInv, Blame, Problems
  <2> QED BY <2>3, <2>4 DEF StopTrue
<1> QED BY <1>1, Invariant, PTL

Doomed ==
  /\ cancelled /\ reported # "success"
  /\ stage[Root] = "ended" => out[Root] # "ok"

LEMMA DoomedStays == IInv /\ Doomed /\ [Next]_vars => Doomed'
<1> SUFFICES ASSUME IInv, Doomed, [Next]_vars PROVE Doomed'
  OBVIOUS
<1>0. Root \in Tasks /\ TypeOK
  BY TreeAssumption DEF IInv
<1>1. ASSUME NEW t \in Tasks, Run(t) PROVE Doomed'
  <2>1. Settled(t) /\ UNCHANGED <<phase, reported, cancelled>>
    BY <1>1, RunSettles
  <2>2. PICK G : Moves(t, G)
    BY <2>1 DEF Settled
  <2>3. CASE t # Root
    <3>1. stage'[Root] = stage[Root] /\ out'[Root] = out[Root]
      BY <1>0, <2>2, <2>3, Tree DEF Moves, Subtasks
    <3> QED BY <2>1, <3>1 DEF Doomed
  <2>4. CASE t = Root
    <3>1. out[t] # "ok"
      BY <2>2 DEF IInv, Result, Moves
    <3>2. \/ UNCHANGED out
          \/ \E e \in Problems \cup {"Error"} : out' = [out EXCEPT ![t] = e]
      <4>1. cancelled /\ (stage[t] = "finish" => met[t] \in Problems \cup {"ok"})
        BY DEF Doomed, IInv, Result, TypeOK
      <4>2. \A e \in ExecuteOutcomes(t) : e \in Problems \cup {"ok", "Error"}
        BY <1>0, Outcome
      <4> QED BY <1>1, <4>1, <4>2 DEF Run, Begin, EnterBefore, EnterAfter, EnterGroup, JoinBefore,
                 execute, JoinAfter, Finish, BeginFuture, EndFuture, Fails, FutureFails, Problems
    <3>3. out'[t] # "ok"
      BY <1>0, <3>1, <3>2 DEF TypeOK, Problems
    <3> QED BY <2>1, <2>4, <3>3 DEF Doomed
  <2> QED BY <2>3, <2>4
<1>2. CASE start \/ cancel \/ UNCHANGED vars
  BY <1>2 DEF start, cancel, vars, executorVars, taskVars, Doomed
<1>3. CASE EnterRoot
  <2>1. stage[Root] = "idle" /\ stage'[Root] # "ended"
    BY <1>0, <1>3 DEF EnterRoot, IInv, Phases, Idle, TypeOK
  <2> QED BY <1>3, <2>1 DEF EnterRoot, Doomed
<1>4. CASE Stop
  BY <1>4 DEF Stop, taskVars, Doomed
<1> QED BY <1>1, <1>2, <1>3, <1>4 DEF Next

\* A cancel() that finds the root still at work is answered by onStop(false).
THEOREM CancelsWin == Spec => CancelWins
<1>1. IInv /\ cancelled /\ stage[Root] # "ended" => Doomed
  BY DEF IInv, TypeOK, Phases, Doomed
<1>2. Doomed => reported # "success"
  BY DEF Doomed
<1> QED BY <1>1, <1>2, DoomedStays, Invariant, PTL DEF Spec, CancelWins

-----------------------------------------------------------------------------
(***************************************************************************)
(* Who has been heard of when the chain stops.  A task is told of for the  *)
(* last time when it ends, and an Error alone ends it without a word       *)
(* (Hearing).  If no action throws one, an Error is a failed assertion of  *)
(* whenComplete (NoError), and the assertion holds where the task before   *)
(* whenComplete has an exception exactly when it fails (Agrees).           *)
(***************************************************************************)
Words == {"ready", "running"}
LastWords == {"finished", "failed"}
Ends(s) == {i \in 1..Len(s) : s[i] \in LastWords}

Hearing ==
  /\ heard \in [Tasks -> Seq(Words \cup LastWords)]
  /\ \A t \in Tasks :
       /\ stage[t] # "ended" => Ends(heard[t]) = {}
       /\ stage[t] = "idle" => heard[t] = <<>>
       /\ out[t] = "Error" => Ends(heard[t]) = {}
       /\ stage[t] = "ended" /\ out[t] # "Error" => Ends(heard[t]) = {Len(heard[t])}

NoError == Erring = {} /\ (\E t \in Tasks : out[t] = "Error") => broken # {}

HInv == IInv /\ Hearing /\ NoError

LEMMA EndsOfAppend ==
  ASSUME NEW s \in Seq(Words \cup LastWords), Ends(s) = {}, NEW w \in Words \cup LastWords
  PROVE  /\ Append(s, w) \in Seq(Words \cup LastWords)
         /\ w \in Words => Ends(Append(s, w)) = {}
         /\ w \in LastWords => Ends(Append(s, w)) = {Len(Append(s, w))}
<1>1. /\ Append(s, w) \in Seq(Words \cup LastWords) /\ Len(Append(s, w)) = Len(s) + 1
      /\ Append(s, w)[Len(s) + 1] = w /\ \A i \in 1..Len(s) : Append(s, w)[i] = s[i]
  OBVIOUS
<1>2. Len(s) \in Nat /\ \A i \in 1..Len(s) : s[i] \notin LastWords
  BY DEF Ends
<1>3. \A i \in 1..(Len(s) + 1) : i \in 1..Len(s) \/ i = Len(s) + 1
  BY <1>2
<1>4. Len(s) + 1 \in 1..(Len(s) + 1)
  BY <1>2
<1>5. \A i \in Ends(Append(s, w)) : i = Len(s) + 1
  BY <1>1, <1>2, <1>3 DEF Ends
<1>6. w \in Words => w \notin LastWords
  BY DEF Words, LastWords
<1>7. Len(s) + 1 \in Ends(Append(s, w)) <=> w \in LastWords
  BY <1>1, <1>4 DEF Ends
<1> QED BY <1>1, <1>5, <1>6, <1>7

\* What listeners hear of a step of t.
Told(t) ==
  /\ \A u \in Tasks \ {t} : heard'[u] = heard[u]
  /\ heard' = [u \in Tasks |-> heard'[u]]
  /\ \/ /\ stage'[t] # "ended"
        /\ heard'[t] = heard[t] \/ \E w \in Words : heard'[t] = Append(heard[t], w)
     \/ /\ stage'[t] = "ended" /\ out'[t] # "Error"
        /\ \E w \in LastWords : heard'[t] = Append(heard[t], w)
     \/ /\ stage'[t] = "ended" /\ out'[t] = "Error" /\ heard'[t] = heard[t]

LEMMA EndTold ==
  ASSUME TypeOK, Hearing, NEW t \in Tasks, NEW e \in Problems \cup {"Error"},
         Fails(t, e) \/ (e \in Problems /\ FutureFails(t, e)) \/ Succeeds(t)
  PROVE  Told(t)
<1>1. stage'[t] = "ended"
  BY DEF Fails, FutureFails, Succeeds, TypeOK
<1>2. \/ \E w \in LastWords : Tell(t, w) /\ out'[t] # "Error"
      \/ heard' = heard /\ out'[t] = "Error"
  BY DEF Fails, FutureFails, Succeeds, TypeOK, Problems, LastWords
<1> QED BY <1>1, <1>2 DEF Tell, Hearing, Told

LEMMA RunTells ==
  ASSUME HInv, NEW t \in Tasks, Run(t) PROVE Told(t)
<1>0. TypeOK /\ Hearing
  BY DEF HInv, IInv
<1>1. ASSUME NEW to \in Stages \ {"ended"}, stage' = [stage EXCEPT ![t] = to],
             heard' = heard \/ \E w \in Words : Tell(t, w)
      PROVE  Told(t)
  BY <1>0, <1>1 DEF Tell, Hearing, Told, TypeOK
<1> USE DEF Stages, Words
<1>2. CASE Begin(t) \/ BeginFuture(t)
  <2>1. CASE Fails(t, "cancel") \/ FutureFails(t, "cancel")
    BY <1>0, <2>1, EndTold DEF Problems
  <2>2. CASE ~(Fails(t, "cancel") \/ FutureFails(t, "cancel"))
    BY <1>1, <1>2, <2>2 DEF Begin, BeginFuture
  <2> QED BY <2>1, <2>2
<1>3. CASE EnterBefore(t) \/ EnterAfter(t)
  <2>1. heard' = heard /\ stage'[t] # "ended"
    BY <1>0, <1>3 DEF EnterBefore, EnterAfter, EnterGroup, TypeOK
  <2> QED BY <1>0, <2>1 DEF Hearing, Told
<1>4. CASE JoinBefore(t)
  <2>1. \/ \E e \in Problems \cup {"Error"} : Fails(t, e)
        \/ stage' = [stage EXCEPT ![t] = "running"] /\ Tell(t, "running")
    BY <1>4 DEF JoinBefore, Problems
  <2> QED BY <1>0, <1>1, <2>1, EndTold
<1>5. CASE execute(t)
  <2>1. PICK e \in ExecuteOutcomes(t) :
          \/ stage' = [stage EXCEPT ![t] = "after"] /\ heard' = heard
          \/ /\ e = "Error" /\ stage' = [stage EXCEPT ![t] = "ended"]
             /\ out' = [out EXCEPT ![t] = e] /\ heard' = heard
          \/ e \notin {"ok", "Error"} /\ Fails(t, e)
    BY <1>5 DEF execute
  <2>2. e \in Problems \cup {"ok", "Error"}
    BY <1>0, Outcome
  <2>3. CASE stage' = [stage EXCEPT ![t] = "after"] /\ heard' = heard
    BY <1>1, <2>3
  <2>4. CASE /\ stage' = [stage EXCEPT ![t] = "ended"] /\ heard' = heard
             /\ e = "Error" /\ out' = [out EXCEPT ![t] = e]
    BY <1>0, <2>4 DEF TypeOK, Hearing, Told
  <2>5. CASE e \notin {"ok", "Error"} /\ Fails(t, e)
    BY <1>0, <2>2, <2>5, EndTold
  <2> QED BY <2>1, <2>3, <2>4, <2>5
<1>6. CASE JoinAfter(t)
  <2>1. \/ Fails(t, "Error")
        \/ stage' = [stage EXCEPT ![t] = "finish"] /\ heard' = heard
    BY <1>6 DEF JoinAfter
  <2> QED BY <1>0, <1>1, <2>1, EndTold
<1>7. CASE Finish(t)
  <2>1. met[t] \in Problems \cup {"ok"}
    BY <1>0, <1>7 DEF HInv, IInv, Result, TypeOK, Finish
  <2>2. Succeeds(t) \/ \E e \in Problems \cup {"Error"} : Fails(t, e)
    BY <1>7, <2>1 DEF Finish, Problems
  <2> QED BY <1>0, <2>2, EndTold
<1>8. CASE EndFuture(t)
  <2>1. Succeeds(t) \/ Fails(t, "Error") \/ \E e \in Problems : FutureFails(t, e)
    BY <1>8 DEF EndFuture, Problems
  <2> QED BY <1>0, <2>1, EndTold
<1> QED BY <1>2, <1>3, <1>4, <1>5, <1>6, <1>7, <1>8 DEF Run

LEMMA RunHeard ==
  ASSUME HInv, NEW t \in Tasks, Run(t) PROVE Hearing'
<1>1. PICK G : Moves(t, G)
  BY RunSettles DEF HInv, Settled
<1>2. Told(t)
  BY RunTells
<1>3. heard[t] \in Seq(Words \cup LastWords) /\ Ends(heard[t]) = {} /\ stage'[t] # "idle"
  BY <1>1 DEF HInv, Hearing, Moves
<1>4. /\ heard'[t] \in Seq(Words \cup LastWords)
      /\ stage'[t] # "ended" \/ out'[t] = "Error" => Ends(heard'[t]) = {}
      /\ stage'[t] = "ended" /\ out'[t] # "Error" => Ends(heard'[t]) = {Len(heard'[t])}
  BY <1>2, <1>3, EndsOfAppend DEF Told
<1>5. ASSUME NEW u \in Tasks \ {t}
      PROVE  /\ heard'[u] \in Seq(Words \cup LastWords)
             /\ stage'[u] # "ended" => Ends(heard'[u]) = {}
             /\ stage'[u] = "idle" => heard'[u] = <<>>
             /\ out'[u] = "Error" => Ends(heard'[u]) = {}
             /\ stage'[u] = "ended" /\ out'[u] # "Error" => Ends(heard'[u]) = {Len(heard'[u])}
  <2>1. heard'[u] = heard[u] /\ out'[u] = out[u]
    BY <1>1, <1>2 DEF Told, Moves
  <2>2. stage'[u] = stage[u] \/ (stage[u] = "idle" /\ stage'[u] = "begin")
    BY <1>1 DEF Moves, Idle
  <2> QED BY <2>1, <2>2 DEF HInv, Hearing
<1>6. heard' \in [Tasks -> Seq(Words \cup LastWords)]
  BY <1>2, <1>4, <1>5 DEF Told
<1> QED BY <1>3, <1>4, <1>5, <1>6 DEF Hearing, Ends

\* An Error that no action throws comes from an assertion, or from a subtask it ended.
LEMMA RunErrs ==
  ASSUME HInv, NEW t \in Tasks, Run(t) PROVE NoError' /\ broken \subseteq broken'
<1>0. TypeOK /\ Subtasks(t) \subseteq Tasks
  BY Tree DEF HInv, IInv
<1>1. broken \subseteq broken'
  BY DEF Run, Begin, EnterBefore, JoinBefore, execute, EnterAfter, EnterGroup, JoinAfter, Finish,
     BeginFuture, EndFuture
<1>2. Erring = {} =>
        out' = out \/ (\E e : out' = [out EXCEPT ![t] = e] /\ (e = "Error" => broken' # {}))
  <2> SUFFICES ASSUME Erring = {}
               PROVE  \/ out' = out
                      \/ \E e : out' = [out EXCEPT ![t] = e] /\ (e = "Error" => broken' # {})
    OBVIOUS
  <2>1. ASSUME NEW G \in {Before[t], After[t]}, Joined(t, G, "Error") PROVE broken' # {}
    <3>1. \E d \in G : out[d] = "Error"
      BY <2>1 DEF Joined, Outcomes
    <3>2. G \subseteq Tasks
      BY <1>0, Parts
    <3> QED BY <1>1, <3>1, <3>2 DEF HInv, NoError
  <2>2. CASE execute(t)
    <3>1. PICK e \in ExecuteOutcomes(t) : out' = out \/ (out' = [out EXCEPT ![t] = e])
      BY <2>2 DEF execute, Fails
    <3>2. Asserts(t) => e # "Error"
      <4>1. "Error" \notin Throws(t)
        BY DEF Throws
      <4>2. \A p \in Before[t] : exc[p] # "Error"
        BY <1>0, Parts DEF TypeOK, Problems
      <4> QED BY <4>1, <4>2 DEF ExecuteOutcomes
    <3>3. ~Asserts(t) => broken' # {}
      BY <2>2 DEF execute
    <3> QED BY <3>1, <3>2, <3>3
  <2>3. CASE Finish(t)
    <3>1. met[t] # "Error"
      BY <1>0 DEF TypeOK, Problems
    <3> QED BY <2>3, <3>1 DEF Finish, Fails, Succeeds
  <2>4. CASE JoinBefore(t)
    BY <2>1, <2>4 DEF JoinBefore, Fails, Problems
  <2>5. CASE JoinAfter(t)
    BY <2>1, <2>5 DEF JoinAfter, Fails
  <2>6. CASE Begin(t) \/ BeginFuture(t)
    BY <2>6 DEF Begin, BeginFuture, Fails, FutureFails
  <2>7. CASE EnterBefore(t) \/ EnterAfter(t)
    BY <2>7 DEF EnterBefore, EnterAfter, EnterGroup
  <2>8. CASE EndFuture(t)
    BY <2>8 DEF EndFuture, FutureFails, Succeeds, Problems
  <2> QED BY <2>2, <2>3, <2>4, <2>5, <2>6, <2>7, <2>8 DEF Run
<1>3. NoError'
  BY <1>0, <1>1, <1>2 DEF HInv, NoError, TypeOK
<1> QED BY <1>1, <1>3

LEMMA HeardInitially == Init => HInv
<1> SUFFICES ASSUME Init PROVE HInv
  OBVIOUS
<1>1. <<>> \in Seq(Words \cup LastWords) /\ Ends(<<>>) = {}
  BY DEF Ends
<1> QED BY <1>1, Initially DEF Init, HInv, Hearing, NoError

LEMMA HeardStep == HInv /\ [Next]_vars => HInv'
<1> SUFFICES ASSUME HInv, [Next]_vars PROVE HInv'
  OBVIOUS
<1>1. IInv'
  BY Inductive DEF HInv
<1>2. ASSUME NEW t \in Tasks, Run(t) PROVE HInv'
  BY <1>1, <1>2, RunHeard, RunErrs DEF HInv
<1>3. CASE start \/ cancel \/ Stop \/ UNCHANGED vars
  <2>1. UNCHANGED <<stage, out, heard, broken>>
    BY <1>3 DEF start, cancel, Stop, vars, taskVars
  <2> QED BY <1>1, <2>1 DEF HInv, Hearing, NoError, Ends
<1>4. CASE EnterRoot
  <2>1. UNCHANGED <<out, heard, broken>>
    BY <1>4 DEF EnterRoot
  <2>2. \A u \in Tasks : stage[u] = "idle" /\ stage'[u] # "ended"
    BY <1>4 DEF EnterRoot, HInv, IInv, Phases, Idle, TypeOK
  <2> QED BY <1>1, <2>1, <2>2 DEF HInv, Hearing, NoError, Ends
<1> QED BY <1>2, <1>3, <1>4 DEF Next

\* onStop and onFinished, onFailed: when onStop is called no task is at work, and
\* each that listeners saw getting ready has been reported, once and last, except
\* exactly those that ended with an Error: `resolved instanceof Exception` keeps
\* every end of theirs from the listeners.
THEOREM EveryoneIsHeard == Spec => []StopLast
<1>1. HInv /\ QuietAfterStop => AllHeard
  <2> SUFFICES ASSUME HInv, QuietAfterStop, phase = "stopped", NEW t \in Tasks
               PROVE  /\ out[t] = "Error" => Ends(heard[t]) = {}
                      /\ out[t] # "Error" /\ Len(heard[t]) > 0 => Ends(heard[t]) = {Len(heard[t])}
    BY DEF AllHeard, Ends, LastWords
  <2>1. stage[t] \in {"idle", "ended"}
    BY DEF QuietAfterStop
  <2>2. Len(<<>>) = 0
    OBVIOUS
  <2> QED BY <2>1, <2>2 DEF HInv, Hearing
<1> QED BY <1>1, HeardInitially, HeardStep, StopsAreQuiet, PTL DEF Spec, StopLast

-----------------------------------------------------------------------------
(***************************************************************************)
(* When the assertion of whenComplete holds.  It compares how the task     *)
(* before it ended with that task's exception.  The two disagree for a     *)
(* future that was cancelled (no exception) and for a task that goes on    *)
(* after a subtask it does not rely on failed (an exception all the same); *)
(* Agreeable excludes just these.                                          *)
(***************************************************************************)
Agreeable(p) ==
  \/ Kind[p] = "finalizer"
  \/ Kind[p] = "plain" /\ (p \in Relying \/ Before[p] = {})

Agreeing == \A t \in Tasks : Kind[t] = "finalizer" => \A p \in Before[t] : Agreeable(p)

Clean(G) == \A d \in G : exc[d] = "none"

Agrees(t) ==
  /\ stage[t] \in {"idle", "begin", "before"} => Clean(Before[t])
  /\ stage[t] \in {"idle", "begin", "before", "waitBefore", "running", "after"} => Clean(After[t])
  /\ stage[t] = "waitBefore" /\ met[t] = "cancel" =>
       Before[t] # {} /\ \A p \in Before[t] : exc[p] = "cancel"
  /\ stage[t] = "running" /\ Kind[t] = "finalizer" =>
       \A p \in Before[t] : depsOk[t] <=> exc[p] = "none"
  /\ Agreeable(t) =>
       /\ stage[t] \in {"begin", "before", "waitBefore", "after", "waitAfter", "finish"} =>
            exc[t] = "none"
       /\ stage[t] = "running" => (exc[t] = "none" <=> (Kind[t] = "finalizer" => depsOk[t]))
       /\ stage[t] = "ended" /\ out[t] # "Error" => (exc[t] = "none" <=> out[t] = "ok")

AInv ==
  /\ HInv /\ broken = {}
  /\ \A t \in Tasks : Agrees(t)
  /\ phase \in {"new", "started"} => exc[Root] = "none"

\* What a step of t does to the others: its subtasks begin, or are cancelled
\* before they do.
Touches(t) ==
  /\ stage[t] \notin {"idle", "ended"}
  /\ \A u \in Tasks \ {t} :
       /\ depsOk'[u] = depsOk[u] /\ met'[u] = met[u] /\ out'[u] = out[u]
       /\ \/ stage'[u] = stage[u] /\ exc'[u] = exc[u]
          \/ u \in Subtasks(t) /\ stage[u] = "idle" /\ stage'[u] = "idle"
          \/ /\ stage[u] = "idle" /\ stage'[u] = "begin" /\ exc'[u] = exc[u]
             /\ \/ stage[t] = "before" /\ u \in Before[t]
                \/ stage[t] = "after" /\ u \in After[t]

LEMMA OthersAgree ==
  ASSUME AInv, NEW t \in Tasks, Touches(t), NEW u \in Tasks \ {t}
  PROVE  Agrees(u)'
<1>1. Agrees(u) /\ Agrees(t) /\ Family(u) /\ TypeOK
  BY DEF AInv, HInv, IInv
<1>2. \A d \in Subtasks(u) : d \in Tasks /\ d \notin Subtasks(t)
  BY Tree
<1>3. \A d \in Subtasks(u) : stage[d] \in {"idle", "ended"} => d # t /\ exc'[d] = exc[d]
  BY <1>2, Parts DEF Touches
<1>4. depsOk'[u] = depsOk[u] /\ met'[u] = met[u] /\ out'[u] = out[u]
  BY DEF Touches
<1>5. CASE stage'[u] = "idle"
  <2>1. stage[u] = "idle"
    BY <1>5 DEF Touches
  <2>2. \A d \in Subtasks(u) : exc'[d] = exc[d]
    BY <1>1, <1>3, <2>1 DEF Family, Idle
  <2> QED BY <1>1, <1>5, <2>1, <2>2, Parts DEF Agrees, Clean
<1>6. CASE stage[u] = "idle" /\ stage'[u] = "begin"
  <2>1. exc'[u] = exc[u] /\ exc[u] = "none"
    <3>1. exc'[u] = exc[u] /\ (\/ stage[t] = "before" /\ u \in Before[t]
                               \/ stage[t] = "after" /\ u \in After[t])
      BY <1>6 DEF Touches
    <3> QED BY <1>1, <3>1 DEF Agrees, Clean
  <2>2. \A d \in Subtasks(u) : exc'[d] = exc[d]
    BY <1>1, <1>3, <1>6 DEF Family, Idle
  <2> QED BY <1>1, <1>6, <2>1, <2>2, Parts DEF Agrees, Clean
<1>7. CASE stage[u] # "idle" /\ stage'[u] = stage[u] /\ exc'[u] = exc[u]
  <2>1. stage[u] \in {"begin", "before"} => \A d \in Subtasks(u) : exc'[d] = exc[d]
    BY <1>1, <1>3 DEF Family, Idle
  <2>2. stage[u] \in {"waitBefore", "running", "after"} => \A d \in After[u] : exc'[d] = exc[d]
    BY <1>1, <1>3, Parts DEF Family, Idle
  <2>3. (stage[u] = "waitBefore" /\ met[u] = "cancel") \/ stage[u] = "running"
        => \A d \in Before[u] : exc'[d] = exc[d]
    BY <1>1, <1>3, Parts DEF Family, Idle, Quiet
  <2>4. /\ stage'[u] \in {"idle", "begin", "before"} => \A d \in Before[u] : exc'[d] = "none"
        /\ stage'[u] \in {"idle", "begin", "before", "waitBefore", "running", "after"}
           => \A d \in After[u] : exc'[d] = "none"
    BY <1>1, <1>7, <2>1, <2>2, Parts DEF Agrees, Clean
  <2>5. stage'[u] = "waitBefore" /\ met'[u] = "cancel" =>
          Before[u] # {} /\ \A p \in Before[u] : exc'[p] = "cancel"
    BY <1>1, <1>4, <1>7, <2>3 DEF Agrees
  <2>6. stage'[u] = "running" /\ Kind[u] = "finalizer" =>
          \A p \in Before[u] : depsOk'[u] <=> exc'[p] = "none"
    BY <1>1, <1>4, <1>7, <2>3 DEF Agrees
  <2>7. Agreeable(u) =>
         /\ stage'[u] \in {"begin", "before", "waitBefore", "after", "waitAfter", "finish"} =>
              exc'[u] = "none"
         /\ stage'[u] = "running" => (exc'[u] = "none" <=> (Kind[u] = "finalizer" => depsOk'[u]))
         /\ stage'[u] = "ended" /\ out'[u] # "Error" => (exc'[u] = "none" <=> out'[u] = "ok")
    BY <1>1, <1>4, <1>7 DEF Agrees
  <2> QED BY <2>4, <2>5, <2>6, <2>7 DEF Agrees, Clean, Agreeable
<1> QED BY <1>5, <1>6, <1>7 DEF Touches

\* A task ends: with an exception and a problem, or with neither.
LEMMA EndAgrees ==
  ASSUME AInv, NEW t \in Tasks, stage[t] \notin {"idle", "ended"},
         \A u \in Tasks \ {t} : depsOk'[u] = depsOk[u] /\ met'[u] = met[u],
         \/ \E e \in Problems \cup {"Error"} : Fails(t, e)
         \/ Kind[t] = "future" /\ \E e \in Problems : FutureFails(t, e)
         \/ Succeeds(t) /\ (Agreeable(t) => exc[t] = "none")
  PROVE  Touches(t) /\ Agrees(t)'
<1>1. TypeOK
  BY DEF AInv, HInv, IInv
<1>2. stage' = [stage EXCEPT ![t] = "ended"] /\ (\E e : out' = [out EXCEPT ![t] = e])
      /\ (exc' = exc \/ \E e : exc' = [exc EXCEPT ![t] = e])
  BY DEF Fails, FutureFails, Succeeds
<1>3. stage'[t] = "ended" /\ Touches(t)
  BY <1>1, <1>2 DEF TypeOK, Touches
<1>4. Agreeable(t) /\ out'[t] # "Error" => (exc'[t] = "none" <=> out'[t] = "ok")
  <2>1. CASE \E e \in Problems \cup {"Error"} : Fails(t, e)
    BY <1>1, <2>1 DEF Fails, TypeOK, Problems
  <2>2. CASE Kind[t] = "future"
    BY <2>2 DEF Agreeable
  <2>3. CASE Succeeds(t) /\ (Agreeable(t) => exc[t] = "none")
    BY <1>1, <2>3 DEF Succeeds, TypeOK
  <2> QED BY <2>1, <2>2, <2>3
<1> QED BY <1>3, <1>4 DEF Agrees, Agreeable

\* A task goes on to a stage where its exception is the one it had.
LEMMA PassAgrees ==
  ASSUME AInv, NEW t \in Tasks, stage[t] \notin {"idle", "ended"},
         NEW to \in {"before", "future", "after", "finish"},
         stage' = [stage EXCEPT ![t] = to], UNCHANGED <<exc, depsOk, out>>,
         \A u \in Tasks \ {t} : met'[u] = met[u],
         to = "before" => Clean(Before[t]), to \in {"before", "after"} => Clean(After[t]),
         Agreeable(t) => exc[t] = "none"
  PROVE  Touches(t) /\ Agrees(t)'
<1>1. stage'[t] = to /\ \A u \in Tasks \ {t} : stage'[u] = stage[u]
  BY DEF AInv, HInv, IInv, TypeOK
<1>2. Touches(t)
  BY <1>1 DEF Touches
<1> QED BY <1>1, <1>2 DEF Agrees, Clean, Agreeable

LEMMA EnterAgrees ==
  ASSUME AInv, NEW t \in Tasks, EnterBefore(t) \/ EnterAfter(t)
  PROVE  Touches(t) /\ Agrees(t)'
<1>1. TypeOK /\ Family(t) /\ Agrees(t)
  BY DEF AInv, HInv, IInv
<1>2. PICK from \in {"before", "after"}, wait \in {"waitBefore", "waitAfter"}, G \in SUBSET Tasks :
        /\ EnterGroup(t, from, G, wait)
        /\ \/ from = "before" /\ wait = "waitBefore" /\ G = Before[t]
           \/ from = "after" /\ wait = "waitAfter" /\ G = After[t]
  BY TreeAssumption DEF EnterBefore, EnterAfter
<1>3. stage[t] = from /\ UNCHANGED <<depsOk, out>> /\ G \subseteq Subtasks(t) /\ t \notin G
  BY <1>2, Tree, Parts DEF EnterGroup
<1>4. Idle(G) /\ met[t] = "none"
  BY <1>1, <1>2, <1>3, Parts DEF Family, Idle
<1>5. CASE cancelled /\ G # {}
  <2>1. /\ exc' = [u \in Tasks |-> IF u \in G THEN "cancel" ELSE exc[u]]
        /\ met' = [met EXCEPT ![t] = "cancel"] /\ stage' = [stage EXCEPT ![t] = wait]
    BY <1>2, <1>5 DEF EnterGroup
  <2>2. stage'[t] = wait /\ exc'[t] = exc[t]
    BY <1>1, <1>3, <2>1 DEF TypeOK
  <2>3. Touches(t)
    BY <1>1, <1>3, <1>4, <2>1 DEF TypeOK, Idle, Touches
  <2>4. wait = "waitBefore" => /\ \A d \in Before[t] : exc'[d] = "cancel"
                               /\ \A d \in After[t] : exc'[d] = "none"
    <3>1. Before[t] \subseteq Tasks /\ After[t] \subseteq Tasks /\ Before[t] \cap After[t] = {}
      BY TreeAssumption
    <3> QED BY <1>1, <1>2, <1>3, <2>1, <3>1 DEF Agrees, Clean
  <2> QED BY <1>1, <1>2, <1>3, <1>5, <2>2, <2>3, <2>4 DEF Agrees, Clean, Agreeable
<1>6. CASE ~(cancelled /\ G # {})
  <2>1. /\ stage' = [u \in Tasks |-> IF u = t THEN wait ELSE IF u \in G THEN "begin" ELSE stage[u]]
        /\ UNCHANGED <<exc, met>>
    BY <1>2, <1>6 DEF EnterGroup
  <2>2. Touches(t) /\ stage'[t] = wait
    BY <1>2, <1>3, <1>4, <2>1 DEF Idle, Touches
  <2> QED BY <1>1, <1>2, <1>3, <1>4, <2>1, <2>2 DEF Agrees, Clean, Agreeable
<1> QED BY <1>5, <1>6

LEMMA JoinBeforeAgrees ==
  ASSUME AInv, Agreeing, NEW t \in Tasks, JoinBefore(t)
  PROVE  Touches(t) /\ Agrees(t)'
<1>1. TypeOK /\ Family(t) /\ Agrees(t) /\ stage[t] = "waitBefore"
  BY DEF AInv, HInv, IInv, JoinBefore
<1>2. PICK e \in Problems \cup {"ok", "Error"} :
        /\ Joined(t, Before[t], e)
        /\ IF e = "Error" \/ (e \in Problems /\ t \in Relying)
           THEN Fails(t, e) /\ UNCHANGED depsOk
           ELSE /\ depsOk' = [depsOk EXCEPT ![t] = (e = "ok")]
                /\ exc' = IF e = "ok" THEN exc ELSE [exc EXCEPT ![t] = e]
                /\ stage' = [stage EXCEPT ![t] = "running"]
                /\ UNCHANGED out
  BY DEF JoinBefore
<1>3. met' = [met EXCEPT ![t] = "none"]
  BY DEF JoinBefore
<1>4. CASE e = "Error" \/ (e \in Problems /\ t \in Relying)
  <2>1. Fails(t, e) /\ UNCHANGED depsOk /\ e \in Problems \cup {"Error"}
    BY <1>2, <1>4
  <2> QED BY <1>1, <1>3, <2>1, EndAgrees DEF TypeOK
<1>5. CASE ~(e = "Error" \/ (e \in Problems /\ t \in Relying))
  <2>1. /\ depsOk' = [depsOk EXCEPT ![t] = (e = "ok")] /\ UNCHANGED out
        /\ exc' = IF e = "ok" THEN exc ELSE [exc EXCEPT ![t] = e]
        /\ stage' = [stage EXCEPT ![t] = "running"]
    BY <1>2, <1>5
  <2>2. stage'[t] = "running" /\ \A u \in Tasks \ {t} : exc'[u] = exc[u] /\ stage'[u] = stage[u]
    BY <1>1, <2>1 DEF TypeOK
  <2>3. depsOk'[t] <=> e = "ok"
    BY <1>1, <2>1 DEF TypeOK
  <2>4. Touches(t)
    BY <1>1, <1>3, <2>1, <2>2 DEF TypeOK, Touches
  <2>5. exc'[t] = IF e = "ok" THEN exc[t] ELSE e
    BY <1>1, <2>1 DEF TypeOK
  <2>6. t \notin Before[t] /\ t \notin After[t] /\ Before[t] \subseteq Tasks /\ After[t] \subseteq Tasks
    BY Tree, Parts
  <2>7. Kind[t] = "finalizer" => \A p \in Before[t] : e = "ok" <=> exc[p] = "none"
    <3> SUFFICES ASSUME Kind[t] = "finalizer", NEW p \in Before[t]
                 PROVE  e = "ok" <=> exc[p] = "none"
      OBVIOUS
    <3>1. CASE met[t] = "cancel"
      BY <1>1, <1>2, <3>1 DEF Joined, Agrees
    <3>2. CASE met[t] # "cancel"
      <4>1. Agreeable(p)
        BY DEF Agreeing
      <4>2. Before[t] = {p}
        BY TreeAssumption
      <4>3. stage[p] = "ended" /\ e \in Outcomes({p})
        BY <1>2, <3>2, <4>2 DEF Joined, Ended
      <4>4. e = out[p]
        BY <4>3 DEF Outcomes
      <4>5. out[p] # "Error"
        BY <1>5, <4>4
      <4>6. Agrees(p)
        BY <2>6 DEF AInv
      <4> QED BY <4>1, <4>3, <4>4, <4>5, <4>6 DEF Agrees
    <3> QED BY <3>1, <3>2
  <2>8. Agreeable(t) => (exc'[t] = "none" <=> (Kind[t] = "finalizer" => depsOk'[t]))
    <3> SUFFICES ASSUME Agreeable(t) PROVE exc'[t] = "none" <=> (Kind[t] = "finalizer" => depsOk'[t])
      OBVIOUS
    <3>1. exc[t] = "none"
      BY <1>1 DEF Agrees
    <3>2. CASE Kind[t] = "finalizer"
      BY <2>3, <2>5, <3>1, <3>2 DEF Problems
    <3>3. CASE Kind[t] # "finalizer"
      <4>1. e = "ok"
        <5>1. CASE t \in Relying
          BY <1>5, <5>1
        <5>2. CASE Before[t] = {}
          <6>1. met[t] # "cancel" /\ e \in Outcomes({})
            BY <1>1, <1>2, <5>2 DEF Joined, Agrees
          <6> QED BY <6>1 DEF Outcomes
        <5> QED BY <3>3, <5>1, <5>2 DEF Agreeable
      <4> QED BY <2>5, <3>1, <3>3, <4>1
    <3> QED BY <3>2, <3>3
  <2>9. Agrees(t)'
    BY <1>1, <2>2, <2>3, <2>6, <2>7, <2>8 DEF Agrees, Clean, Agreeable
  <2> QED BY <2>4, <2>9
<1> QED BY <1>4, <1>5

LEMMA ExecuteAgrees ==
  ASSUME AInv, Agreeing, NEW t \in Tasks, execute(t)
  PROVE  Touches(t) /\ Agrees(t)' /\ broken' = {}
<1>1. TypeOK /\ Family(t) /\ Agrees(t) /\ stage[t] = "running" /\ UNCHANGED <<depsOk, met>>
  BY DEF AInv, HInv, IInv, execute
<1>2. Asserts(t)
  <2> SUFFICES ASSUME Kind[t] = "finalizer", NEW p \in Before[t]
               PROVE  depsOk[t] = (exc[p] = "none")
    BY DEF Asserts
  <2>1. depsOk[t] <=> exc[p] = "none"
    BY <1>1 DEF Agrees
  <2>2. depsOk[t] \in BOOLEAN
    BY <1>1 DEF TypeOK
  <2> QED BY <2>1, <2>2
<1>3. broken' = {}
  BY <1>2 DEF execute, AInv
<1>4. PICK e \in ExecuteOutcomes(t) :
        \/ /\ e = "ok" /\ stage' = [stage EXCEPT ![t] = "after"]
           /\ UNCHANGED <<exc, out>>
        \/ /\ e = "Error" /\ stage' = [stage EXCEPT ![t] = "ended"]
           /\ out' = [out EXCEPT ![t] = e] /\ UNCHANGED exc
        \/ e \notin {"ok", "Error"} /\ Fails(t, e)
  BY DEF execute
<1>5. /\ e \in Problems \cup {"ok", "Error"}
      /\ e = "ok" => (Kind[t] = "finalizer" => depsOk[t])
  <2>1. Throws(t) \subseteq {"ok", "error", "cancel", "Error"}
    BY DEF Throws
  <2>2. \A p \in Before[t] : exc[p] \in Problems \cup {"none"}
    BY <1>1, TreeAssumption DEF TypeOK
  <2>3. Kind[t] = "finalizer" /\ ~depsOk[t] => \A p \in Before[t] : exc[p] # "none"
    BY <1>1 DEF Agrees
  <2>4. CASE Kind[t] = "finalizer" /\ ~depsOk[t]
    BY <1>2, <2>1, <2>2, <2>3, <2>4 DEF ExecuteOutcomes, Problems
  <2>5. CASE ~(Kind[t] = "finalizer" /\ ~depsOk[t])
    BY <1>2, <2>1, <2>5 DEF ExecuteOutcomes, Problems
  <2> QED BY <2>4, <2>5
<1>6. CASE e = "ok" /\ stage' = [stage EXCEPT ![t] = "after"] /\ UNCHANGED <<exc, out>>
  <2>1. Clean(After[t]) /\ (Agreeable(t) => exc[t] = "none")
    BY <1>1, <1>5, <1>6 DEF Agrees
  <2> QED BY <1>1, <1>3, <1>6, <2>1, PassAgrees
<1>7. CASE e \notin {"ok", "Error"} /\ Fails(t, e)
  BY <1>1, <1>3, <1>5, <1>7, EndAgrees
<1>8. CASE /\ e = "Error" /\ stage' = [stage EXCEPT ![t] = "ended"]
           /\ out' = [out EXCEPT ![t] = e] /\ UNCHANGED exc
  <2>1. stage'[t] = "ended" /\ out'[t] = "Error" /\ Touches(t)
    BY <1>1, <1>8 DEF TypeOK, Touches
  <2> QED BY <1>3, <2>1 DEF Agrees, Agreeable
<1> QED BY <1>4, <1>5, <1>6, <1>7, <1>8 DEF Problems

LEMMA RunAgrees ==
  ASSUME AInv, Agreeing, NEW t \in Tasks, Run(t)
  PROVE  Touches(t) /\ Agrees(t)' /\ broken' = {}
<1>1. TypeOK /\ Family(t) /\ Result(t) /\ Agrees(t)
  BY DEF AInv, HInv, IInv
<1>2. CASE execute(t)
  BY <1>2, ExecuteAgrees
<1>3. ~execute(t) => broken' = {}
  BY DEF Run, Begin, EnterBefore, JoinBefore, EnterAfter, EnterGroup, JoinAfter, Finish,
     BeginFuture, EndFuture, AInv
<1>4. CASE EnterBefore(t) \/ EnterAfter(t)
  BY <1>2, <1>3, <1>4, EnterAgrees
<1>5. CASE JoinBefore(t)
  BY <1>2, <1>3, <1>5, JoinBeforeAgrees
<1>6. CASE Begin(t) \/ BeginFuture(t)
  <2>1. stage[t] = "begin" /\ UNCHANGED <<depsOk, met>>
    BY <1>6 DEF Begin, BeginFuture
  <2>2. CASE Fails(t, "cancel") \/ (Kind[t] = "future" /\ FutureFails(t, "cancel"))
    BY <1>2, <1>3, <2>1, <2>2, EndAgrees DEF Problems
  <2>3. CASE ~(Fails(t, "cancel") \/ (Kind[t] = "future" /\ FutureFails(t, "cancel")))
    <3>1. UNCHANGED <<exc, out>> /\ \E to \in {"before", "future"} : stage' = [stage EXCEPT ![t] = to]
      BY <1>6, <2>3 DEF Begin, BeginFuture
    <3>2. Clean(Before[t]) /\ Clean(After[t]) /\ (Agreeable(t) => exc[t] = "none")
      BY <1>1, <2>1 DEF Agrees
    <3> QED BY <1>2, <1>3, <2>1, <3>1, <3>2, PassAgrees
  <2> QED BY <2>2, <2>3
<1>7. CASE JoinAfter(t)
  <2>1. stage[t] = "waitAfter" /\ UNCHANGED depsOk /\ \E e : met' = [met EXCEPT ![t] = e]
    BY <1>7 DEF JoinAfter
  <2>2. \A u \in Tasks \ {t} : met'[u] = met[u]
    BY <1>1, <2>1 DEF TypeOK
  <2>3. \/ Fails(t, "Error")
        \/ stage' = [stage EXCEPT ![t] = "finish"] /\ UNCHANGED <<exc, out>>
    BY <1>7 DEF JoinAfter
  <2>4. Agreeable(t) => exc[t] = "none"
    BY <1>1, <2>1 DEF Agrees
  <2> QED BY <1>2, <1>3, <2>1, <2>2, <2>3, <2>4, EndAgrees, PassAgrees
<1>8. CASE Finish(t)
  <2>1. stage[t] = "finish" /\ UNCHANGED <<depsOk, met>> /\ met[t] \in Problems \cup {"ok"}
    BY <1>1, <1>8 DEF Finish, Result, TypeOK
  <2>2. (\E e \in Problems : Fails(t, e)) \/ Succeeds(t)
    BY <1>8, <2>1 DEF Finish, Problems
  <2>3. Agreeable(t) => exc[t] = "none"
    BY <1>1, <2>1 DEF Agrees
  <2> QED BY <1>2, <1>3, <2>1, <2>2, <2>3, EndAgrees
<1>9. CASE EndFuture(t)
  <2>1. stage[t] = "future" /\ Kind[t] = "future" /\ UNCHANGED <<depsOk, met>>
    BY <1>1, <1>9 DEF EndFuture, Family
  <2>2. (\E e \in Problems : FutureFails(t, e)) \/ Succeeds(t) \/ Fails(t, "Error")
    BY <1>9 DEF EndFuture, Problems
  <2>3. ~Agreeable(t)
    BY <2>1 DEF Agreeable
  <2> QED BY <1>2, <1>3, <2>1, <2>2, <2>3, EndAgrees
<1> QED BY <1>2, <1>4, <1>5, <1>6, <1>7, <1>8, <1>9 DEF Run

LEMMA AgreesInitially == Init => AInv
<1> SUFFICES ASSUME Init PROVE AInv
  OBVIOUS
<1>1. \A t \in Tasks : Agrees(t)
  BY TreeAssumption DEF Init, Agrees, Clean
<1> QED BY <1>1, HeardInitially, TreeAssumption DEF AInv, Init

LEMMA AgreesStep == Agreeing /\ AInv /\ [Next]_vars => AInv'
<1> SUFFICES ASSUME Agreeing, AInv, [Next]_vars PROVE AInv'
  OBVIOUS
<1>0. HInv' /\ TypeOK /\ Root \in Tasks
  BY HeardStep, TreeAssumption DEF AInv, HInv, IInv
<1>1. ASSUME NEW t \in Tasks, Run(t) PROVE AInv'
  <2>1. Touches(t) /\ Agrees(t)' /\ broken' = {}
    BY <1>1, RunAgrees
  <2>2. \A u \in Tasks : Agrees(u)'
    BY <2>1, OthersAgree
  <2>3. phase' = phase /\ phase \notin {"new", "started"}
    BY <1>1, <2>1, RunSettles DEF Touches, AInv, HInv, IInv, Phases, Idle
  <2> QED BY <1>0, <2>1, <2>2, <2>3 DEF AInv
<1>2. CASE start \/ cancel \/ Stop \/ UNCHANGED vars
  <2>1. UNCHANGED <<taskVars, broken>>
    BY <1>2 DEF start, cancel, Stop, vars
  <2>2. \A u \in Tasks : Agrees(u)'
    BY <2>1 DEF taskVars, AInv, Agrees, Clean, Agreeable
  <2>3. phase' \in {"new", "started"} => phase \in {"new", "started"}
    BY <1>2 DEF start, cancel, Stop, vars, executorVars
  <2> QED BY <1>0, <2>1, <2>2, <2>3 DEF taskVars, AInv
<1>3. CASE EnterRoot
  <2>1. /\ \A u \in Tasks : stage[u] = "idle" /\ Root \notin Subtasks(u) /\ Subtasks(u) \subseteq Tasks
        /\ UNCHANGED <<depsOk, met, out, broken>> /\ exc[Root] = "none"
    BY <1>3, Tree DEF EnterRoot, AInv, HInv, IInv, Phases, Idle
  <2>2. /\ \A u \in Tasks \ {Root} : exc'[u] = exc[u] /\ stage'[u] = "idle"
        /\ stage'[Root] = "idle" \/ (stage'[Root] = "begin" /\ exc'[Root] = "none")
        /\ phase' \notin {"new", "started"}
    BY <1>0, <1>3, <2>1 DEF EnterRoot, TypeOK
  <2>3. ASSUME NEW u \in Tasks PROVE Agrees(u)'
    <3>1. \A d \in Subtasks(u) : exc'[d] = "none"
      BY <2>1, <2>2, Parts DEF AInv, Agrees, Clean, Subtasks
    <3>2. stage'[u] \in {"idle", "begin"} /\ (stage'[u] = "begin" => exc'[u] = "none")
      BY <2>2
    <3> QED BY <3>1, <3>2, Parts DEF Agrees, Clean, Agreeable
  <2> QED BY <1>0, <2>1, <2>2, <2>3 DEF AInv
<1> QED BY <1>1, <1>2, <1>3 DEF Next

\* Task.whenComplete: "When whenComplete succeeded, Task.exception must be null"
\* holds, cancelled or not, in every tree where the task before each whenComplete
\* is another one, or a plain task that relies on all that come before it.
THEOREM AssertionsHold == ASSUME Agreeing PROVE Spec => []AssertionHolds
<1>1. AInv => AssertionHolds
  BY DEF AInv, AssertionHolds
<1> QED BY <1>1, AgreesInitially, AgreesStep, PTL DEF Spec

\* AsyncTaskExecutor's `throw new CompletionException(throwable)` for an Error: in
\* these trees none comes up unless an action or an outside future brings it.  Then
\* nobody is at work, or has yet to be heard of, when the chain is reported stopped,
\* and it is never left to handleUncaughtException.
THEOREM StopsLast ==
  ASSUME Agreeing, Erring = {}
  PROVE  Spec => [](StopLast /\ phase # "uncaught" /\ \A t \in Tasks : out[t] # "Error")
<1>1. HInv /\ AssertionHolds => \A t \in Tasks : out[t] # "Error"
  BY DEF HInv, NoError, AssertionHolds
<1>2. HInv /\ AssertionHolds => phase # "uncaught"
  BY <1>1, TreeAssumption DEF HInv, IInv, Phases
<1> QED BY <1>1, <1>2, AssertionsHold, EveryoneIsHeard, HeardInitially, HeardStep, PTL DEF Spec
=============================================================================
