------------------------- MODULE GameInstallProofs -------------------------
(***************************************************************************)
(* Proofs about GameInstall for any set of selections and any number of    *)
(* attempts.  The inductive invariant says who may hold the installation:  *)
(* a running task excludes every other running task, a build and a result  *)
(* on its way; a failure on its way means that the task which reported it  *)
(* can no longer continue the chain; a verdict, or a dialog left before a  *)
(* build's result was received, leaves only cancelled tasks behind.  A     *)
(* second one, which rests on it, says how far the chain is: what is       *)
(* merged, which tasks do not exist yet, and that a failure anywhere stops *)
(* it for good.                                                            *)
(***************************************************************************)
EXTENDS GameInstall, TLAPS, SequenceTheorems, FiniteSetTheorems

Messages == [kind : {"finish", "failure", "result"}, task : Task, ok : BOOLEAN]

NoResult == \A i \in DOMAIN queue : queue[i].kind # "result"
NoneHeld == \A t \in BuildTasks : listener[t] = "none"
NoBuild  == service \notin BuildTasks /\ NoResult /\ NoneHeld

\* doInBackground is under way only for a running task.
PcInv == \A t \in Task : pc[t] \notin {"none", "done"} => status[t] = "running"

\* One task runs, and then nothing is built.
RunningAlone ==
  \A t \in Task : status[t] = "running" =>
     NoBuild /\ \A u \in Task : status[u] = "running" => u = t

\* One build runs, or its result is with the listener, or in the queue.
BuildAlone ==
  /\ service \in BuildTasks => NoResult /\ NoneHeld
  /\ ~NoneHeld => NoResult
  /\ \A t, u \in BuildTasks : listener[t] # "none" /\ listener[u] # "none" => t = u
  /\ \A i, j \in DOMAIN queue :
        queue[i].kind = "result" /\ queue[j].kind = "result" => i = j

\* A result posted by doInBackground is the only one.
FinishInv ==
  \A i \in DOMAIN queue : queue[i].kind = "finish" =>
     /\ status[queue[i].task] = "running" /\ pc[queue[i].task] = "done"
     /\ \A j \in DOMAIN queue : queue[j].kind = "finish" => i = j

\* A failure on its way is the only one, and its task is, or is about to be,
\* cancelled.
FailureInv ==
  \A i \in DOMAIN queue : queue[i].kind = "failure" =>
     /\ NoBuild
     /\ \A j \in DOMAIN queue : queue[j].kind = "failure" => i = j
     /\ \A t \in Task : /\ pc[t] # "report"
                        /\ status[t] = "running" => cancelled[t] \/ pc[t] = "cancel"

\* After a verdict nothing is left that could give another one.
SpentInv ==
  successes + failures > 0 =>
     /\ NoBuild
     /\ \A i \in DOMAIN queue : queue[i].kind # "failure"
     /\ \A t \in Task : status[t] = "running" => cancelled[t] /\ pc[t] # "report"

\* After the user left with no result received only cancelled tasks run.
LeftInv ==
  stale = "left" =>
     /\ json = <<>> /\ dialog = "dismissed" /\ NoBuild
     /\ \A t \in BuildTasks : server[t] # "listening"
     /\ \A t \in Task : status[t] = "running" => cancelled[t]

JsonClosed == json # <<>> => dialog = "dismissed"

IInv ==
  /\ TypeOK
  /\ PcInv
  /\ RunningAlone
  /\ BuildAlone
  /\ FinishInv
  /\ FailureInv
  /\ SpentInv
  /\ LeftInv
  /\ JsonClosed
  /\ OneVerdict

-----------------------------------------------------------------------------
\* The tasks that are built are tasks; every step number is small.
LEMMA TaskFacts ==
  /\ BuildTasks \subseteq Task /\ BuildTasks \subseteq PatchTasks
  /\ PatchTasks \subseteq Task /\ FileTasks \subseteq Task
  /\ "minecraft" \in Task
  /\ \A i \in DOMAIN Pipeline : Pipeline[i] \in Task
  /\ "none" \notin BuildTasks /\ "exiting" \notin BuildTasks
<1>1. \A i \in DOMAIN Pipeline : Pipeline[i] \in Task
  BY DEF Task
<1>2. DOMAIN Pipeline = 1..10
  BY DEF Pipeline
<1>3. /\ Pipeline[1] = "minecraft" /\ Pipeline[3] = "forgeDownload"
      /\ Pipeline[4] = "forgeInstall" /\ Pipeline[5] = "optifineDownload"
      /\ Pipeline[6] = "optifineInstall" /\ Pipeline[8] = "fabricAPI"
      /\ Pipeline[10] = "quiltAPI"
  BY DEF Pipeline
<1>4. BuildTasks \subseteq Task /\ FileTasks \subseteq Task /\ "minecraft" \in Task
  <2>1. /\ Pipeline[1] \in Task /\ Pipeline[3] \in Task /\ Pipeline[4] \in Task
        /\ Pipeline[5] \in Task /\ Pipeline[6] \in Task /\ Pipeline[8] \in Task
        /\ Pipeline[10] \in Task
    BY <1>1, <1>2
  <2>2. QED
    BY <2>1, <1>3 DEF BuildTasks, FileTasks
<1>5. BuildTasks \cap FileTasks = {} /\ "none" \notin BuildTasks /\ "exiting" \notin BuildTasks
  BY DEF BuildTasks, FileTasks
<1>6. QED
  BY <1>1, <1>4, <1>5 DEF PatchTasks

LEMMA StepsType == \A t \in PatchTasks : Steps[t] \in 1..4
<1> SUFFICES ASSUME NEW t \in PatchTasks PROVE Steps[t] \in 1..4
  OBVIOUS
<1>1. t \in Task /\ t \notin FileTasks
  BY DEF PatchTasks
<1>2. \E i \in 1..10 : t = Pipeline[i]
  BY <1>1 DEF Task, Pipeline
<1>3. t \in {"minecraft", "liteLoader", "forgeInstall", "optifineInstall", "fabric", "quilt"}
  BY <1>1, <1>2 DEF Pipeline, FileTasks
<1>4. QED
  BY <1>3 DEF Steps

\* What appending to and taking from the message queue does to its elements.
LEMMA AppendFacts ==
  ASSUME NEW q \in Seq(Messages), NEW m \in Messages
  PROVE  /\ Append(q, m) \in Seq(Messages)
         /\ DOMAIN q \subseteq DOMAIN Append(q, m)
         /\ \A i \in DOMAIN q : Append(q, m)[i] = q[i]
         /\ \A i \in DOMAIN Append(q, m) :
               \/ i \in DOMAIN q /\ Append(q, m)[i] = q[i]
               \/ i \notin DOMAIN q /\ i = Len(q) + 1 /\ Append(q, m)[i] = m
<1>1. DOMAIN q = 1..Len(q) /\ Len(q) \in Nat
  OBVIOUS
<1>2. /\ Append(q, m) \in Seq(Messages) /\ Len(Append(q, m)) = Len(q) + 1
      /\ \A i \in 1..Len(q) : Append(q, m)[i] = q[i]
      /\ Append(q, m)[Len(q) + 1] = m
  BY AppendProperties
<1>3. DOMAIN Append(q, m) = 1..(Len(q) + 1)
  BY <1>2
<1>4. QED
  BY <1>1, <1>2, <1>3

LEMMA AppendedFacts ==
  ASSUME NEW q \in Seq(Messages), NEW m \in Messages, NEW r, r = Append(q, m)
  PROVE  /\ \A i \in DOMAIN q : r[i] = q[i]
         /\ \A i \in DOMAIN r : i \in DOMAIN q \/ (i = Len(q) + 1 /\ r[i] = m)
<1>1. /\ \A i \in DOMAIN q : Append(q, m)[i] = q[i]
      /\ \A i \in DOMAIN Append(q, m) : i \in DOMAIN q \/ (i = Len(q) + 1 /\ Append(q, m)[i] = m)
  BY AppendFacts
<1>2. QED
  BY <1>1

LEMMA ElementFacts ==
  ASSUME NEW q \in Seq(Messages), NEW i \in DOMAIN q
  PROVE  q[i] \in Messages /\ q[i].task \in Task /\ q[i].kind \in {"finish", "failure", "result"}
<1>1. i \in 1..Len(q)
  OBVIOUS
<1>2. q[i] \in Messages
  BY <1>1, ElementOfSeq
<1>3. QED
  BY <1>2 DEF Messages

LEMMA TailFacts ==
  ASSUME NEW q \in Seq(Messages), q # <<>>
  PROVE  /\ Tail(q) \in Seq(Messages) /\ Head(q) \in Messages
         /\ 1 \in DOMAIN q /\ q[1] = Head(q)
         /\ \A i \in DOMAIN Tail(q) : i + 1 \in DOMAIN q /\ i + 1 # 1 /\ Tail(q)[i] = q[i + 1]
<1>1. /\ Tail(q) \in Seq(Messages) /\ Head(q) \in Messages
      /\ Len(Tail(q)) = Len(q) - 1 /\ \A i \in 1..Len(Tail(q)) : Tail(q)[i] = q[i + 1]
  BY HeadTailProperties
<1>2. Len(q) \in Nat /\ Len(q) > 0 /\ DOMAIN q = 1..Len(q) /\ q[1] = Head(q)
  BY EmptySeq
<1>3. DOMAIN Tail(q) = 1..Len(Tail(q))
  BY <1>1
<1>4. QED
  BY <1>1, <1>2, <1>3
-----------------------------------------------------------------------------
(* Types.                                                                  *)

PcValues == {"none", "queued", "step", "check", "report", "cancel", "done"}

LEMMA MessageType ==
  \A kind \in {"finish", "failure", "result"}, t \in Task, ok \in BOOLEAN :
     Message(kind, t, ok) \in Messages
BY DEF Message, Messages

LEMMA ReturnType ==
  ASSUME TypeOK, NEW t \in Task, NEW ok \in BOOLEAN, Return(t, ok)
  PROVE  /\ pc' = [pc EXCEPT ![t] = "done"] /\ pc' \in [Task -> PcValues]
         /\ queue' = Append(queue, Message("finish", t, ok)) /\ queue' \in Seq(Messages)
         /\ step' \in [Task -> 0..(TryTimes + 4)]
<1>1. queue \in Seq(Messages)
  BY DEF TypeOK, Messages
<1>2. Message("finish", t, ok) \in Messages
  BY MessageType
<1>3. Append(queue, Message("finish", t, ok)) \in Seq(Messages)
  BY <1>1, <1>2, AppendFacts
<1>4. QED
  BY <1>3 DEF TypeOK, Return, PcValues

LEMMA NextStepType ==
  ASSUME TypeOK, NEW t \in PatchTasks, NextStep(t)
  PROVE  /\ \/ pc' = [pc EXCEPT ![t] = "step"] /\ queue' = queue
            \/ pc' = [pc EXCEPT ![t] = "done"] /\ queue' = Append(queue, Message("finish", t, TRUE))
         /\ pc' \in [Task -> PcValues] /\ queue' \in Seq(Messages)
         /\ step' \in [Task -> 0..(TryTimes + 4)]
<1>1. t \in Task /\ Steps[t] \in 1..4 /\ TryTimes \in Nat
  BY TaskFacts, StepsType, TryTimesAssumption
<1>2. CASE step[t] + 1 < Steps[t]
  <2>1. /\ step' = [step EXCEPT ![t] = @ + 1]
        /\ pc' = [pc EXCEPT ![t] = "step"] /\ queue' = queue
    BY <1>2 DEF NextStep
  <2>2. step[t] \in Nat /\ step[t] + 1 \in 0..(TryTimes + 4)
    BY <1>1, <1>2 DEF TypeOK
  <2>3. step' \in [Task -> 0..(TryTimes + 4)]
    BY <2>1, <2>2, <1>1 DEF TypeOK
  <2>4. QED
    BY <2>1, <2>3, <1>1 DEF TypeOK, PcValues, Messages
<1>3. CASE ~(step[t] + 1 < Steps[t])
  BY <1>1, <1>3, ReturnType DEF NextStep
<1>4. QED
  BY <1>2, <1>3

LEMMA RetryType ==
  ASSUME TypeOK, NEW t \in Task, Retry(t)
  PROVE  /\ \/ pc' = pc /\ queue' = queue
            \/ pc' = [pc EXCEPT ![t] = "done"] /\ queue' = Append(queue, Message("finish", t, FALSE))
         /\ pc' \in [Task -> PcValues] /\ queue' \in Seq(Messages)
         /\ step' \in [Task -> 0..(TryTimes + 4)]
<1>1. CASE step[t] < TryTimes
  <2>1. step' = [step EXCEPT ![t] = @ + 1] /\ pc' = pc /\ queue' = queue
    BY <1>1 DEF Retry
  <2>2. step[t] \in Nat /\ step[t] + 1 \in 0..(TryTimes + 4)
    BY <1>1, TryTimesAssumption DEF TypeOK
  <2>3. step' \in [Task -> 0..(TryTimes + 4)]
    BY <2>1, <2>2 DEF TypeOK
  <2>4. QED
    BY <2>1, <2>3 DEF TypeOK, PcValues, Messages
<1>2. CASE ~(step[t] < TryTimes)
  BY <1>2, ReturnType DEF Retry
<1>3. QED
  BY <1>1, <1>2

LEMMA ExitType ==
  ASSUME TypeOK, NEW q \in Seq(Messages), exit_(q)
  PROVE  /\ cancelled' \in [Task -> BOOLEAN] /\ pc' \in [Task -> PcValues]
         /\ queue' \in Seq(Messages) /\ crashed' \in BOOLEAN
         /\ server' \in [BuildTasks -> {"none", "listening", "broken", "closed"}]
         /\ service' = "none" /\ dialog' = "dismissed"
<1> DEFINE queued == {t \in Task : pc[t] = "queued"}
<1>1. queue' \in Seq(Messages)
  <2>1. CASE queued = {}
    BY <2>1 DEF exit_
  <2>2. CASE queued # {}
    <3>1. PICK t \in Task : t = (CHOOSE u \in queued : TRUE)
      BY <2>2
    <3>2. queue' = Append(q, Message("finish", t, FALSE))
      BY <2>2, <3>1 DEF exit_
    <3>3. Message("finish", t, FALSE) \in Messages
      BY MessageType
    <3>4. QED
      BY <3>2, <3>3, AppendFacts
  <2>3. QED
    BY <2>1, <2>2
<1>2. cancelled' \in [Task -> BOOLEAN] /\ crashed' \in BOOLEAN
  BY DEF exit_, TypeOK
<1>3. pc' \in [Task -> PcValues]
  BY DEF exit_, TypeOK, PcValues
<1>4. server' \in [BuildTasks -> {"none", "listening", "broken", "closed"}]
  BY DEF exit_, TypeOK
<1>5. QED
  BY <1>1, <1>2, <1>3, <1>4 DEF exit_

\* The parts of TypeOK a success callback can disturb.
LEMMA ProceedType ==
  ASSUME TypeOK, NEW t \in Task, NEW q \in Seq(Messages), NEW ended \in SUBSET BuildTasks,
         Proceed(t, q, ended)
  PROVE  /\ status' \in [Task -> {"pending", "running", "finished"}]
         /\ cancelled' \in [Task -> BOOLEAN] /\ pc' \in [Task -> PcValues]
         /\ queue' \in Seq(Messages) /\ crashed' \in BOOLEAN
         /\ server' \in [BuildTasks -> {"none", "listening", "broken", "closed"}]
         /\ service' \in BuildTasks \cup {"none", "exiting"} /\ dialog' \in {"open", "dismissed"}
         /\ merged' \in Seq(PatchTasks) /\ json' \in Seq(PatchTasks)
         /\ successes' \in Nat /\ failures' \in Nat
<1>1. merged' \in Seq(PatchTasks)
  <2>1. merged \in Seq(PatchTasks)
    BY DEF TypeOK
  <2>2. CASE t \in PatchTasks
    BY <2>1, <2>2, AppendProperties DEF Proceed
  <2>3. CASE t \notin PatchTasks
    BY <2>1, <2>3 DEF Proceed
  <2>4. QED
    BY <2>2, <2>3
<1>2. CASE installJson(q) /\ status' = [status EXCEPT ![t] = "finished"]
  <2>1. exit_(q) /\ json' = merged' /\ successes' = successes + 1 /\ failures' = failures
    BY <1>2 DEF installJson
  <2>2. status' \in [Task -> {"pending", "running", "finished"}]
    BY <1>2 DEF TypeOK
  <2>3. successes' \in Nat /\ failures' \in Nat
    BY <2>1 DEF TypeOK
  <2>4. QED
    BY <1>1, <2>1, <2>2, <2>3, ExitType
<1>3. ASSUME NEW i \in Following(t), Execute(t, Pipeline[i], q, ended)
      PROVE  /\ status' \in [Task -> {"pending", "running", "finished"}]
             /\ cancelled' \in [Task -> BOOLEAN] /\ pc' \in [Task -> PcValues]
             /\ queue' \in Seq(Messages) /\ crashed' \in BOOLEAN
             /\ server' \in [BuildTasks -> {"none", "listening", "broken", "closed"}]
             /\ service' \in BuildTasks \cup {"none", "exiting"}
             /\ dialog' \in {"open", "dismissed"}
             /\ json' \in Seq(PatchTasks) /\ successes' \in Nat /\ failures' \in Nat
  <2>1. Pipeline[i] \in Task
    BY TaskFacts DEF Following
  <2>2. status' \in [Task -> {"pending", "running", "finished"}]
    BY <1>3, <2>1 DEF Execute, TypeOK
  <2>3. pc' \in [Task -> PcValues]
    BY <1>3, <2>1 DEF Execute, TypeOK, PcValues
  <2>4. server' \in [BuildTasks -> {"none", "listening", "broken", "closed"}]
    BY <1>3 DEF Execute, TypeOK
  <2>5. QED
    BY <1>3, <2>2, <2>3, <2>4 DEF Execute, TypeOK
<1>4. QED
  BY <1>1, <1>2, <1>3 DEF Proceed

LEMMA BackgroundType ==
  ASSUME TypeOK, NEW t \in Task, Background(t) \/ Throws(t)
  PROVE  TypeOK'
<1> USE DEF ui, build
<1>1. CASE RunTask(t)
  BY <1>1, TryTimesAssumption DEF RunTask, TypeOK
<1>2. CASE StepDone(t)
  <2>1. /\ pc' \in [Task -> PcValues] /\ queue' \in Seq(Messages)
        /\ step' \in [Task -> 0..(TryTimes + 4)]
    BY <1>2, NextStepType DEF StepDone
  <2>2. builds' \subseteq BuildTasks
    BY <1>2 DEF StepDone, TypeOK
  <2>3. QED
    BY <1>2, <2>1, <2>2 DEF StepDone, TypeOK, PcValues, Messages
<1>3. CASE StepFails(t)
  BY <1>3 DEF StepFails, TypeOK
<1>4. CASE CheckCancelled(t)
  BY <1>4 DEF CheckCancelled, TypeOK
<1>5. CASE Report(t)
  <2>1. queue \in Seq(Messages) /\ Message("failure", t, FALSE) \in Messages
    BY MessageType DEF TypeOK, Messages
  <2>2. queue' \in Seq(Messages)
    BY <1>5, <2>1, AppendFacts DEF Report
  <2>3. QED
    BY <1>5, <2>2 DEF Report, TypeOK, Messages
<1>6. CASE CancelSelf(t)
  <2>1. t \in PatchTasks /\ (Return(t, FALSE) \/ NextStep(t))
    BY <1>6 DEF CancelSelf
  <2>2. /\ pc' \in [Task -> PcValues] /\ queue' \in Seq(Messages)
        /\ step' \in [Task -> 0..(TryTimes + 4)]
    BY <2>1, NextStepType, ReturnType
  <2>3. cancelled' \in [Task -> BOOLEAN]
    BY <1>6 DEF CancelSelf, TypeOK
  <2>4. QED
    BY <1>6, <2>2, <2>3 DEF CancelSelf, TypeOK, PcValues, Messages
<1>7. CASE AttemptDone(t)
  <2>1. /\ pc' \in [Task -> PcValues] /\ queue' \in Seq(Messages)
        /\ step' \in [Task -> 0..(TryTimes + 4)]
    BY <1>7, RetryType, ReturnType DEF AttemptDone
  <2>2. QED
    BY <1>7, <2>1 DEF AttemptDone, TypeOK, PcValues, Messages
<1>8. CASE AttemptFails(t)
  <2>1. /\ pc' \in [Task -> PcValues] /\ queue' \in Seq(Messages)
        /\ step' \in [Task -> 0..(TryTimes + 4)]
    BY <1>8, RetryType, ReturnType DEF AttemptFails
  <2>2. failed' \subseteq Task
    BY <1>8 DEF AttemptFails, TypeOK
  <2>3. QED
    BY <1>8, <2>1, <2>2 DEF AttemptFails, TypeOK, PcValues, Messages
<1>9. CASE Throws(t)
  <2>1. /\ pc' \in [Task -> PcValues] /\ queue' \in Seq(Messages)
        /\ step' \in [Task -> 0..(TryTimes + 4)] /\ crashed' \in BOOLEAN
    BY <1>9, ReturnType DEF Throws, TypeOK, PcValues, Messages
  <2>2. QED
    BY <1>9, <2>1 DEF Throws, TypeOK, PcValues, Messages
<1>10. QED
  BY <1>1, <1>2, <1>3, <1>4, <1>5, <1>6, <1>7, <1>8, <1>9 DEF Background

LEMMA UIType ==
  ASSUME TypeOK, NEW t \in Task, UIThread(t)
  PROVE  TypeOK'
<1> DEFINE q == Tail(queue)
<1>1. queue \in Seq(Messages) /\ queue # <<>>
  BY DEF TypeOK, Messages, UIThread, FinishCancelled, FinishFailed, FinishDone, StartBuild,
         BuildFailed, BuildDone, ShowFailure, Head_
<1>2. q \in Seq(Messages)
  BY <1>1, TailFacts
<1>3. CASE FinishCancelled(t)
  BY <1>2, <1>3 DEF FinishCancelled, TypeOK, ui, Messages
<1>4. CASE FinishFailed(t)
  <2>1. exit_(q) /\ failures' = failures + 1 /\ UNCHANGED <<merged, json, successes>>
    BY <1>4 DEF FinishFailed, throwException
  <2>2. /\ cancelled' \in [Task -> BOOLEAN] /\ pc' \in [Task -> PcValues]
        /\ queue' \in Seq(Messages) /\ crashed' \in BOOLEAN
        /\ server' \in [BuildTasks -> {"none", "listening", "broken", "closed"}]
        /\ service' = "none" /\ dialog' = "dismissed"
    BY <1>2, <2>1, ExitType
  <2>3. status' \in [Task -> {"pending", "running", "finished"}] /\ failures' \in Nat
    BY <1>4, <2>1 DEF FinishFailed, TypeOK
  <2>4. QED
    BY <1>4, <2>1, <2>2, <2>3 DEF FinishFailed, TypeOK, Messages, PcValues
<1>5. CASE FinishDone(t)
  <2>1. Proceed(t, q, {}) /\ UNCHANGED <<selected, step, builds, failed, stale, listener, lost>>
    BY <1>5 DEF FinishDone
  <2>2. /\ status' \in [Task -> {"pending", "running", "finished"}]
        /\ cancelled' \in [Task -> BOOLEAN] /\ pc' \in [Task -> PcValues]
        /\ queue' \in Seq(Messages) /\ crashed' \in BOOLEAN
        /\ server' \in [BuildTasks -> {"none", "listening", "broken", "closed"}]
        /\ service' \in BuildTasks \cup {"none", "exiting"} /\ dialog' \in {"open", "dismissed"}
        /\ merged' \in Seq(PatchTasks) /\ json' \in Seq(PatchTasks)
        /\ successes' \in Nat /\ failures' \in Nat
    <3>1. PICK none \in SUBSET BuildTasks : none = {}
      OBVIOUS
    <3>2. Proceed(t, q, none)
      BY <2>1, <3>1
    <3>3. QED
      BY <1>2, <3>2, ProceedType
  <2>3. QED
    BY <2>1, <2>2 DEF TypeOK, Messages, PcValues
<1>6. CASE StartBuild(t)
  <2>1. t \in BuildTasks
    BY <1>6 DEF StartBuild, TypeOK
  <2>2. /\ server' \in [BuildTasks -> {"none", "listening", "broken", "closed"}]
        /\ lost' \in BOOLEAN /\ service' \in BuildTasks \cup {"none", "exiting"}
    BY <1>6, <2>1 DEF StartBuild, TypeOK
  <2>3. status' \in [Task -> {"pending", "running", "finished"}]
    BY <1>6 DEF StartBuild, TypeOK
  <2>4. QED
    BY <1>2, <1>6, <2>2, <2>3 DEF StartBuild, TypeOK, ui, Messages
<1>7. CASE BuildFailed(t)
  <2>1. exit_(q) /\ failures' = failures + 1 /\ UNCHANGED <<merged, json, successes>>
    BY <1>7 DEF BuildFailed, throwException
  <2>2. /\ cancelled' \in [Task -> BOOLEAN] /\ pc' \in [Task -> PcValues]
        /\ queue' \in Seq(Messages) /\ crashed' \in BOOLEAN
        /\ server' \in [BuildTasks -> {"none", "listening", "broken", "closed"}]
        /\ service' = "none" /\ dialog' = "dismissed"
    BY <1>2, <2>1, ExitType
  <2>3. status' \in [Task -> {"pending", "running", "finished"}] /\ failures' \in Nat
    BY <1>7, <2>1 DEF BuildFailed, TypeOK
  <2>4. QED
    BY <1>7, <2>1, <2>2, <2>3 DEF BuildFailed, TypeOK, Messages, PcValues
<1>8. CASE BuildDone(t)
  <2>1. Proceed(t, q, {t} \cap BuildTasks) /\ UNCHANGED <<selected, step, builds, failed, stale, listener, lost>>
    <3>1. Proceed(t, q, {t}) /\ UNCHANGED <<selected, step, builds, failed, stale, listener, lost>>
      BY <1>8 DEF BuildDone
    <3>2. QED
      BY <3>1 DEF Proceed, Execute
  <2>2. /\ status' \in [Task -> {"pending", "running", "finished"}]
        /\ cancelled' \in [Task -> BOOLEAN] /\ pc' \in [Task -> PcValues]
        /\ queue' \in Seq(Messages) /\ crashed' \in BOOLEAN
        /\ server' \in [BuildTasks -> {"none", "listening", "broken", "closed"}]
        /\ service' \in BuildTasks \cup {"none", "exiting"} /\ dialog' \in {"open", "dismissed"}
        /\ merged' \in Seq(PatchTasks) /\ json' \in Seq(PatchTasks)
        /\ successes' \in Nat /\ failures' \in Nat
    BY <1>2, <2>1, ProceedType
  <2>3. QED
    BY <2>1, <2>2 DEF TypeOK, Messages, PcValues
<1>9. CASE ShowFailure(t)
  <2>1. exit_(q) /\ failures' = failures + 1 /\ UNCHANGED <<merged, json, successes>>
    BY <1>9 DEF ShowFailure, throwException
  <2>2. /\ cancelled' \in [Task -> BOOLEAN] /\ pc' \in [Task -> PcValues]
        /\ queue' \in Seq(Messages) /\ crashed' \in BOOLEAN
        /\ server' \in [BuildTasks -> {"none", "listening", "broken", "closed"}]
        /\ service' = "none" /\ dialog' = "dismissed"
    BY <1>2, <2>1, ExitType
  <2>3. status' \in [Task -> {"pending", "running", "finished"}] /\ failures' \in Nat
    BY <1>9, <2>1 DEF ShowFailure, TypeOK
  <2>4. QED
    BY <1>9, <2>1, <2>2, <2>3 DEF ShowFailure, TypeOK, Messages, PcValues
<1>10. QED
  BY <1>3, <1>4, <1>5, <1>6, <1>7, <1>8, <1>9 DEF UIThread

\* Every step keeps the types.
LEMMA TypeNext == TypeOK /\ [Next]_vars => TypeOK'
<1> SUFFICES ASSUME TypeOK, [Next]_vars PROVE TypeOK'
  OBVIOUS
<1>1. CASE \E t \in Task : UIThread(t) \/ Background(t) \/ Throws(t)
  BY <1>1, UIType, BackgroundType
<1>2. CASE \E t \in BuildTasks, code \in {0, 1} : ServiceReports(t, code)
  <2> PICK t \in BuildTasks, code \in {0, 1} : ServiceReports(t, code)
    BY <1>2
  <2>1. listener' \in [BuildTasks -> {"none", "ok", "failed"}] /\ lost' \in BOOLEAN
    BY DEF ServiceReports, TypeOK
  <2>2. failed' \subseteq Task
    BY TaskFacts DEF ServiceReports, TypeOK
  <2>3. QED
    BY <2>1, <2>2 DEF ServiceReports, TypeOK, ui
<1>2a. CASE \E t \in BuildTasks : HandOver(t)
  <2> PICK t \in BuildTasks : HandOver(t)
    BY <1>2a
  <2>1. PICK m \in Messages : queue' = Append(queue, m)
    BY TaskFacts, MessageType DEF HandOver
  <2>2. queue \in Seq(Messages)
    BY DEF TypeOK, Messages
  <2>3. queue' \in Seq(Messages)
    BY <2>1, <2>2, AppendFacts
  <2>4. listener' \in [BuildTasks -> {"none", "ok", "failed"}]
    BY DEF HandOver, TypeOK
  <2>5. QED
    BY <2>3, <2>4 DEF HandOver, TypeOK, ui, tasks, Messages
<1>3. CASE ServiceStops
  BY <1>3 DEF ServiceStops, TypeOK, ui, tasks
<1>4. CASE ServiceKilled
  BY <1>4 DEF ServiceKilled, TypeOK, ui, tasks
<1>5. CASE ClickCancel
  <2>1. queue \in Seq(Messages) /\ exit_(queue)
    BY <1>5 DEF ClickCancel, TypeOK, Messages
  <2>2. QED
    BY <1>5, <2>1, ExitType DEF ClickCancel, TypeOK, Messages, PcValues
<1>6. CASE UNCHANGED vars
  BY <1>6 DEF vars, TypeOK, ui, tasks, build
<1>7. QED
  BY <1>1, <1>2, <1>2a, <1>3, <1>4, <1>5, <1>6 DEF Next

-----------------------------------------------------------------------------
(* The initial states.                                                     *)

LEMMA InitIInv == Init => IInv
<1> SUFFICES ASSUME Init PROVE IInv
  OBVIOUS
<1>1. TypeOK
  <2>1. selected \subseteq Task
    BY SelectionsAssumption, TaskFacts DEF Init
  <2>2. step \in [Task -> 0..(TryTimes + 4)]
    BY TryTimesAssumption DEF Init
  <2>3. <<>> \in Seq(PatchTasks) /\ <<>> \in Seq([kind : {"finish", "failure", "result"}, task : Task, ok : BOOLEAN])
    BY EmptySeq
  <2>4. service \in BuildTasks \cup {"none", "exiting"} /\ builds \subseteq BuildTasks
    BY DEF Init
  <2>5. QED
    BY <2>1, <2>2, <2>3, <2>4 DEF Init, TypeOK
<1>2. DOMAIN queue = {} /\ service \notin BuildTasks
  BY TaskFacts DEF Init
<1>3. \A t, u \in Task : status[t] = "running" /\ status[u] = "running" => t = u
  BY DEF Init
<1>4. PcInv
  BY DEF Init, PcInv
<1>2a. NoneHeld
  BY DEF Init, NoneHeld
<1>5. RunningAlone /\ BuildAlone /\ FinishInv /\ FailureInv
  <2>1. \A t \in BuildTasks : listener[t] = "none"
    BY <1>2a DEF NoneHeld
  <2>2. QED
    BY <1>2, <1>2a, <1>3, <2>1 DEF RunningAlone, BuildAlone, FinishInv, FailureInv, NoBuild,
                                   NoResult
<1>6. SpentInv /\ LeftInv /\ JsonClosed /\ OneVerdict
  BY DEF Init, SpentInv, LeftInv, JsonClosed, OneVerdict
<1>7. QED
  BY <1>1, <1>4, <1>5, <1>6 DEF IInv

-----------------------------------------------------------------------------
(* The background thread.                                                  *)

\* What a step of doInBackground can change.
Effect(t) ==
  /\ UNCHANGED <<status, dialog, json, successes, failures, stale, server, service, listener>>
  /\ pc[t] \notin {"none", "done"}
  /\ \A u \in Task : u # t => pc'[u] = pc[u] /\ cancelled'[u] = cancelled[u]
  /\ cancelled[t] => cancelled'[t]
  /\ pc[t] = "cancel" => cancelled'[t]
  /\ pc'[t] = "report" => pc[t] = "check" /\ ~cancelled[t]
  /\ \/ queue' = queue /\ pc'[t] \notin {"none", "done"}
     \/ /\ queue' = Append(queue, Message("failure", t, FALSE))
        /\ pc[t] = "report" /\ pc'[t] = "cancel"
     \/ \E ok \in BOOLEAN : queue' = Append(queue, Message("finish", t, ok)) /\ pc'[t] = "done"

LEMMA BackgroundEffect ==
  ASSUME TypeOK, NEW t \in Task, Background(t) \/ Throws(t)
  PROVE  Effect(t)
<1> USE DEF ui, build
<1>0. pc \in [Task -> PcValues] /\ cancelled \in [Task -> BOOLEAN]
  BY DEF TypeOK, PcValues
<1>1. CASE RunTask(t)
  BY <1>0, <1>1 DEF RunTask, Effect
<1>2. CASE StepDone(t)
  <2>1. t \in PatchTasks /\ NextStep(t) /\ pc[t] = "step" /\ cancelled' = cancelled
        /\ UNCHANGED <<status, dialog, json, successes, failures, stale, server, service, listener>>
    BY <1>2 DEF StepDone
  <2>2. \/ pc' = [pc EXCEPT ![t] = "step"] /\ queue' = queue
        \/ pc' = [pc EXCEPT ![t] = "done"] /\ queue' = Append(queue, Message("finish", t, TRUE))
    BY <2>1, NextStepType
  <2>3. QED
    BY <1>0, <2>1, <2>2 DEF Effect
<1>3. CASE StepFails(t)
  BY <1>0, <1>3 DEF StepFails, Effect
<1>4. CASE CheckCancelled(t)
  BY <1>0, <1>4 DEF CheckCancelled, Effect
<1>5. CASE Report(t)
  BY <1>0, <1>5 DEF Report, Effect
<1>6. CASE CancelSelf(t)
  <2>1. /\ t \in PatchTasks /\ (Return(t, FALSE) \/ NextStep(t)) /\ pc[t] = "cancel"
        /\ cancelled' = [cancelled EXCEPT ![t] = TRUE]
        /\ UNCHANGED <<status, dialog, json, successes, failures, stale, server, service, listener>>
    BY <1>6 DEF CancelSelf
  <2>2. \/ pc' = [pc EXCEPT ![t] = "step"] /\ queue' = queue
        \/ \E ok \in BOOLEAN :
              pc' = [pc EXCEPT ![t] = "done"] /\ queue' = Append(queue, Message("finish", t, ok))
    BY <2>1, NextStepType, ReturnType
  <2>3. QED
    BY <1>0, <2>1, <2>2 DEF Effect
<1>7. ASSUME pc[t] = "step", cancelled' = cancelled,
             UNCHANGED <<status, dialog, json, successes, failures, stale, server, service, listener>>,
             Retry(t) \/ (\E ok \in BOOLEAN : Return(t, ok)) \/ UNCHANGED <<pc, queue>>
      PROVE  Effect(t)
  <2>1. \/ pc' = pc /\ queue' = queue
        \/ \E ok \in BOOLEAN :
              pc' = [pc EXCEPT ![t] = "done"] /\ queue' = Append(queue, Message("finish", t, ok))
    BY <1>7, RetryType, ReturnType
  <2>2. QED
    BY <1>0, <1>7, <2>1 DEF Effect
<1>8. CASE AttemptDone(t)
  BY <1>7, <1>8 DEF AttemptDone
<1>9. CASE AttemptFails(t)
  BY <1>7, <1>9 DEF AttemptFails
<1>10. CASE Throws(t)
  BY <1>7, <1>10 DEF Throws
<1>11. QED
  BY <1>1, <1>2, <1>3, <1>4, <1>5, <1>6, <1>8, <1>9, <1>10 DEF Background

LEMMA BackgroundInv ==
  ASSUME IInv, TypeOK', NEW t \in Task, Effect(t)
  PROVE  IInv'
<1> USE DEF NoBuild, NoResult, NoneHeld
<1>1. queue \in Seq(Messages) /\ queue' \in Seq(Messages)
  BY DEF IInv, TypeOK, Messages
<1>2. /\ status[t] = "running" /\ NoBuild
      /\ \A u \in Task : status[u] = "running" => u = t
  BY DEF IInv, PcInv, RunningAlone, Effect
<1>3. \A i \in DOMAIN queue : queue[i].kind # "finish"
  <2> SUFFICES ASSUME NEW i \in DOMAIN queue, queue[i].kind = "finish" PROVE FALSE
    OBVIOUS
  <2>1. queue[i].task \in Task
    BY <1>1, ElementFacts
  <2>2. QED
    BY <1>2, <2>1 DEF IInv, FinishInv, Effect
<1>4. /\ DOMAIN queue \subseteq DOMAIN queue'
      /\ \A i \in DOMAIN queue' : i \in DOMAIN queue => queue'[i] = queue[i]
      /\ \A i, j \in DOMAIN queue' : i \notin DOMAIN queue /\ j \notin DOMAIN queue => i = j
      /\ \A i \in DOMAIN queue' : i \notin DOMAIN queue =>
            \/ queue'[i].kind = "failure" /\ pc[t] = "report" /\ pc'[t] = "cancel"
            \/ queue'[i].kind = "finish" /\ queue'[i].task = t /\ pc'[t] = "done"
  <2>1. CASE queue' = queue
    BY <2>1
  <2>2. CASE /\ queue' = Append(queue, Message("failure", t, FALSE))
             /\ pc[t] = "report" /\ pc'[t] = "cancel"
    <3>1. PICK m \in Messages : m = Message("failure", t, FALSE)
      BY MessageType
    <3>2. m.kind = "failure" /\ queue' = Append(queue, m)
      BY <2>2, <3>1 DEF Message
    <3>3. /\ DOMAIN queue \subseteq DOMAIN queue'
          /\ \A i \in DOMAIN queue : queue'[i] = queue[i]
          /\ \A i \in DOMAIN queue' : i \in DOMAIN queue \/ (i = Len(queue) + 1 /\ queue'[i] = m)
      BY <1>1, <3>2, AppendFacts
    <3>4. QED
      BY <2>2, <3>2, <3>3
  <2>3. CASE \E ok \in BOOLEAN : queue' = Append(queue, Message("finish", t, ok)) /\ pc'[t] = "done"
    <3> PICK ok \in BOOLEAN : queue' = Append(queue, Message("finish", t, ok)) /\ pc'[t] = "done"
      BY <2>3
    <3>1. /\ Message("finish", t, ok) \in Messages /\ Message("finish", t, ok).kind = "finish"
          /\ Message("finish", t, ok).task = t
      BY MessageType DEF Message
    <3>2. QED
      BY <1>1, <3>1, AppendFacts
  <2>4. QED
    BY <2>1, <2>2, <2>3 DEF Effect
<1>5. NoBuild'
  BY <1>2, <1>4 DEF Effect
<1>6. PcInv'
  BY <1>2 DEF IInv, PcInv, Effect
<1>7. RunningAlone' /\ BuildAlone'
  BY <1>2, <1>5 DEF RunningAlone, BuildAlone, Effect
<1>8. FinishInv'
  BY <1>2, <1>3, <1>4 DEF FinishInv, Effect
<1>9. FailureInv'
  <2> SUFFICES ASSUME NEW i \in DOMAIN queue', queue'[i].kind = "failure"
               PROVE  /\ \A j \in DOMAIN queue' : queue'[j].kind = "failure" => i = j
                      /\ \A u \in Task : /\ pc'[u] # "report"
                                         /\ status'[u] = "running" => cancelled'[u] \/ pc'[u] = "cancel"
    BY <1>5 DEF FailureInv
  <2>1. CASE i \in DOMAIN queue
    <3>1. /\ \A j \in DOMAIN queue : queue[j].kind = "failure" => i = j
          /\ \A u \in Task : /\ pc[u] # "report"
                             /\ status[u] = "running" => cancelled[u] \/ pc[u] = "cancel"
      BY <1>4, <2>1 DEF IInv, FailureInv
    <3>2. QED
      BY <1>2, <1>4, <2>1, <3>1 DEF Effect
  <2>2. CASE i \notin DOMAIN queue
    <3>1. pc[t] = "report" /\ pc'[t] = "cancel"
      BY <1>4, <2>2
    <3>2. \A j \in DOMAIN queue : queue[j].kind # "failure"
      BY <3>1 DEF IInv, FailureInv
    <3>3. \A u \in Task : u # t => pc[u] # "report"
      BY <1>2 DEF IInv, PcInv
    <3>4. QED
      BY <1>2, <1>4, <2>2, <3>1, <3>2, <3>3 DEF Effect
  <2>3. QED
    BY <2>1, <2>2
<1>10. SpentInv'
  BY <1>2, <1>4, <1>5 DEF IInv, SpentInv, Effect
<1>11. LeftInv' /\ JsonClosed' /\ OneVerdict'
  BY <1>2, <1>5 DEF IInv, LeftInv, JsonClosed, OneVerdict, Effect
<1>12. QED
  BY <1>6, <1>7, <1>8, <1>9, <1>10, <1>11 DEF IInv

-----------------------------------------------------------------------------
(* Leaving the dialog.                                                     *)

\* What exit() leaves behind.
LEMMA ExitEffect ==
  ASSUME TypeOK, NEW q, exit_(q)
  PROVE  /\ service' = "none" /\ dialog' = "dismissed"
         /\ \A u \in BuildTasks : server'[u] # "listening"
         /\ \A u \in Task : status[u] = "running" => cancelled'[u]
         /\ \A u \in Task : pc'[u] = IF pc[u] = "queued" THEN "done" ELSE pc[u]
         /\ (\A u \in Task : pc[u] # "queued") => queue' = q
         /\ \/ queue' = q
            \/ \E u \in Task : pc[u] = "queued" /\ queue' = Append(q, Message("finish", u, FALSE))
<1> DEFINE queued == {u \in Task : pc[u] = "queued"}
<1>1. /\ service' = "none" /\ dialog' = "dismissed"
      /\ \A u \in BuildTasks : server'[u] # "listening"
      /\ \A u \in Task : status[u] = "running" => cancelled'[u]
      /\ \A u \in Task : pc'[u] = IF pc[u] = "queued" THEN "done" ELSE pc[u]
  BY DEF exit_
<1>2. queue' = IF queued = {} THEN q ELSE Append(q, Message("finish", CHOOSE u \in queued : TRUE, FALSE))
  BY DEF exit_
<1>3. queued # {} => (CHOOSE u \in queued : TRUE) \in queued
  OBVIOUS
<1>4. (\A u \in Task : pc[u] # "queued") => queue' = q
  BY <1>2
<1>5. CASE queued = {}
  BY <1>1, <1>2, <1>4, <1>5
<1>6. CASE queued # {}
  <2>1. PICK u \in Task : pc[u] = "queued" /\ u = (CHOOSE v \in queued : TRUE)
    BY <1>3, <1>6
  <2>2. queue' = Append(q, Message("finish", u, FALSE))
    BY <1>2, <1>6, <2>1
  <2>3. QED
    BY <1>1, <1>4, <2>1, <2>2
<1>7. QED
  BY <1>5, <1>6

\* Nobody but the task at the head of the queue holds the installation.
Alone(t) ==
  /\ DOMAIN Tail(queue) = {}
  /\ service \notin BuildTasks /\ NoneHeld
  /\ \A u \in Task : pc[u] \in {"none", "done"} /\ (status[u] = "running" => u = t)
  /\ successes + failures = 0
  /\ stale # "left"

LEMMA HeadFacts ==
  ASSUME TypeOK, NEW t \in Task, NEW kind, Head_(kind, t)
  PROVE  /\ queue \in Seq(Messages) /\ Tail(queue) \in Seq(Messages)
         /\ 1 \in DOMAIN queue /\ queue[1].kind = kind /\ queue[1].task = t
         /\ \A i \in DOMAIN Tail(queue) :
               i + 1 \in DOMAIN queue /\ i + 1 # 1 /\ Tail(queue)[i] = queue[i + 1]
<1>1. queue \in Seq(Messages) /\ queue # <<>>
  BY DEF TypeOK, Messages, Head_
<1>2. QED
  BY <1>1, TailFacts DEF Head_

LEMMA FinishAlone ==
  ASSUME IInv, NEW t \in Task, Head_("finish", t)
  PROVE  /\ status[t] = "running" /\ pc[t] = "done"
         /\ NoBuild
         /\ \A u \in Task : pc[u] \in {"none", "done"} /\ (status[u] = "running" => u = t)
         /\ \A i \in DOMAIN Tail(queue) : Tail(queue)[i].kind = "failure"
         /\ ~cancelled[t] => Alone(t)
<1>1. TypeOK
  BY DEF IInv
<1>2. /\ queue \in Seq(Messages) /\ Tail(queue) \in Seq(Messages)
      /\ 1 \in DOMAIN queue /\ queue[1].kind = "finish" /\ queue[1].task = t
      /\ \A i \in DOMAIN Tail(queue) :
            i + 1 \in DOMAIN queue /\ i + 1 # 1 /\ Tail(queue)[i] = queue[i + 1]
  BY <1>1, HeadFacts
<1>3. /\ status[t] = "running" /\ pc[t] = "done"
      /\ \A j \in DOMAIN queue : queue[j].kind = "finish" => j = 1
  BY <1>2 DEF IInv, FinishInv
<1>4. NoBuild /\ \A u \in Task : status[u] = "running" => u = t
  BY <1>3 DEF IInv, RunningAlone
<1>5. \A u \in Task : pc[u] \in {"none", "done"}
  BY <1>3, <1>4 DEF IInv, PcInv
<1>6. \A i \in DOMAIN Tail(queue) : Tail(queue)[i].kind = "failure"
  <2> SUFFICES ASSUME NEW i \in DOMAIN Tail(queue) PROVE Tail(queue)[i].kind = "failure"
    OBVIOUS
  <2>1. i + 1 \in DOMAIN queue /\ i + 1 # 1 /\ Tail(queue)[i] = queue[i + 1]
    BY <1>2
  <2>2. queue[i + 1].kind \in {"finish", "failure", "result"}
    BY <1>2, <2>1, ElementFacts
  <2>3. queue[i + 1].kind # "finish" /\ queue[i + 1].kind # "result"
    BY <1>3, <1>4, <2>1 DEF NoBuild, NoResult
  <2>4. QED
    BY <2>1, <2>2, <2>3
<1>7. ASSUME ~cancelled[t] PROVE Alone(t)
  <2>1. \A i \in DOMAIN queue : queue[i].kind # "failure"
    BY <1>3, <1>7 DEF IInv, FailureInv
  <2>2. DOMAIN Tail(queue) = {}
    BY <1>2, <1>6, <2>1
  <2>3. ~(successes + failures > 0) /\ stale # "left"
    BY <1>3, <1>7 DEF IInv, SpentInv, LeftInv
  <2>4. successes + failures = 0
    BY <2>3, <1>1 DEF TypeOK
  <2>5. QED
    BY <1>4, <1>5, <2>2, <2>3, <2>4 DEF Alone, NoBuild
<1>8. QED
  BY <1>3, <1>4, <1>5, <1>6, <1>7

LEMMA ResultAlone ==
  ASSUME IInv, NEW t \in Task, Head_("result", t)
  PROVE  Alone(t) /\ \A u \in Task : status[u] # "running"
<1>1. TypeOK
  BY DEF IInv
<1>2. /\ queue \in Seq(Messages) /\ Tail(queue) \in Seq(Messages)
      /\ 1 \in DOMAIN queue /\ queue[1].kind = "result" /\ queue[1].task = t
      /\ \A i \in DOMAIN Tail(queue) :
            i + 1 \in DOMAIN queue /\ i + 1 # 1 /\ Tail(queue)[i] = queue[i + 1]
  BY <1>1, HeadFacts
<1>3. ~NoResult
  BY <1>2 DEF NoResult
<1>4. \A u \in Task : status[u] # "running" /\ pc[u] \in {"none", "done"}
  BY <1>3 DEF IInv, RunningAlone, PcInv, NoBuild
<1>5. service \notin BuildTasks /\ NoneHeld /\ \A j \in DOMAIN queue : queue[j].kind = "result" => j = 1
  BY <1>2, <1>3 DEF IInv, BuildAlone
<1>6. /\ \A i \in DOMAIN queue : queue[i].kind # "failure"
      /\ ~(successes + failures > 0) /\ stale # "left"
  BY <1>3 DEF IInv, FailureInv, SpentInv, LeftInv, NoBuild
<1>7. DOMAIN Tail(queue) = {}
  <2> SUFFICES ASSUME NEW i \in DOMAIN Tail(queue) PROVE FALSE
    OBVIOUS
  <2>1. i + 1 \in DOMAIN queue /\ i + 1 # 1
    BY <1>2
  <2>2. queue[i + 1].kind \in {"finish", "failure", "result"} /\ queue[i + 1].task \in Task
    BY <1>2, <2>1, ElementFacts
  <2>3. queue[i + 1].kind # "finish"
    BY <1>4, <2>1, <2>2 DEF IInv, FinishInv
  <2>4. QED
    BY <1>5, <1>6, <2>1, <2>2, <2>3
<1>8. successes + failures = 0
  BY <1>1, <1>6 DEF TypeOK
<1>9. QED
  BY <1>4, <1>5, <1>6, <1>7, <1>8 DEF Alone

-----------------------------------------------------------------------------
(* The UI thread.                                                          *)

LEMMA VerdictInv ==
  ASSUME IInv, TypeOK', NEW t \in Task, Alone(t), exit_(Tail(queue)),
         \A u \in Task : status'[u] # "running",
         stale' = stale, listener' = listener, successes' + failures' = 1
  PROVE  IInv'
<1> USE DEF NoBuild, NoResult, NoneHeld
<1>1. /\ service' = "none" /\ dialog' = "dismissed"
      /\ \A u \in Task : pc'[u] = IF pc[u] = "queued" THEN "done" ELSE pc[u]
      /\ (\A u \in Task : pc[u] # "queued") => queue' = Tail(queue)
  BY ExitEffect DEF IInv
<1>2. DOMAIN queue' = {} /\ \A u \in Task : pc'[u] \in {"none", "done"}
  BY <1>1 DEF Alone
<1>3. NoBuild'
  BY <1>1, <1>2, TaskFacts DEF Alone
<1>4. stale' # "left"
  BY DEF Alone
<1>5. PcInv' /\ RunningAlone' /\ BuildAlone' /\ FinishInv' /\ FailureInv'
  BY <1>2, <1>3 DEF PcInv, RunningAlone, BuildAlone, FinishInv, FailureInv
<1>6. SpentInv' /\ LeftInv' /\ JsonClosed' /\ OneVerdict'
  BY <1>1, <1>2, <1>3, <1>4 DEF SpentInv, LeftInv, JsonClosed, OneVerdict
<1>7. QED
  BY <1>5, <1>6 DEF IInv

LEMMA ExecuteInv ==
  ASSUME IInv, TypeOK', NEW t \in Task, NEW n \in Task, NEW ended, Alone(t),
         Execute(t, n, Tail(queue), ended), stale' = stale, listener' = listener
  PROVE  IInv'
<1> USE DEF NoBuild, NoResult, NoneHeld
<1>1. /\ status' = [status EXCEPT ![t] = "finished", ![n] = "running"]
      /\ pc' = [pc EXCEPT ![n] = "queued"] /\ queue' = Tail(queue)
      /\ UNCHANGED <<cancelled, json, successes, failures, dialog, service>>
  BY DEF Execute
<1>2. status \in [Task -> {"pending", "running", "finished"}] /\ pc \in [Task -> PcValues]
  BY DEF IInv, TypeOK, PcValues
<1>3. /\ status'[n] = "running" /\ \A u \in Task : status'[u] = "running" => u = n
      /\ \A u \in Task : u # n => pc'[u] \in {"none", "done"}
  BY <1>1, <1>2 DEF Alone
<1>4. DOMAIN queue' = {} /\ NoBuild'
  BY <1>1 DEF Alone
<1>5. PcInv' /\ RunningAlone' /\ BuildAlone' /\ FinishInv' /\ FailureInv'
  BY <1>3, <1>4 DEF PcInv, RunningAlone, BuildAlone, FinishInv, FailureInv
<1>6. SpentInv' /\ LeftInv' /\ JsonClosed' /\ OneVerdict'
  BY <1>1, <1>4 DEF IInv, SpentInv, LeftInv, JsonClosed, OneVerdict, Alone
<1>7. QED
  BY <1>5, <1>6 DEF IInv

LEMMA ProceedInv ==
  ASSUME IInv, TypeOK', NEW t \in Task, NEW ended, Alone(t),
         Proceed(t, Tail(queue), ended), stale' = stale, listener' = listener
  PROVE  IInv'
<1>1. CASE installJson(Tail(queue)) /\ status' = [status EXCEPT ![t] = "finished"]
  <2>1. /\ exit_(Tail(queue)) /\ successes' = successes + 1 /\ failures' = failures
    BY <1>1 DEF installJson
  <2>2. \A u \in Task : status'[u] # "running"
    BY <1>1 DEF IInv, TypeOK, Alone
  <2>3. successes' + failures' = 1
    BY <2>1 DEF IInv, TypeOK, Alone
  <2>4. QED
    BY <2>1, <2>2, <2>3, VerdictInv
<1>2. ASSUME NEW i \in Following(t), Execute(t, Pipeline[i], Tail(queue), ended)
      PROVE  IInv'
  <2>1. Pipeline[i] \in Task
    BY TaskFacts DEF Following
  <2>2. QED
    BY <1>2, <2>1, ExecuteInv
<1>3. QED
  BY <1>1, <1>2 DEF Proceed

\* Leaving the dialog while q, the queue or its tail, is still to be handled.
LEMMA LeaveInv ==
  ASSUME IInv, NEW q \in Seq(Messages), NEW d \in {0, 1}, exit_(q), status' = status, listener' = listener,
         \A i \in DOMAIN q : i + d \in DOMAIN queue /\ q[i] = queue[i + d]
  PROVE  /\ PcInv' /\ RunningAlone' /\ BuildAlone' /\ FinishInv' /\ FailureInv'
         /\ NoResult /\ NoneHeld => NoBuild'
         /\ \A i \in DOMAIN queue' : queue'[i].kind = "failure" => i \in DOMAIN q /\ queue'[i] = q[i]
         /\ dialog' = "dismissed" /\ \A u \in BuildTasks : server'[u] # "listening"
         /\ \A u \in Task : status'[u] = "running" => cancelled'[u]
         /\ \A u \in Task : pc'[u] = IF pc[u] = "queued" THEN "done" ELSE pc[u]
<1> USE DEF NoBuild, NoResult, NoneHeld
<1>1. /\ service' = "none" /\ dialog' = "dismissed"
      /\ \A u \in BuildTasks : server'[u] # "listening"
      /\ \A u \in Task : status[u] = "running" => cancelled'[u]
      /\ \A u \in Task : pc'[u] = IF pc[u] = "queued" THEN "done" ELSE pc[u]
      /\ \/ queue' = q
         \/ \E u \in Task : pc[u] = "queued" /\ queue' = Append(q, Message("finish", u, FALSE))
  BY ExitEffect DEF IInv
<1>2. queue \in Seq(Messages) /\ \A i \in DOMAIN q : i \in Int
  BY DEF IInv, TypeOK, Messages
<1>3. /\ \A i \in DOMAIN queue' : i \in DOMAIN q => queue'[i] = q[i]
      /\ \A i, j \in DOMAIN queue' : i \notin DOMAIN q /\ j \notin DOMAIN q => i = j
      /\ \A i \in DOMAIN queue' : i \notin DOMAIN q =>
            queue'[i].kind = "finish" /\ queue'[i].task \in Task /\ pc[queue'[i].task] = "queued"
  <2>1. CASE queue' = q
    BY <2>1
  <2>2. CASE \E u \in Task : pc[u] = "queued" /\ queue' = Append(q, Message("finish", u, FALSE))
    <3> PICK u \in Task : pc[u] = "queued" /\ queue' = Append(q, Message("finish", u, FALSE))
      BY <2>2
    <3>1. PICK m \in Messages : m = Message("finish", u, FALSE)
      BY MessageType
    <3>2. m.kind = "finish" /\ m.task = u /\ queue' = Append(q, m)
      BY <3>1 DEF Message
    <3>3. /\ \A i \in DOMAIN q : queue'[i] = q[i]
          /\ \A i \in DOMAIN queue' : i \in DOMAIN q \/ (i = Len(q) + 1 /\ queue'[i] = m)
      <4>1. queue' = Append(q, m) /\ q \in Seq(Messages) /\ m \in Messages
        BY <3>2
      <4>2. QED
        BY <4>1, AppendedFacts, Zenon
    <3>4. QED
      BY <3>2, <3>3
  <2>3. QED
    BY <1>1, <2>1, <2>2
<1>4. \A i, j \in DOMAIN q : i + d = j + d => i = j
  BY <1>2
<1>5. PcInv'
  BY <1>1 DEF IInv, PcInv
<1>6. \A i \in DOMAIN queue' : queue'[i].kind = "result" => ~NoResult
  BY <1>3
<1>7. NoResult /\ NoneHeld => NoBuild'
  BY <1>1, <1>6, TaskFacts
<1>8. RunningAlone'
  BY <1>7 DEF IInv, RunningAlone
<1>9. BuildAlone'
  <2>1. service' \notin BuildTasks
    BY <1>1, TaskFacts
  <2>2. \A i \in DOMAIN queue' : queue'[i].kind = "result" =>
           i \in DOMAIN q /\ i + d \in DOMAIN queue /\ queue[i + d].kind = "result"
    BY <1>3
  <2>3. QED
    BY <1>4, <2>1, <2>2 DEF IInv, BuildAlone
<1>10. FinishInv'
  <2>1. \A i \in DOMAIN queue' : queue'[i].kind = "finish" /\ i \in DOMAIN q =>
           /\ i + d \in DOMAIN queue /\ queue[i + d].kind = "finish"
           /\ queue'[i].task \in Task
           /\ status[queue'[i].task] = "running" /\ pc[queue'[i].task] = "done"
           /\ \A k \in DOMAIN queue : queue[k].kind = "finish" => i + d = k
    BY <1>2, <1>3, ElementFacts DEF IInv, FinishInv
  <2>2. \A i \in DOMAIN queue' : i \notin DOMAIN q =>
           /\ queue'[i].task \in Task
           /\ status[queue'[i].task] = "running" /\ pc[queue'[i].task] = "queued"
    BY <1>3 DEF IInv, PcInv
  <2>3. \A t, u \in Task : status[t] = "running" /\ status[u] = "running" => t = u
    BY DEF IInv, RunningAlone
  <2> SUFFICES ASSUME NEW i \in DOMAIN queue', queue'[i].kind = "finish"
               PROVE  /\ status'[queue'[i].task] = "running" /\ pc'[queue'[i].task] = "done"
                      /\ \A j \in DOMAIN queue' : queue'[j].kind = "finish" => i = j
    BY DEF FinishInv
  <2>4. status'[queue'[i].task] = "running" /\ pc'[queue'[i].task] = "done"
    BY <1>1, <2>1, <2>2
  <2>5. ASSUME NEW j \in DOMAIN queue', queue'[j].kind = "finish" PROVE i = j
    <3>1. CASE i \in DOMAIN q /\ j \in DOMAIN q
      BY <1>4, <2>1, <2>5, <3>1
    <3>2. CASE i \notin DOMAIN q /\ j \notin DOMAIN q
      BY <1>3, <3>2
    <3>3. CASE i \in DOMAIN q /\ j \notin DOMAIN q
      <4>1. queue'[i].task = queue'[j].task
        BY <2>1, <2>2, <2>3, <3>3
      <4>2. QED
        BY <2>1, <2>2, <3>3, <4>1
    <3>4. CASE i \notin DOMAIN q /\ j \in DOMAIN q
      <4>1. queue'[i].task = queue'[j].task
        BY <2>1, <2>2, <2>3, <2>5, <3>4
      <4>2. QED
        BY <2>1, <2>2, <2>5, <3>4, <4>1
    <3>5. QED
      BY <3>1, <3>2, <3>3, <3>4
  <2>6. QED
    BY <2>4, <2>5
<1>11. \A i \in DOMAIN queue' : queue'[i].kind = "failure" => i \in DOMAIN q /\ queue'[i] = q[i]
  BY <1>3
<1>12. FailureInv'
  <2> SUFFICES ASSUME NEW i \in DOMAIN queue', queue'[i].kind = "failure"
               PROVE  /\ NoBuild'
                      /\ \A j \in DOMAIN queue' : queue'[j].kind = "failure" => i = j
                      /\ \A t \in Task : /\ pc'[t] # "report"
                                         /\ status'[t] = "running" => cancelled'[t] \/ pc'[t] = "cancel"
    BY DEF FailureInv
  <2>1. i \in DOMAIN q /\ i + d \in DOMAIN queue /\ queue[i + d].kind = "failure"
    BY <1>3, <1>11
  <2>2. /\ NoResult /\ NoneHeld /\ \A t \in Task : pc[t] # "report"
        /\ \A j \in DOMAIN queue : queue[j].kind = "failure" => i + d = j
    BY <2>1 DEF IInv, FailureInv
  <2>3. \A j \in DOMAIN queue' : queue'[j].kind = "failure" =>
           j \in DOMAIN q /\ j + d \in DOMAIN queue /\ queue[j + d].kind = "failure"
    BY <1>3, <1>11
  <2>4. \A j \in DOMAIN queue' : queue'[j].kind = "failure" => i = j
    BY <1>4, <2>1, <2>2, <2>3
  <2>5. QED
    BY <1>1, <1>7, <2>2, <2>4
<1>13. QED
  BY <1>1, <1>5, <1>7, <1>8, <1>9, <1>10, <1>11, <1>12

LEMMA UIInv ==
  ASSUME IInv, TypeOK', NEW t \in Task, UIThread(t)
  PROVE  IInv'
<1> USE DEF NoBuild, NoResult, NoneHeld
<1>0. TypeOK /\ status \in [Task -> {"pending", "running", "finished"}] /\ successes \in Nat /\ failures \in Nat
  BY DEF IInv, TypeOK
<1>1. CASE FinishCancelled(t)
  <2>1. /\ queue' = Tail(queue) /\ status' = [status EXCEPT ![t] = "finished"]
        /\ service' \in {"none", service}
        /\ UNCHANGED <<cancelled, pc, dialog, json, successes, failures, stale, server, listener>>
    BY <1>1 DEF FinishCancelled, ui
  <2>2. /\ NoBuild
        /\ \A u \in Task : pc[u] \in {"none", "done"} /\ (status[u] = "running" => u = t)
        /\ \A i \in DOMAIN Tail(queue) : Tail(queue)[i].kind = "failure"
    BY <1>1, FinishAlone DEF FinishCancelled
  <2>3. /\ queue \in Seq(Messages)
        /\ \A i \in DOMAIN queue' : i + 1 \in DOMAIN queue /\ queue'[i] = queue[i + 1]
    BY <1>0, <1>1, <2>1, HeadFacts DEF FinishCancelled
  <2>4. \A u \in Task : status'[u] # "running" /\ pc'[u] \in {"none", "done"}
    BY <1>0, <2>1, <2>2
  <2>5. NoBuild' /\ \A i \in DOMAIN queue' : queue'[i].kind = "failure"
    BY <2>1, <2>2, TaskFacts
  <2>6. PcInv' /\ RunningAlone' /\ BuildAlone' /\ FinishInv'
    BY <2>4, <2>5 DEF PcInv, RunningAlone, BuildAlone, FinishInv
  <2>7. FailureInv'
    <3>1. ASSUME NEW i \in DOMAIN queue', NEW j \in DOMAIN queue' PROVE i = j
      <4>1. /\ i + 1 \in DOMAIN queue /\ queue[i + 1].kind = "failure"
            /\ j + 1 \in DOMAIN queue /\ queue[j + 1].kind = "failure"
        BY <2>3, <2>5
      <4>2. i + 1 = j + 1 /\ i \in Int /\ j \in Int
        BY <2>1, <2>3, <4>1, <1>0 DEF IInv, FailureInv
      <4>3. QED
        BY <4>2
    <3>2. QED
      BY <2>4, <2>5, <3>1 DEF FailureInv
  <2>8. SpentInv'
    BY <2>1, <2>3, <2>4, <2>5 DEF IInv, SpentInv
  <2>9. LeftInv' /\ JsonClosed' /\ OneVerdict'
    BY <2>1, <2>4, <2>5 DEF IInv, LeftInv, JsonClosed, OneVerdict
  <2>10. QED
    BY <2>6, <2>7, <2>8, <2>9 DEF IInv
<1>2. CASE FinishFailed(t)
  <2>1. Alone(t)
    BY <1>2, FinishAlone DEF FinishFailed
  <2>2. /\ exit_(Tail(queue)) /\ successes' = successes /\ failures' = failures + 1
        /\ status' = [status EXCEPT ![t] = "finished"] /\ stale' = stale /\ listener' = listener
    BY <1>2 DEF FinishFailed, throwException
  <2>3. \A u \in Task : status'[u] # "running"
    BY <1>0, <2>1, <2>2 DEF Alone
  <2>4. successes' + failures' = 1
    BY <1>0, <2>1, <2>2 DEF Alone
  <2>5. QED
    BY <2>1, <2>2, <2>3, <2>4, VerdictInv
<1>3. CASE FinishDone(t)
  <2>1. Alone(t)
    BY <1>3, FinishAlone DEF FinishDone
  <2>2. Proceed(t, Tail(queue), {}) /\ stale' = stale /\ listener' = listener
    BY <1>3 DEF FinishDone
  <2>3. QED
    BY <2>1, <2>2, ProceedInv
<1>4. CASE StartBuild(t)
  <2>1. Alone(t)
    BY <1>4, FinishAlone DEF StartBuild
  <2>2. /\ queue' = Tail(queue) /\ status' = [status EXCEPT ![t] = "finished"]
        /\ UNCHANGED <<cancelled, pc, dialog, json, successes, failures, stale, listener>>
    BY <1>4 DEF StartBuild, ui
  <2>3. \A u \in Task : status'[u] # "running" /\ pc'[u] \in {"none", "done"}
    BY <1>0, <2>1, <2>2 DEF Alone
  <2>4. DOMAIN queue' = {} /\ NoneHeld'
    BY <2>1, <2>2 DEF Alone
  <2>5. PcInv' /\ RunningAlone' /\ BuildAlone' /\ FinishInv' /\ FailureInv'
    BY <2>3, <2>4 DEF PcInv, RunningAlone, BuildAlone, FinishInv, FailureInv
  <2>6. SpentInv' /\ LeftInv' /\ JsonClosed' /\ OneVerdict'
    BY <2>1, <2>2 DEF IInv, SpentInv, LeftInv, JsonClosed, OneVerdict, Alone
  <2>7. QED
    BY <2>5, <2>6 DEF IInv
<1>5. CASE BuildFailed(t)
  <2>1. Alone(t) /\ \A u \in Task : status[u] # "running"
    BY <1>5, ResultAlone DEF BuildFailed
  <2>2. /\ exit_(Tail(queue)) /\ successes' = successes /\ failures' = failures + 1
        /\ status' = status /\ stale' = stale /\ listener' = listener
    BY <1>5 DEF BuildFailed, throwException
  <2>3. successes' + failures' = 1
    BY <1>0, <2>1, <2>2 DEF Alone
  <2>4. QED
    BY <2>1, <2>2, <2>3, VerdictInv
<1>6. CASE BuildDone(t)
  <2>1. Alone(t)
    BY <1>6, ResultAlone DEF BuildDone
  <2>2. Proceed(t, Tail(queue), {t}) /\ stale' = stale /\ listener' = listener
    BY <1>6 DEF BuildDone
  <2>3. QED
    BY <2>1, <2>2, ProceedInv
<1>7. CASE ShowFailure(t)
  <2> DEFINE q == Tail(queue)
  <2>1. /\ exit_(q) /\ successes' = successes /\ failures' = failures + 1 /\ json' = json
        /\ status' = status /\ stale' = stale /\ listener' = listener
    BY <1>7 DEF ShowFailure, throwException
  <2>2. /\ q \in Seq(Messages)
        /\ 1 \in DOMAIN queue /\ queue[1].kind = "failure"
        /\ \A i \in DOMAIN q : i + 1 \in DOMAIN queue /\ i + 1 # 1 /\ q[i] = queue[i + 1]
    BY <1>0, <1>7, HeadFacts DEF ShowFailure
  <2>3. /\ NoBuild
        /\ \A j \in DOMAIN queue : queue[j].kind = "failure" => j = 1
        /\ \A u \in Task : pc[u] # "report"
    BY <2>2 DEF IInv, FailureInv
  <2>4. successes + failures = 0
    BY <1>0, <2>2 DEF IInv, SpentInv
  <2>5. /\ PcInv' /\ RunningAlone' /\ BuildAlone' /\ FinishInv' /\ FailureInv'
        /\ NoResult /\ NoneHeld => NoBuild'
        /\ \A i \in DOMAIN queue' : queue'[i].kind = "failure" => i \in DOMAIN q /\ queue'[i] = q[i]
        /\ dialog' = "dismissed" /\ \A u \in BuildTasks : server'[u] # "listening"
        /\ \A u \in Task : status'[u] = "running" => cancelled'[u]
        /\ \A u \in Task : pc'[u] = IF pc[u] = "queued" THEN "done" ELSE pc[u]
    BY <2>1, <2>2, LeaveInv
  <2>6. NoBuild'
    BY <2>3, <2>5
  <2>7. \A i \in DOMAIN queue' : queue'[i].kind # "failure"
    <3> SUFFICES ASSUME NEW i \in DOMAIN queue', queue'[i].kind = "failure" PROVE FALSE
      OBVIOUS
    <3>1. i \in DOMAIN q /\ q[i].kind = "failure"
      BY <2>5
    <3>2. QED
      BY <2>2, <2>3, <3>1
  <2>8. SpentInv' /\ LeftInv' /\ JsonClosed' /\ OneVerdict'
    BY <1>0, <2>1, <2>3, <2>4, <2>5, <2>6, <2>7 DEF IInv, SpentInv, LeftInv, JsonClosed, OneVerdict
  <2>9. QED
    BY <2>5, <2>8 DEF IInv
<1>8. QED
  BY <1>1, <1>2, <1>3, <1>4, <1>5, <1>6, <1>7 DEF UIThread

-----------------------------------------------------------------------------
(* The cancel button and the service.                                      *)

LEMMA ClickCancelInv ==
  ASSUME IInv, TypeOK', ClickCancel
  PROVE  IInv'
<1> USE DEF NoBuild, NoResult, NoneHeld
<1>1. queue \in Seq(Messages) /\ \A i \in DOMAIN queue : i \in Int
  BY DEF IInv, TypeOK, Messages
<1>2. /\ exit_(queue) /\ status' = status /\ json' = json
      /\ successes' = successes /\ failures' = failures /\ dialog = "open"
      /\ listener' = listener /\ (stale' = "left" => NoResult /\ NoneHeld)
  BY DEF ClickCancel
<1>3. \A i \in DOMAIN queue : i + 0 \in DOMAIN queue /\ queue[i] = queue[i + 0]
  BY <1>1
<1>4. PICK d \in {0, 1} : d = 0
  OBVIOUS
<1>5. \A i \in DOMAIN queue : i + d \in DOMAIN queue /\ queue[i] = queue[i + d]
  BY <1>3, <1>4
<1>6. /\ PcInv' /\ RunningAlone' /\ BuildAlone' /\ FinishInv' /\ FailureInv'
      /\ NoResult /\ NoneHeld => NoBuild'
      /\ \A i \in DOMAIN queue' : queue'[i].kind = "failure" => i \in DOMAIN queue /\ queue'[i] = queue[i]
      /\ dialog' = "dismissed" /\ \A u \in BuildTasks : server'[u] # "listening"
      /\ \A u \in Task : status'[u] = "running" => cancelled'[u]
      /\ \A u \in Task : pc'[u] = IF pc[u] = "queued" THEN "done" ELSE pc[u]
  BY <1>1, <1>2, <1>5, LeaveInv
<1>7. json = <<>>
  BY <1>2 DEF IInv, JsonClosed
<1>8. LeftInv'
  <2>1. CASE stale' = "left"
    BY <1>2, <1>6, <1>7, <2>1 DEF LeftInv
  <2>2. CASE stale' # "left"
    BY <2>2 DEF LeftInv
  <2>3. QED
    BY <2>1, <2>2
<1>9. SpentInv'
  <2> SUFFICES ASSUME successes + failures > 0
               PROVE  /\ NoBuild'
                      /\ \A i \in DOMAIN queue' : queue'[i].kind # "failure"
                      /\ \A t \in Task : status'[t] = "running" => cancelled'[t] /\ pc'[t] # "report"
    BY <1>2 DEF SpentInv
  <2>1. /\ NoResult /\ NoneHeld /\ \A i \in DOMAIN queue : queue[i].kind # "failure"
        /\ \A t \in Task : status[t] = "running" => pc[t] # "report"
    BY DEF IInv, SpentInv
  <2>2. QED
    BY <1>2, <1>6, <2>1
<1>10. JsonClosed' /\ OneVerdict'
  BY <1>2, <1>6 DEF IInv, JsonClosed, OneVerdict
<1>11. QED
  BY <1>6, <1>8, <1>9, <1>10 DEF IInv

\* While a build runs, or its result is with the listener, nothing else is under
\* way and no message is waiting.
LEMMA ServiceAlone ==
  ASSUME IInv, service \in BuildTasks \/ ~NoneHeld
  PROVE  /\ DOMAIN queue = {} /\ NoResult
         /\ \A u \in Task : status[u] # "running" /\ pc[u] \in {"none", "done"}
         /\ successes + failures = 0 /\ stale # "left"
         /\ service \in BuildTasks => NoneHeld
<1>1. queue \in Seq(Messages) /\ successes \in Nat /\ failures \in Nat
  BY DEF IInv, TypeOK, Messages
<1>2. NoResult /\ (service \in BuildTasks => NoneHeld)
  BY DEF IInv, BuildAlone
<1>3. \A u \in Task : status[u] # "running" /\ pc[u] \in {"none", "done"}
  BY DEF IInv, RunningAlone, PcInv, NoBuild
<1>4. /\ \A i \in DOMAIN queue : queue[i].kind # "failure"
      /\ successes + failures = 0 /\ stale # "left"
  BY <1>1 DEF IInv, FailureInv, SpentInv, LeftInv, NoBuild
<1>5. DOMAIN queue = {}
  <2> SUFFICES ASSUME NEW i \in DOMAIN queue PROVE FALSE
    OBVIOUS
  <2>1. queue[i].kind \in {"finish", "failure", "result"} /\ queue[i].task \in Task
    BY <1>1, ElementFacts
  <2>2. QED
    BY <1>2, <1>3, <1>4, <2>1 DEF IInv, FinishInv, NoResult
<1>6. QED
  BY <1>2, <1>3, <1>4, <1>5

LEMMA ServiceInv ==
  ASSUME IInv, TypeOK', NEW t \in BuildTasks, NEW code \in {0, 1}, ServiceReports(t, code)
  PROVE  IInv'
<1>1. /\ service = t /\ service' = "exiting"
      /\ UNCHANGED <<status, cancelled, pc, queue, dialog, json, successes, failures, stale, server>>
  BY DEF ServiceReports, ui
<1>2. /\ DOMAIN queue = {} /\ \A u \in Task : status[u] # "running" /\ pc[u] \in {"none", "done"}
      /\ successes + failures = 0 /\ stale # "left"
      /\ NoneHeld
  BY <1>1, ServiceAlone
<1>3. \A u \in BuildTasks : u # t => listener'[u] = "none"
  BY <1>2 DEF IInv, TypeOK, ServiceReports, NoneHeld
<1>4. service' \notin BuildTasks /\ NoResult'
  BY <1>1, <1>2, TaskFacts DEF NoResult
<1>5. PcInv' /\ RunningAlone' /\ FinishInv' /\ FailureInv'
  BY <1>1, <1>2 DEF PcInv, RunningAlone, FinishInv, FailureInv
<1>6. BuildAlone'
  BY <1>1, <1>2, <1>3, <1>4 DEF BuildAlone
<1>7. SpentInv' /\ LeftInv' /\ JsonClosed' /\ OneVerdict'
  BY <1>1, <1>2 DEF IInv, SpentInv, LeftInv, JsonClosed, OneVerdict
<1>8. QED
  BY <1>5, <1>6, <1>7 DEF IInv

\* The listener posts the one result there is.
LEMMA HandOverInv ==
  ASSUME IInv, TypeOK', NEW t \in BuildTasks, HandOver(t)
  PROVE  IInv'
<1>1. /\ listener[t] # "none" /\ service' = service
      /\ UNCHANGED <<status, cancelled, pc, dialog, json, successes, failures, stale, server>>
      /\ listener' = [listener EXCEPT ![t] = "none"]
  BY DEF HandOver, ui, tasks
<1>2. ~NoneHeld /\ queue \in Seq(Messages) /\ t \in Task
  BY <1>1, TaskFacts DEF NoneHeld, IInv, TypeOK, Messages
<1>3. /\ DOMAIN queue = {} /\ \A u \in Task : status[u] # "running" /\ pc[u] \in {"none", "done"}
      /\ successes + failures = 0 /\ stale # "left"
      /\ service \notin BuildTasks
  BY <1>2, ServiceAlone
<1>4. NoneHeld'
  BY <1>1 DEF NoneHeld, IInv, TypeOK, BuildAlone
<1>5. /\ \A i, j \in DOMAIN queue' : i = j
      /\ \A i \in DOMAIN queue' : queue'[i].kind = "result"
  <2>1. PICK m \in Messages : m.kind = "result" /\ queue' = Append(queue, m)
    BY <1>2, MessageType DEF HandOver, Message
  <2>2. \A i \in DOMAIN queue' : i = Len(queue) + 1 /\ queue'[i] = m
    BY <1>2, <1>3, <2>1, AppendedFacts
  <2>3. QED
    BY <2>1, <2>2
<1>6. PcInv' /\ RunningAlone' /\ FinishInv' /\ FailureInv'
  BY <1>1, <1>3, <1>5 DEF PcInv, RunningAlone, FinishInv, FailureInv
<1>7. BuildAlone'
  BY <1>1, <1>3, <1>4, <1>5 DEF BuildAlone, NoneHeld
<1>8. SpentInv' /\ LeftInv' /\ JsonClosed' /\ OneVerdict'
  BY <1>1, <1>3 DEF IInv, SpentInv, LeftInv, JsonClosed, OneVerdict
<1>9. QED
  BY <1>6, <1>7, <1>8 DEF IInv

\* A service that ends, whichever way, only takes itself out of the way.
LEMMA ServiceEndsInv ==
  ASSUME IInv, TypeOK', service' \notin BuildTasks,
         UNCHANGED <<status, cancelled, pc, queue, dialog, json, successes, failures, stale, server,
                     listener>>
  PROVE  IInv'
<1>1. PcInv' /\ FinishInv'
  BY DEF IInv, PcInv, FinishInv
<1>2. NoResult' = NoResult /\ NoneHeld' = NoneHeld /\ listener' = listener
  BY DEF NoResult, NoneHeld
<1>3. RunningAlone' /\ BuildAlone' /\ FailureInv' /\ SpentInv' /\ LeftInv'
  BY <1>2 DEF IInv, RunningAlone, BuildAlone, FailureInv, SpentInv, LeftInv, NoBuild
<1>4. JsonClosed' /\ OneVerdict'
  BY DEF IInv, JsonClosed, OneVerdict
<1>5. QED
  BY <1>1, <1>3, <1>4 DEF IInv

\* Every step keeps the invariant.
LEMMA NextIInv == IInv /\ [Next]_vars => IInv'
<1> SUFFICES ASSUME IInv, [Next]_vars PROVE IInv'
  OBVIOUS
<1>0. TypeOK /\ TypeOK'
  BY TypeNext DEF IInv
<1>1. CASE \E t \in Task : UIThread(t) \/ Background(t) \/ Throws(t)
  BY <1>0, <1>1, UIInv, BackgroundEffect, BackgroundInv
<1>2. CASE \E t \in BuildTasks, code \in {0, 1} : ServiceReports(t, code)
  BY <1>0, <1>2, ServiceInv
<1>2a. CASE \E t \in BuildTasks : HandOver(t)
  BY <1>0, <1>2a, HandOverInv
<1>3. CASE ServiceStops \/ ServiceKilled
  <2>1. /\ service' \notin BuildTasks
        /\ UNCHANGED <<status, cancelled, pc, queue, dialog, json, successes, failures, stale, server,
                       listener>>
    BY <1>3, TaskFacts DEF ServiceStops, ServiceKilled, ui, tasks
  <2>2. QED
    BY <1>0, <2>1, ServiceEndsInv
<1>4. CASE ClickCancel
  BY <1>0, <1>4, ClickCancelInv
<1>5. CASE UNCHANGED vars
  <2>1. /\ service' = service
        /\ UNCHANGED <<status, cancelled, pc, queue, dialog, json, successes, failures, stale, server,
                       listener>>
    BY <1>5 DEF vars, ui, tasks, build
  <2>2. QED
    BY <1>0, <2>1 DEF IInv, PcInv, RunningAlone, BuildAlone, FinishInv, FailureInv, SpentInv, LeftInv,
                     JsonClosed, OneVerdict, NoBuild, NoResult, NoneHeld
<1>6. QED
  BY <1>1, <1>2, <1>2a, <1>3, <1>4, <1>5 DEF Next

-----------------------------------------------------------------------------
(* The chain: which task holds it, and what it has merged by then.         *)

\* The task that runs, is built, or whose build's result is on its way.
Current(t) ==
  \/ status[t] = "running"
  \/ service = t
  \/ t \in BuildTasks /\ listener[t] # "none"
  \/ \E i \in DOMAIN queue : queue[i].kind = "result" /\ queue[i].task = t

\* When the chain is at t, the tasks after it are not created yet and the
\* patches of the selected ones before it are merged, in order.
CurrentInv ==
  \A t \in Task : Current(t) =>
     /\ t \in selected
     /\ \A u \in Task : Before(t, u) => status[u] = "pending"
     /\ Merges(merged, {u \in selected \cap PatchTasks : Before(u, t)})

\* A task asks for a build only by a doInBackground that succeeded.
BuildsInv ==
  \A t \in builds :
     /\ status[t] # "pending" /\ pc[t] = "done"
     /\ \A i \in DOMAIN queue : queue[i].kind = "finish" /\ queue[i].task = t => queue[i].ok

\* A task that cannot continue the chain: cancelled, about to cancel itself,
\* or finished with an exception.
HeldBack(t) ==
  \/ cancelled[t]
  \/ pc[t] \in {"check", "report", "cancel"}
  \/ \E i \in DOMAIN queue : queue[i].kind = "finish" /\ queue[i].task = t /\ ~queue[i].ok

\* After a failure the running task is held back and no build can succeed.
FailedInv ==
  failed # {} =>
     /\ service \notin BuildTasks
     /\ \A t \in BuildTasks : listener[t] # "ok"
     /\ \A i \in DOMAIN queue : queue[i].kind = "result" => ~queue[i].ok
     /\ \A t \in Task : status[t] = "running" => HeldBack(t)

\* Once the version JSON is written nothing is left to do.
DoneInv ==
  json # <<>> =>
     /\ NoBuild /\ \A t \in Task : status[t] # "running"
     /\ JsonComplete

ChainInv == CurrentInv /\ BuildsInv /\ FailedInv /\ DoneInv

\* The chain orders the tasks totally.
LEMMA PipelineOnce ==
  /\ DOMAIN Pipeline = 1..10 /\ Pipeline[1] = "minecraft"
  /\ \A i, j \in 1..10 : Pipeline[i] = Pipeline[j] => i = j
  /\ "none" \notin Task /\ "exiting" \notin Task
<1>1. DOMAIN Pipeline = 1..10
  BY DEF Pipeline
<1>2. \A i, j \in 1..10 : Pipeline[i] = Pipeline[j] => i = j
  BY DEF Pipeline
<1>3. \A i \in 1..10 : Pipeline[i] # "none" /\ Pipeline[i] # "exiting"
  BY DEF Pipeline
<1>4. "none" \notin Task /\ "exiting" \notin Task
  BY <1>1, <1>3 DEF Task
<1>5. Pipeline[1] = "minecraft"
  BY DEF Pipeline
<1>6. QED
  BY <1>1, <1>2, <1>4, <1>5

LEMMA BeforeOrder ==
  /\ \A i, j \in 1..10 : Before(Pipeline[i], Pipeline[j]) <=> i < j
  /\ \A u, t \in Task : Before(u, t) \/ Before(t, u) \/ u = t
  /\ \A u, t \in Task : ~(Before(u, t) /\ Before(t, u)) /\ ~Before(t, t)
  /\ \A u, t, v \in Task : Before(u, t) /\ Before(t, v) => Before(u, v)
<1>1. \A i, j \in 1..10 : Before(Pipeline[i], Pipeline[j]) <=> i < j
  BY PipelineOnce DEF Before
<1>2. \A t \in Task : \E i \in 1..10 : t = Pipeline[i]
  BY PipelineOnce DEF Task
<1>3. \A u, t \in Task : Before(u, t) \/ Before(t, u) \/ u = t
  <2> TAKE u, t \in Task
  <2>1. PICK i \in 1..10, j \in 1..10 : u = Pipeline[i] /\ t = Pipeline[j]
    BY <1>2
  <2>2. i < j \/ j < i \/ i = j
    OBVIOUS
  <2>3. QED
    BY <1>1, <2>1, <2>2
<1>4. \A u, t \in Task : ~(Before(u, t) /\ Before(t, u)) /\ ~Before(t, t)
  <2> TAKE u, t \in Task
  <2>1. PICK i \in 1..10, j \in 1..10 : u = Pipeline[i] /\ t = Pipeline[j]
    BY <1>2
  <2>2. ~(i < j /\ j < i) /\ ~(j < j)
    OBVIOUS
  <2>3. QED
    BY <1>1, <2>1, <2>2
<1>5. \A u, t, v \in Task : Before(u, t) /\ Before(t, v) => Before(u, v)
  <2> TAKE u, t, v \in Task
  <2>1. PICK i \in 1..10, j \in 1..10, k \in 1..10 :
           u = Pipeline[i] /\ t = Pipeline[j] /\ v = Pipeline[k]
    BY <1>2
  <2>2. i < j /\ j < k => i < k
    OBVIOUS
  <2>3. QED
    BY <1>1, <2>1, <2>2
<1>6. QED
  BY <1>1, <1>3, <1>4, <1>5

LEMMA FollowingFacts ==
  ASSUME NEW t \in Task
  PROVE  /\ \A i \in Following(t) :
               i \in 1..10 /\ Pipeline[i] \in selected /\ Pipeline[i] \in Task /\ Before(t, Pipeline[i])
         /\ \A u \in selected \cap Task : Before(t, u) => \E i \in Following(t) : u = Pipeline[i]
<1>1. PICK k \in 1..10 : t = Pipeline[k]
  BY PipelineOnce DEF Task
<1>2. \A i \in Following(t) :
         i \in 1..10 /\ Pipeline[i] \in selected /\ Pipeline[i] \in Task /\ Before(t, Pipeline[i])
  <2> TAKE i \in Following(t)
  <2>1. i \in 1..10 /\ Pipeline[i] \in selected /\ \E j \in 1..(i - 1) : Pipeline[j] = t
    BY PipelineOnce DEF Following
  <2>2. PICK j \in 1..(i - 1) : Pipeline[j] = t
    BY <2>1
  <2>3. j \in 1..10 /\ j < i
    BY <2>1, <2>2
  <2>4. QED
    BY <2>1, <2>2, <2>3, BeforeOrder, TaskFacts, PipelineOnce
<1>3. ASSUME NEW u \in selected \cap Task, Before(t, u) PROVE \E i \in Following(t) : u = Pipeline[i]
  <2>1. PICK i \in 1..10 : u = Pipeline[i]
    BY PipelineOnce DEF Task
  <2>2. k < i
    BY <1>1, <1>3, <2>1, BeforeOrder
  <2>3. k \in 1..(i - 1)
    BY <2>2
  <2>4. QED
    BY <1>1, <2>1, <2>3, PipelineOnce DEF Following
<1>4. QED
  BY <1>2, <1>3

\* Merging the patch of a task that comes after those merged so far.
LEMMA MergesAppend ==
  ASSUME NEW p \in Seq(PatchTasks), NEW S, NEW t \in PatchTasks, Merges(p, S),
         \A u \in S : Before(u, t)
  PROVE  Merges(Append(p, t), S \cup {t})
<1> DEFINE r == Append(p, t)
<1>1. /\ DOMAIN r = 1..(Len(p) + 1) /\ DOMAIN p = 1..Len(p) /\ Len(p) \in Nat
      /\ \A i \in 1..Len(p) : r[i] = p[i]
      /\ r[Len(p) + 1] = t
  BY AppendProperties
<1>2. {r[i] : i \in DOMAIN r} = S \cup {t}
  <2>1. \A i \in DOMAIN r : r[i] \in S \cup {t}
    BY <1>1 DEF Merges
  <2>2. \A u \in S : \E i \in DOMAIN r : u = r[i]
    BY <1>1 DEF Merges
  <2>3. \E i \in DOMAIN r : t = r[i]
    BY <1>1
  <2>4. QED
    BY <2>1, <2>2, <2>3
<1>3. ASSUME NEW i \in DOMAIN r, NEW j \in DOMAIN r, i < j PROVE Before(r[i], r[j])
  <2>1. i \in DOMAIN p /\ r[i] = p[i] /\ p[i] \in S
    BY <1>1, <1>3 DEF Merges
  <2>2. CASE j = Len(p) + 1
    BY <1>1, <2>1, <2>2
  <2>3. CASE j # Len(p) + 1
    <3>1. j \in DOMAIN p /\ r[j] = p[j]
      BY <1>1, <2>3
    <3>2. QED
      BY <1>3, <2>1, <3>1 DEF Merges
  <2>4. QED
    BY <2>2, <2>3
<1>4. QED
  BY <1>2, <1>3 DEF Merges

-----------------------------------------------------------------------------
LEMMA InitChain == Init => ChainInv
<1> SUFFICES ASSUME Init PROVE ChainInv
  OBVIOUS
<1>1. DOMAIN queue = {} /\ service = "none" /\ \A u \in Task : status[u] # "running" \/ u = "minecraft"
  BY DEF Init
<1>1a. \A u \in BuildTasks : listener[u] = "none"
  BY DEF Init
<1>2. \A u \in Task : Current(u) => u = "minecraft"
  BY <1>1, <1>1a, PipelineOnce DEF Current
<1>3. "minecraft" \in selected /\ "minecraft" \in Task
  BY TaskFacts DEF Init
<1>4. \A u \in Task : Before("minecraft", u) => status[u] = "pending"
  BY <1>3, BeforeOrder DEF Init
<1>5. \A u \in Task : ~Before(u, "minecraft")
  <2> TAKE u \in Task
  <2>1. PICK i \in 1..10 : u = Pipeline[i]
    BY PipelineOnce DEF Task
  <2>2. ~(i < 1)
    OBVIOUS
  <2>3. QED
    BY <2>1, <2>2, BeforeOrder, PipelineOnce
<1>6. Merges(merged, {u \in selected \cap PatchTasks : Before(u, "minecraft")})
  <2>1. DOMAIN merged = {}
    BY DEF Init
  <2>2. {u \in selected \cap PatchTasks : Before(u, "minecraft")} = {}
    BY <1>5, TaskFacts
  <2>3. {merged[i] : i \in DOMAIN merged} = {}
    BY <2>1
  <2>4. QED
    BY <2>1, <2>2, <2>3 DEF Merges
<1>7. CurrentInv
  BY <1>2, <1>3, <1>4, <1>6 DEF CurrentInv
<1>8. BuildsInv /\ FailedInv /\ DoneInv
  BY DEF Init, BuildsInv, FailedInv, DoneInv
<1>9. QED
  BY <1>7, <1>8 DEF ChainInv

\* What is merged when the success callback of t has run.
LEMMA MergedNext ==
  ASSUME TypeOK, CurrentInv, NEW t \in Task, Current(t), NEW q, NEW ended, Proceed(t, q, ended)
  PROVE  Merges(merged', {u \in selected \cap PatchTasks : Before(u, t) \/ u = t})
<1> DEFINE S == {u \in selected \cap PatchTasks : Before(u, t)}
           R == {u \in selected \cap PatchTasks : Before(u, t) \/ u = t}
<1>1. Merges(merged, S) /\ t \in selected
  BY DEF CurrentInv
<1>2. CASE t \in PatchTasks
  <2>1. merged' = Append(merged, t) /\ merged \in Seq(PatchTasks)
    BY <1>2 DEF Proceed, TypeOK
  <2>2. S \cup {t} = R
    BY <1>1, <1>2
  <2>3. Merges(Append(merged, t), S \cup {t})
    BY <1>1, <1>2, <2>1, MergesAppend
  <2>4. QED
    BY <2>1, <2>2, <2>3
<1>3. CASE t \notin PatchTasks
  <2>1. merged' = merged
    BY <1>3 DEF Proceed
  <2>2. S = R
    BY <1>3
  <2>3. QED
    BY <1>1, <2>1, <2>2
<1>4. QED
  BY <1>2, <1>3

\* The chain goes on from t to the next selected task, or ends.
LEMMA ProceedChain ==
  ASSUME IInv, ChainInv, NEW t \in Task, Current(t), Alone(t), failed = {}, json = <<>>,
         NEW ended, Proceed(t, Tail(queue), ended), UNCHANGED <<selected, builds, failed, listener>>
  PROVE  ChainInv'
<1>0. TypeOK /\ CurrentInv /\ BuildsInv
  BY DEF IInv, ChainInv
<1>1. t \in selected /\ \A u \in Task : Before(t, u) => status[u] = "pending"
  BY <1>0 DEF CurrentInv
<1>2. Merges(merged', {u \in selected \cap PatchTasks : Before(u, t) \/ u = t})
  BY <1>0, MergedNext
<1>3. /\ status \in [Task -> {"pending", "running", "finished"}]
      /\ pc \in [Task -> PcValues] /\ builds \subseteq Task
      /\ service \notin Task
  BY <1>0, TaskFacts, PipelineOnce DEF TypeOK, PcValues, Alone
<1>3a. \A u \in BuildTasks : listener'[u] = "none"
  BY DEF Alone, NoneHeld
<1>4. FailedInv'
  BY DEF FailedInv
<1>5. ASSUME Following(t) = {}, installJson(Tail(queue)), status' = [status EXCEPT ![t] = "finished"]
      PROVE  ChainInv'
  <2>1. exit_(Tail(queue)) /\ json' = merged'
    BY <1>5 DEF installJson
  <2>2. /\ service' = "none"
        /\ \A u \in Task : pc'[u] = IF pc[u] = "queued" THEN "done" ELSE pc[u]
        /\ (\A u \in Task : pc[u] # "queued") => queue' = Tail(queue)
    BY <1>0, <2>1, ExitEffect
  <2>3. DOMAIN queue' = {} /\ \A u \in Task : pc'[u] = pc[u] /\ status'[u] # "running"
    BY <1>3, <1>5, <2>2 DEF Alone
  <2>4. CurrentInv'
    BY <1>3a, <2>2, <2>3, PipelineOnce DEF CurrentInv, Current
  <2>5. BuildsInv'
    BY <1>0, <1>3, <1>5, <2>3 DEF BuildsInv
  <2>6. \A u \in selected \cap PatchTasks : Before(u, t) \/ u = t
    BY <1>5, FollowingFacts, BeforeOrder, TaskFacts
  <2>7. {u \in selected \cap PatchTasks : Before(u, t) \/ u = t} = selected \cap PatchTasks
    BY <2>6
  <2>8. Merges(json', selected' \cap PatchTasks)
    BY <1>2, <2>1, <2>7
  <2>9. JsonComplete'
    BY <2>8 DEF JsonComplete
  <2>10. NoBuild'
    BY <1>3a, <2>2, <2>3, TaskFacts DEF NoBuild, NoResult, NoneHeld
  <2>11. DoneInv'
    BY <2>3, <2>9, <2>10 DEF DoneInv
  <2>12. QED
    BY <1>4, <2>4, <2>5, <2>11 DEF ChainInv
<1>6. ASSUME NEW i \in Following(t), \A j \in Following(t) : i <= j,
             Execute(t, Pipeline[i], Tail(queue), ended)
      PROVE  ChainInv'
  <2> DEFINE n == Pipeline[i]
  <2>1. i \in 1..10 /\ n \in selected /\ n \in Task /\ Before(t, n)
    BY FollowingFacts
  <2>2. n # t /\ n \notin builds
    BY <1>0, <1>1, <2>1, BeforeOrder DEF BuildsInv
  <2> HIDE DEF n
  <2>3. /\ status' = [status EXCEPT ![t] = "finished", ![n] = "running"]
        /\ pc' = [pc EXCEPT ![n] = "queued"] /\ queue' = Tail(queue)
        /\ service' = service /\ json' = json
    BY <1>6 DEF Execute, n
  <2>4. DOMAIN queue' = {} /\ \A u \in Task : status'[u] = "running" => u = n
    BY <1>3, <2>1, <2>3 DEF Alone
  <2>5. \A u \in Task : Current(u)' => u = n
    BY <1>3, <1>3a, <2>3, <2>4 DEF Current
  <2>6. \A u \in Task : Before(n, u) => status'[u] = "pending"
    <3> TAKE u \in Task
    <3>1. HAVE Before(n, u)
    <3>2. Before(t, u) /\ u # n /\ u # t
      BY <2>1, <3>1, BeforeOrder
    <3>3. status[u] = "pending"
      BY <1>1, <3>2
    <3>4. QED
      BY <1>3, <2>3, <3>2, <3>3
  <2>7. \A u \in selected \cap PatchTasks : (Before(u, t) \/ u = t) <=> Before(u, n)
    <3> TAKE u \in selected \cap PatchTasks
    <3>1. u \in Task
      BY TaskFacts
    <3>2. Before(u, t) \/ u = t => Before(u, n)
      BY <2>1, <3>1, BeforeOrder
    <3>3. ASSUME Before(u, n), ~(Before(u, t) \/ u = t) PROVE FALSE
      <4>1. Before(t, u)
        BY <3>1, <3>3, BeforeOrder
      <4>2. PICK j \in Following(t) : u = Pipeline[j]
        BY <3>1, <4>1, FollowingFacts
      <4>3. j \in 1..10 /\ i <= j
        BY <1>6, <4>2, FollowingFacts
      <4>4. j < i
        BY <2>1, <3>3, <4>2, <4>3, BeforeOrder DEF n
      <4>5. QED
        BY <2>1, <4>3, <4>4
    <3>4. QED
      BY <3>2, <3>3
  <2>8. {u \in selected \cap PatchTasks : Before(u, t) \/ u = t}
           = {u \in selected \cap PatchTasks : Before(u, n)}
    BY <2>7
  <2>9. CurrentInv'
    BY <1>2, <2>1, <2>5, <2>6, <2>8 DEF CurrentInv
  <2>10. BuildsInv'
    BY <1>0, <1>3, <2>2, <2>3, <2>4 DEF BuildsInv
  <2>11. DoneInv'
    BY <2>3 DEF DoneInv
  <2>12. QED
    BY <1>4, <2>9, <2>10, <2>11 DEF ChainInv
<1>7. QED
  BY <1>5, <1>6 DEF Proceed

\* A message that is posted comes behind those in the queue.
LEMMA PostedFacts ==
  ASSUME NEW q \in Seq(Messages), NEW m \in Messages, queue' = Append(q, m)
  PROVE  /\ \A i \in DOMAIN q : i \in DOMAIN queue' /\ queue'[i] = q[i]
         /\ \A i \in DOMAIN queue' : (i \in DOMAIN q /\ queue'[i] = q[i]) \/ queue'[i] = m
         /\ \E i \in DOMAIN queue' : queue'[i] = m
<1>1. /\ DOMAIN q = 1..Len(q) /\ Len(q) \in Nat /\ DOMAIN Append(q, m) = 1..(Len(q) + 1)
      /\ \A i \in 1..Len(q) : Append(q, m)[i] = q[i]
      /\ Append(q, m)[Len(q) + 1] = m
  BY AppendProperties
<1>2. QED
  BY <1>1

\* A step that neither moves the chain on nor merges anything.
LEMMA QuietChain ==
  ASSUME CurrentInv, UNCHANGED <<selected, merged>>,
         \A u \in Task : status[u] = "pending" => status'[u] = "pending",
         \A u \in Task : Current(u)' => Current(u)
  PROVE  CurrentInv'
BY DEF CurrentInv

\* q has only messages of the queue.
PartOf(q) == \A i \in DOMAIN q : \E k \in DOMAIN queue : q[i] = queue[k]

\* Leaving the dialog while q, the queue or its tail, is still to be handled.
LEMMA LeaveChain ==
  ASSUME IInv, ChainInv, NEW q \in Seq(Messages), exit_(q),
         PartOf(q),
         UNCHANGED <<selected, merged, json, failed, builds, listener>>,
         \A u \in Task : /\ status'[u] = "running" => status[u] = "running"
                         /\ status[u] = "pending" <=> status'[u] = "pending"
  PROVE  ChainInv'
<1>0. TypeOK /\ CurrentInv /\ builds \subseteq Task
  BY TaskFacts DEF IInv, ChainInv, TypeOK
<1>1. /\ service' = "none"
      /\ \A u \in Task : status[u] = "running" => cancelled'[u]
      /\ \A u \in Task : pc'[u] = IF pc[u] = "queued" THEN "done" ELSE pc[u]
      /\ \/ queue' = q
         \/ \E u \in Task : pc[u] = "queued" /\ queue' = Append(q, Message("finish", u, FALSE))
  BY <1>0, ExitEffect
<1>2. \A i \in DOMAIN queue' :
         \/ \E k \in DOMAIN queue : queue'[i] = queue[k]
         \/ queue'[i].kind = "finish" /\ queue'[i].task \in Task /\ pc[queue'[i].task] = "queued"
  <2>1. CASE queue' = q
    BY <2>1 DEF PartOf
  <2>2. CASE \E u \in Task : pc[u] = "queued" /\ queue' = Append(q, Message("finish", u, FALSE))
    <3>1. PICK u \in Task : pc[u] = "queued" /\ queue' = Append(q, Message("finish", u, FALSE))
      BY <2>2
    <3>2. PICK m \in Messages : m.kind = "finish" /\ m.task = u /\ queue' = Append(q, m)
      BY <3>1, MessageType DEF Message
    <3>3. queue' = Append(q, m)
      BY <3>2
    <3>4. \A i \in DOMAIN queue' :
             \/ i \in DOMAIN q /\ queue'[i] = q[i]
             \/ queue'[i] = m
      BY <3>3, PostedFacts
    <3>5. ASSUME NEW i \in DOMAIN queue'
          PROVE  \/ \E k \in DOMAIN queue : queue'[i] = queue[k]
                 \/ queue'[i].kind = "finish" /\ queue'[i].task \in Task /\ pc[queue'[i].task] = "queued"
      <4>1. CASE i \in DOMAIN q
        <5>1. PICK k \in DOMAIN queue : q[i] = queue[k]
          BY <4>1 DEF PartOf
        <5>2. QED
          BY <3>1, <3>2, <3>4, <4>1, <5>1
      <4>2. CASE i \notin DOMAIN q
        BY <3>1, <3>2, <3>4, <4>2
      <4>3. QED
        BY <4>1, <4>2
    <3>6. QED
      BY <3>5
  <2>3. QED
    BY <1>1, <2>1, <2>2
<1>3. \A i \in DOMAIN queue' : queue'[i].kind = "result" =>
         \E k \in DOMAIN queue : queue'[i] = queue[k]
  BY <1>2
<1>4. \A u \in Task : Current(u)' => Current(u)
  BY <1>1, <1>3, PipelineOnce DEF Current
<1>5. CurrentInv'
  BY <1>0, <1>4, QuietChain
<1>6. BuildsInv'
  <2> SUFFICES ASSUME NEW t \in builds
               PROVE  /\ status'[t] # "pending" /\ pc'[t] = "done"
                      /\ \A i \in DOMAIN queue' : queue'[i].kind = "finish" /\ queue'[i].task = t => queue'[i].ok
    BY DEF BuildsInv
  <2>1. /\ status[t] # "pending" /\ pc[t] = "done"
        /\ \A i \in DOMAIN queue : queue[i].kind = "finish" /\ queue[i].task = t => queue[i].ok
    BY DEF ChainInv, BuildsInv
  <2>2. QED
    BY <1>0, <1>1, <1>2, <2>1
<1>7. FailedInv'
  <2>1. \A t \in Task : status'[t] = "running" => HeldBack(t)'
    BY <1>1 DEF HeldBack
  <2>2. service' \notin BuildTasks
    BY <1>1, TaskFacts
  <2>3. QED
    BY <1>3, <2>1, <2>2 DEF ChainInv, FailedInv
<1>8. DoneInv'
  <2>1. NoResult => NoResult'
    BY <1>3 DEF NoResult
  <2>2. NoBuild => NoBuild'
    BY <1>1, <2>1, TaskFacts DEF NoBuild, NoneHeld
  <2>3. JsonComplete => JsonComplete'
    BY DEF JsonComplete
  <2>4. QED
    BY <2>2, <2>3 DEF ChainInv, DoneInv
<1>9. QED
  BY <1>5, <1>6, <1>7, <1>8 DEF ChainInv

-----------------------------------------------------------------------------
(* The background thread.                                                  *)

\* What a step of doInBackground can change of the chain.
ChainEffect(t) ==
  /\ UNCHANGED <<selected, merged>>
  /\ \/ queue' = queue
     \/ queue' = Append(queue, Message("failure", t, FALSE))
     \/ \E ok \in BOOLEAN : queue' = Append(queue, Message("finish", t, ok))
  /\ \/ builds' = builds
     \/ /\ builds' = builds \cup {t} /\ t \in BuildTasks
        /\ pc'[t] = "done" /\ queue' = Append(queue, Message("finish", t, TRUE))
  /\ \/ failed' = failed
     \/ cancelled'[t] \/ pc'[t] \in {"check", "report", "cancel"}
     \/ queue' = Append(queue, Message("finish", t, FALSE))
  /\ pc[t] \in {"check", "report", "cancel"} =>
        cancelled'[t] \/ pc'[t] \in {"check", "report", "cancel"}

LEMMA BackgroundChain ==
  ASSUME TypeOK, NEW t \in Task, Background(t) \/ Throws(t)
  PROVE  ChainEffect(t)
<1> USE DEF ui, build
<1>0. pc \in [Task -> PcValues] /\ cancelled \in [Task -> BOOLEAN]
  BY DEF TypeOK, PcValues
<1>1. CASE RunTask(t)
  BY <1>0, <1>1 DEF RunTask, ChainEffect
<1>2. CASE StepDone(t)
  <2>1. /\ t \in PatchTasks /\ pc[t] = "step"
        /\ NextStep(t)
        /\ builds' \in IF t \in BuildTasks /\ step[t] + 1 = Steps[t]
                       THEN {builds, builds \cup {t}} ELSE {builds}
        /\ UNCHANGED <<selected, merged, failed>>
    BY <1>2 DEF StepDone
  <2>2. \/ queue' = queue
        \/ queue' = Append(queue, Message("finish", t, TRUE))
    BY <2>1, NextStepType
  <2>3. CASE t \in BuildTasks /\ step[t] + 1 = Steps[t]
    <3>1. Steps[t] \in Nat
      BY <2>1, StepsType
    <3>2. Return(t, TRUE)
      <4>1. ~(step[t] + 1 < Steps[t])
        BY <2>3, <3>1
      <4>2. QED
        BY <2>1, <4>1 DEF NextStep
    <3>3. pc' = [pc EXCEPT ![t] = "done"] /\ queue' = Append(queue, Message("finish", t, TRUE))
      BY <3>2 DEF Return
    <3>4. pc'[t] = "done"
      BY <1>0, <3>3
    <3>5. QED
      BY <2>1, <2>3, <3>3, <3>4 DEF ChainEffect
  <2>4. CASE ~(t \in BuildTasks /\ step[t] + 1 = Steps[t])
    <3>1. builds' = builds
      BY <2>1, <2>4
    <3>2. QED
      BY <2>1, <2>2, <3>1 DEF ChainEffect
  <2>5. QED
    BY <2>3, <2>4
<1>3. CASE StepFails(t)
  BY <1>0, <1>3 DEF StepFails, ChainEffect
<1>4. CASE CheckCancelled(t)
  BY <1>0, <1>4 DEF CheckCancelled, ChainEffect
<1>5. CASE Report(t)
  BY <1>0, <1>5 DEF Report, ChainEffect
<1>6. CASE CancelSelf(t)
  <2>1. /\ t \in PatchTasks /\ (Return(t, FALSE) \/ NextStep(t))
        /\ cancelled' = [cancelled EXCEPT ![t] = TRUE]
        /\ UNCHANGED <<selected, merged, failed, builds>>
    BY <1>6 DEF CancelSelf
  <2>2. queue' = queue \/ \E ok \in BOOLEAN : queue' = Append(queue, Message("finish", t, ok))
    BY <2>1, NextStepType, ReturnType
  <2>3. cancelled'[t]
    BY <1>0, <2>1
  <2>4. QED
    BY <2>1, <2>2, <2>3 DEF ChainEffect
<1>7. ASSUME pc[t] = "step", cancelled' = cancelled, UNCHANGED <<selected, merged, builds>>,
             \/ failed' = failed \/ cancelled[t] \/ (step[t] = TryTimes /\ Retry(t)) \/ Return(t, FALSE),
             Retry(t) \/ (\E ok \in BOOLEAN : Return(t, ok)) \/ UNCHANGED <<pc, queue>>
      PROVE  ChainEffect(t)
  <2>1. queue' = queue \/ \E ok \in BOOLEAN : queue' = Append(queue, Message("finish", t, ok))
    BY <1>7, RetryType, ReturnType
  <2>2. ASSUME step[t] = TryTimes, Retry(t) PROVE Return(t, FALSE)
    <3>1. ~(step[t] < TryTimes)
      BY <2>2, TryTimesAssumption
    <3>2. QED
      BY <2>2, <3>1 DEF Retry
  <2>3. Return(t, FALSE) => queue' = Append(queue, Message("finish", t, FALSE))
    BY DEF Return
  <2>4. QED
    BY <1>7, <2>1, <2>2, <2>3 DEF ChainEffect
<1>8. CASE AttemptDone(t)
  BY <1>7, <1>8 DEF AttemptDone
<1>9. CASE AttemptFails(t)
  <2>1. /\ pc[t] = "step" /\ cancelled' = cancelled /\ UNCHANGED <<selected, merged, builds>>
        /\ IF step[t] = 0 /\ ~cancelled[t] THEN Return(t, FALSE) ELSE Retry(t)
        /\ failed' = IF step[t] \in {0, TryTimes} THEN failed \cup {t} ELSE failed
    BY <1>9 DEF AttemptFails
  <2>2. CASE step[t] = 0 /\ ~cancelled[t]
    BY <1>7, <2>1, <2>2
  <2>3. CASE step[t] = 0 /\ cancelled[t]
    BY <1>7, <2>1, <2>3
  <2>4. CASE step[t] # 0
    BY <1>7, <2>1, <2>4
  <2>5. QED
    BY <2>2, <2>3, <2>4
<1>10. CASE Throws(t)
  BY <1>7, <1>10 DEF Throws
<1>11. QED
  BY <1>1, <1>2, <1>3, <1>4, <1>5, <1>6, <1>8, <1>9, <1>10 DEF Background

\* A step of doInBackground keeps the chain.
LEMMA BackgroundKeeps ==
  ASSUME IInv, ChainInv, NEW t \in Task, Effect(t), ChainEffect(t)
  PROVE  ChainInv'
<1>0. /\ TypeOK /\ queue \in Seq(Messages) /\ CurrentInv /\ builds \subseteq Task
      /\ \A i \in DOMAIN queue : queue[i].task \in Task
  BY ElementFacts, TaskFacts DEF IInv, ChainInv, TypeOK, Messages
<1>1. /\ status[t] = "running" /\ \A u \in Task : status[u] = "running" => u = t
      /\ pc[t] # "done" /\ service \notin BuildTasks /\ NoResult /\ NoneHeld
  BY DEF IInv, PcInv, RunningAlone, Effect, NoBuild
<1>2. UNCHANGED <<status, json, service, listener, selected, merged>>
  BY DEF Effect, ChainEffect
<1>3. /\ \A i \in DOMAIN queue : i \in DOMAIN queue' /\ queue'[i] = queue[i]
      /\ \A i \in DOMAIN queue' :
            \/ i \in DOMAIN queue /\ queue'[i] = queue[i]
            \/ queue'[i].kind \in {"failure", "finish"} /\ queue'[i].task = t
  <2>1. CASE queue' = queue
    BY <2>1
  <2>2. CASE queue' = Append(queue, Message("failure", t, FALSE))
    <3>1. PICK m \in Messages : m.kind = "failure" /\ m.task = t /\ queue' = Append(queue, m)
      BY <2>2, MessageType DEF Message
    <3>2. QED
      BY <1>0, <3>1, PostedFacts
  <2>3. CASE \E ok \in BOOLEAN : queue' = Append(queue, Message("finish", t, ok))
    <3>1. PICK m \in Messages : m.kind = "finish" /\ m.task = t /\ queue' = Append(queue, m)
      BY <2>3, MessageType DEF Message
    <3>2. QED
      BY <1>0, <3>1, PostedFacts
  <2>4. QED
    BY <2>1, <2>2, <2>3 DEF ChainEffect
<1>4. queue' = Append(queue, Message("finish", t, TRUE)) =>
         \A i \in DOMAIN queue' :
            \/ i \in DOMAIN queue /\ queue'[i] = queue[i]
            \/ queue'[i].ok = TRUE
  <2> SUFFICES ASSUME queue' = Append(queue, Message("finish", t, TRUE))
               PROVE  \A i \in DOMAIN queue' :
                         \/ i \in DOMAIN queue /\ queue'[i] = queue[i]
                         \/ queue'[i].ok = TRUE
    OBVIOUS
  <2>1. PICK m \in Messages : m.ok = TRUE /\ queue' = Append(queue, m)
    BY MessageType DEF Message
  <2>2. QED
    BY <1>0, <2>1, PostedFacts
<1>5. queue' = Append(queue, Message("finish", t, FALSE)) => HeldBack(t)'
  <2> SUFFICES ASSUME queue' = Append(queue, Message("finish", t, FALSE)) PROVE HeldBack(t)'
    OBVIOUS
  <2>1. PICK m \in Messages : m.kind = "finish" /\ m.task = t /\ m.ok = FALSE /\ queue' = Append(queue, m)
    BY MessageType DEF Message
  <2>2. \E i \in DOMAIN queue' : queue'[i] = m
    BY <1>0, <2>1, PostedFacts
  <2>3. QED
    BY <2>1, <2>2 DEF HeldBack
<1>6. CurrentInv'
  <2>1. \A u \in Task : Current(u)' => Current(u)
    BY <1>2, <1>3 DEF Current
  <2>2. QED
    BY <1>0, <1>2, <2>1, QuietChain
<1>7. BuildsInv'
  <2> SUFFICES ASSUME NEW u \in builds'
               PROVE  /\ status'[u] # "pending" /\ pc'[u] = "done"
                      /\ \A i \in DOMAIN queue' : queue'[i].kind = "finish" /\ queue'[i].task = u => queue'[i].ok
    BY DEF BuildsInv
  <2>1. CASE u \in builds
    <3>1. /\ status[u] # "pending" /\ pc[u] = "done"
          /\ \A i \in DOMAIN queue : queue[i].kind = "finish" /\ queue[i].task = u => queue[i].ok
      BY <2>1 DEF ChainInv, BuildsInv
    <3>2. u \in Task /\ u # t
      BY <1>0, <1>1, <2>1, <3>1
    <3>3. pc'[u] = pc[u]
      BY <3>2 DEF Effect
    <3>4. QED
      BY <1>2, <1>3, <3>1, <3>2, <3>3
  <2>2. CASE u \notin builds
    <3>1. u = t /\ pc'[t] = "done" /\ queue' = Append(queue, Message("finish", t, TRUE))
      BY <2>2 DEF ChainEffect
    <3>2. \A i \in DOMAIN queue : queue[i].kind = "finish" => queue[i].task # t
      BY <1>1 DEF IInv, FinishInv
    <3>3. QED
      BY <1>1, <1>2, <1>4, <3>1, <3>2
  <2>3. QED
    BY <2>1, <2>2
<1>8. FailedInv'
  <2> SUFFICES ASSUME failed' # {}
               PROVE  /\ service' \notin BuildTasks
                      /\ \A u \in BuildTasks : listener'[u] # "ok"
                      /\ \A i \in DOMAIN queue' : queue'[i].kind = "result" => ~queue'[i].ok
                      /\ \A u \in Task : status'[u] = "running" => HeldBack(u)'
    BY DEF FailedInv
  <2>1. /\ \A i \in DOMAIN queue' : queue'[i].kind # "result"
        /\ \A u \in BuildTasks : listener'[u] # "ok"
    BY <1>1, <1>2, <1>3 DEF NoResult, NoneHeld
  <2>2. HeldBack(t)'
    <3>1. CASE failed' = failed
      <4>1. HeldBack(t)
        BY <1>1, <3>1 DEF ChainInv, FailedInv
      <4>2. CASE cancelled[t]
        BY <4>2 DEF Effect, HeldBack
      <4>3. CASE pc[t] \in {"check", "report", "cancel"}
        BY <4>3 DEF ChainEffect, HeldBack
      <4>4. CASE \E i \in DOMAIN queue : queue[i].kind = "finish" /\ queue[i].task = t /\ ~queue[i].ok
        BY <1>3, <4>4 DEF HeldBack
      <4>5. QED
        BY <4>1, <4>2, <4>3, <4>4 DEF HeldBack
    <3>2. CASE cancelled'[t] \/ pc'[t] \in {"check", "report", "cancel"}
      BY <3>2 DEF HeldBack
    <3>3. QED
      BY <1>5, <3>1, <3>2 DEF ChainEffect
  <2>3. QED
    BY <1>1, <1>2, <2>1, <2>2
<1>9. DoneInv'
  BY <1>1, <1>2 DEF ChainInv, DoneInv
<1>10. QED
  BY <1>6, <1>7, <1>8, <1>9 DEF ChainInv

-----------------------------------------------------------------------------
(* The UI thread.                                                          *)

\* A task whose callback runs, uncancelled and with what it brought in order,
\* met no failure, and none happened before it.
LEMMA FinishClean ==
  ASSUME IInv, ChainInv, NEW t \in Task, Head_("finish", t), ~cancelled[t],
         Head(queue).ok \/ t \in builds
  PROVE  failed = {} /\ json = <<>> /\ Current(t)
<1>1. status[t] = "running" /\ pc[t] = "done"
  BY FinishAlone
<1>2. /\ queue \in Seq(Messages) /\ 1 \in DOMAIN queue
      /\ queue[1].kind = "finish" /\ queue[1].task = t
  BY HeadFacts DEF IInv
<1>3. Head(queue) = queue[1]
  BY <1>2, TailFacts DEF Head_
<1>4. \A i \in DOMAIN queue : queue[i].kind = "finish" => i = 1
  BY <1>2 DEF IInv, FinishInv
<1>5. queue[1].ok
  BY <1>2, <1>3 DEF ChainInv, BuildsInv
<1>6. ~HeldBack(t)
  BY <1>1, <1>4, <1>5 DEF HeldBack
<1>7. QED
  BY <1>1, <1>6 DEF ChainInv, FailedInv, DoneInv, Current

LEMMA ResultClean ==
  ASSUME IInv, ChainInv, NEW t \in Task, Head_("result", t), Head(queue).ok
  PROVE  failed = {} /\ json = <<>> /\ Current(t)
<1>1. /\ queue \in Seq(Messages) /\ 1 \in DOMAIN queue
      /\ queue[1].kind = "result" /\ queue[1].task = t
  BY HeadFacts DEF IInv
<1>2. Head(queue) = queue[1]
  BY <1>1, TailFacts DEF Head_
<1>3. QED
  BY <1>1, <1>2 DEF ChainInv, FailedInv, DoneInv, NoBuild, NoResult, Current

LEMMA UIKeeps ==
  ASSUME IInv, ChainInv, NEW t \in Task, UIThread(t)
  PROVE  ChainInv'
<1> DEFINE q == Tail(queue)
<1>0. /\ TypeOK /\ CurrentInv /\ builds \subseteq Task
      /\ status \in [Task -> {"pending", "running", "finished"}]
  BY TaskFacts DEF IInv, ChainInv, TypeOK
<1>1. q \in Seq(Messages) /\ PartOf(q)
  <2>1. \E kind : Head_(kind, t)
    BY DEF UIThread, FinishCancelled, FinishFailed, FinishDone, StartBuild, BuildFailed, BuildDone, ShowFailure
  <2>2. QED
    BY <1>0, <2>1, HeadFacts DEF PartOf
<1>2. CASE FinishCancelled(t)
  <2>1. /\ queue' = q /\ status' = [status EXCEPT ![t] = "finished"]
        /\ service' \in {"none", service}
        /\ UNCHANGED <<selected, merged, json, cancelled, pc, builds, failed, listener>>
    BY <1>2 DEF FinishCancelled, ui
  <2>2. /\ status[t] = "running" /\ NoBuild
        /\ \A u \in Task : status[u] = "running" => u = t
    BY <1>2, FinishAlone DEF FinishCancelled
  <2>3. \A u \in Task : status'[u] # "running" /\ (status'[u] = "pending" <=> status[u] = "pending")
    BY <1>0, <2>1, <2>2
  <2>4. \A i \in DOMAIN queue' : queue'[i].kind # "result"
    BY <1>1, <2>1, <2>2 DEF NoBuild, NoResult, PartOf
  <2>5. \A u \in Task : Current(u)' => Current(u)
    BY <2>1, <2>3, <2>4, PipelineOnce DEF Current
  <2>6. CurrentInv'
    BY <1>0, <2>1, <2>3, <2>5, QuietChain
  <2>7. BuildsInv'
    BY <1>0, <1>1, <2>1, <2>3 DEF ChainInv, BuildsInv, PartOf
  <2>8. FailedInv'
    BY <2>1, <2>2, <2>3, <2>4, TaskFacts DEF FailedInv, NoBuild, NoneHeld
  <2>9. DoneInv'
    BY <2>1, <2>2 DEF ChainInv, DoneInv
  <2>10. QED
    BY <2>6, <2>7, <2>8, <2>9 DEF ChainInv
<1>3. CASE FinishFailed(t)
  <2>1. /\ exit_(q) /\ UNCHANGED <<selected, merged, json, failed, builds, listener>>
        /\ status' = [status EXCEPT ![t] = "finished"]
    BY <1>3 DEF FinishFailed, throwException
  <2>2. status[t] = "running"
    BY <1>3, FinishAlone DEF FinishFailed
  <2>3. \A u \in Task : /\ status'[u] = "running" => status[u] = "running"
                        /\ status[u] = "pending" <=> status'[u] = "pending"
    BY <1>0, <2>1, <2>2
  <2>4. QED
    BY <1>1, <2>1, <2>3, LeaveChain
<1>4. CASE FinishDone(t)
  <2>1. Alone(t) /\ failed = {} /\ json = <<>> /\ Current(t)
    BY <1>4, FinishAlone, FinishClean DEF FinishDone
  <2>2. Proceed(t, q, {}) /\ UNCHANGED <<selected, builds, failed, listener>>
    BY <1>4 DEF FinishDone
  <2>3. QED
    BY <2>1, <2>2, ProceedChain
<1>5. CASE StartBuild(t)
  <2>1. Alone(t) /\ failed = {} /\ json = <<>> /\ Current(t) /\ status[t] = "running"
    BY <1>5, FinishAlone, FinishClean DEF StartBuild
  <2>2. /\ queue' = q /\ status' = [status EXCEPT ![t] = "finished"]
        /\ service' \in {"exiting", t}
        /\ UNCHANGED <<selected, merged, json, cancelled, pc, builds, failed, listener>>
    BY <1>5 DEF StartBuild, ui
  <2>3. /\ DOMAIN queue' = {} /\ \A u \in Task : status'[u] # "running"
        /\ \A u \in BuildTasks : listener'[u] = "none"
    BY <1>0, <2>1, <2>2 DEF Alone, NoneHeld
  <2>4. \A u \in Task : Current(u)' => u = t
    BY <2>2, <2>3, PipelineOnce DEF Current
  <2>5. \A u \in Task : status[u] = "pending" <=> status'[u] = "pending"
    BY <1>0, <2>1, <2>2
  <2>6. CurrentInv'
    BY <1>0, <2>1, <2>2, <2>4, <2>5, QuietChain
  <2>7. BuildsInv'
    BY <1>0, <2>2, <2>3, <2>5 DEF ChainInv, BuildsInv
  <2>8. FailedInv' /\ DoneInv'
    BY <2>1, <2>2 DEF FailedInv, DoneInv
  <2>9. QED
    BY <2>6, <2>7, <2>8 DEF ChainInv
<1>6. CASE BuildFailed(t) \/ ShowFailure(t)
  <2>1. exit_(q) /\ UNCHANGED <<selected, status, merged, json, failed, builds, listener>>
    BY <1>6 DEF BuildFailed, ShowFailure, throwException
  <2>2. QED
    BY <1>1, <2>1, LeaveChain
<1>7. CASE BuildDone(t)
  <2>1. Alone(t) /\ failed = {} /\ json = <<>> /\ Current(t)
    BY <1>7, ResultAlone, ResultClean DEF BuildDone
  <2>2. Proceed(t, q, {t}) /\ UNCHANGED <<selected, builds, failed, listener>>
    BY <1>7 DEF BuildDone
  <2>3. QED
    BY <2>1, <2>2, ProceedChain
<1>8. QED
  BY <1>2, <1>3, <1>4, <1>5, <1>6, <1>7 DEF UIThread

-----------------------------------------------------------------------------
(* The service and the cancel button.                                      *)

LEMMA ServiceKeeps ==
  ASSUME IInv, ChainInv, NEW t \in BuildTasks, NEW code \in {0, 1}, ServiceReports(t, code)
  PROVE  ChainInv'
<1>0. TypeOK /\ CurrentInv /\ t \in Task
  BY TaskFacts DEF IInv, ChainInv
<1>1. /\ service = t /\ service' = "exiting"
      /\ failed' = IF code = 0 THEN failed ELSE failed \cup {t}
      /\ UNCHANGED <<selected, status, pc, builds, merged, json, queue>>
  BY DEF ServiceReports, ui
<1>2. failed = {} /\ json = <<>> /\ Current(t)
  BY <1>1 DEF ChainInv, FailedInv, DoneInv, NoBuild, Current
<1>3. DOMAIN queue = {} /\ (\A u \in Task : status[u] # "running") /\ NoneHeld
  BY <1>1, ServiceAlone
<1>4. \A u \in BuildTasks : listener'[u] = "none" \/ (u = t /\ (listener'[u] = "ok" => code = 0))
  BY <1>0, <1>3 DEF ServiceReports, NoneHeld, TypeOK
<1>5. \A u \in Task : Current(u)' => u = t
  BY <1>1, <1>3, <1>4, PipelineOnce DEF Current
<1>6. CurrentInv'
  BY <1>0, <1>1, <1>2, <1>5, QuietChain
<1>7. BuildsInv'
  BY <1>1 DEF ChainInv, BuildsInv
<1>8. FailedInv'
  <2>1. service' \notin BuildTasks
    BY <1>1, TaskFacts
  <2>2. failed' # {} => \A u \in BuildTasks : listener'[u] # "ok"
    BY <1>1, <1>2, <1>4
  <2>3. QED
    BY <1>1, <1>3, <2>1, <2>2 DEF FailedInv
<1>9. DoneInv'
  BY <1>1, <1>2 DEF DoneInv
<1>10. QED
  BY <1>6, <1>7, <1>8, <1>9 DEF ChainInv

LEMMA HandOverKeeps ==
  ASSUME IInv, ChainInv, NEW t \in BuildTasks, HandOver(t)
  PROVE  ChainInv'
<1>0. /\ TypeOK /\ CurrentInv /\ queue \in Seq(Messages) /\ t \in Task
      /\ (listener[t] = "ok") \in BOOLEAN
  BY TaskFacts DEF IInv, ChainInv, TypeOK, Messages
<1>1. /\ listener[t] # "none" /\ listener' = [listener EXCEPT ![t] = "none"]
      /\ UNCHANGED <<selected, status, cancelled, pc, builds, merged, json, failed, service>>
  BY DEF HandOver, ui, tasks
<1>2. ~NoneHeld /\ Current(t)
  BY <1>1 DEF NoneHeld, Current
<1>3. json = <<>> /\ (failed # {} => listener[t] # "ok")
  BY <1>2 DEF ChainInv, FailedInv, DoneInv, NoBuild
<1>4. /\ DOMAIN queue = {} /\ \A u \in Task : status[u] # "running"
      /\ service \notin BuildTasks
  BY <1>2, ServiceAlone
<1>5. \A u \in BuildTasks : listener'[u] = "none"
  BY <1>0, <1>1 DEF IInv, BuildAlone, TypeOK
<1>6. \A i \in DOMAIN queue' :
         /\ queue'[i].kind = "result" /\ queue'[i].task = t
         /\ queue'[i].ok = (listener[t] = "ok")
  <2>1. PICK m \in Messages :
           m.kind = "result" /\ m.task = t /\ m.ok = (listener[t] = "ok") /\ queue' = Append(queue, m)
    BY <1>0, MessageType DEF Message, HandOver
  <2>2. \A i \in DOMAIN queue' : queue'[i] = m
    BY <1>0, <1>4, <2>1, PostedFacts
  <2>3. QED
    BY <2>1, <2>2
<1>7. \A u \in Task : Current(u)' => u = t \/ Current(u)
  BY <1>1, <1>4, <1>5, <1>6 DEF Current
<1>8. CurrentInv'
  BY <1>0, <1>1, <1>2, <1>7, QuietChain
<1>9. BuildsInv'
  BY <1>1, <1>6 DEF ChainInv, BuildsInv
<1>10. FailedInv'
  <2>1. failed' # {} => \A i \in DOMAIN queue' : ~queue'[i].ok
    BY <1>1, <1>3, <1>6
  <2>2. QED
    BY <1>1, <1>4, <1>5, <2>1 DEF FailedInv
<1>11. DoneInv'
  BY <1>1, <1>3 DEF DoneInv
<1>12. QED
  BY <1>8, <1>9, <1>10, <1>11 DEF ChainInv

\* A service that ends, whichever way, or nothing that happens.
LEMMA ServiceEndsKeeps ==
  ASSUME IInv, ChainInv, service' \in {"none", service},
         UNCHANGED <<selected, status, cancelled, pc, builds, failed, queue, merged, json, listener>>
  PROVE  ChainInv'
<1>1. \A u \in Task : Current(u)' => Current(u)
  BY PipelineOnce DEF Current
<1>2. CurrentInv'
  BY <1>1, QuietChain DEF ChainInv
<1>3. BuildsInv'
  BY DEF ChainInv, BuildsInv
<1>4. FailedInv'
  BY TaskFacts DEF ChainInv, FailedInv, HeldBack
<1>5. DoneInv'
  BY TaskFacts DEF ChainInv, DoneInv, NoBuild, NoResult, NoneHeld, JsonComplete
<1>6. QED
  BY <1>2, <1>3, <1>4, <1>5 DEF ChainInv

\* Every step keeps the chain.
LEMMA NextChain == IInv /\ ChainInv /\ [Next]_vars => ChainInv'
<1> SUFFICES ASSUME IInv, ChainInv, [Next]_vars PROVE ChainInv'
  OBVIOUS
<1>0. TypeOK
  BY DEF IInv
<1>1. ASSUME NEW t \in Task, UIThread(t) PROVE ChainInv'
  BY <1>1, UIKeeps
<1>2. ASSUME NEW t \in Task, Background(t) \/ Throws(t) PROVE ChainInv'
  <2>1. Effect(t) /\ ChainEffect(t)
    BY <1>0, <1>2, BackgroundEffect, BackgroundChain
  <2>2. QED
    BY <2>1, BackgroundKeeps
<1>3. ASSUME NEW t \in BuildTasks, NEW code \in {0, 1}, ServiceReports(t, code) PROVE ChainInv'
  BY <1>3, ServiceKeeps
<1>3a. ASSUME NEW t \in BuildTasks, HandOver(t) PROVE ChainInv'
  BY <1>3a, HandOverKeeps
<1>4. CASE ServiceStops \/ ServiceKilled \/ UNCHANGED vars
  <2>1. /\ service' \in {"none", service}
        /\ UNCHANGED <<selected, status, cancelled, pc, builds, failed, queue, merged, json, listener>>
    BY <1>4 DEF ServiceStops, ServiceKilled, vars, ui, tasks, build
  <2>2. QED
    BY <2>1, ServiceEndsKeeps
<1>5. CASE ClickCancel
  <2>1. /\ exit_(queue) /\ UNCHANGED <<selected, status, merged, json, failed, builds, listener>>
    BY <1>5 DEF ClickCancel
  <2>2. queue \in Seq(Messages) /\ PartOf(queue)
    BY <1>0 DEF TypeOK, Messages, PartOf
  <2>3. QED
    BY <2>1, <2>2, LeaveChain
<1>6. QED
  BY <1>1, <1>2, <1>3, <1>3a, <1>4, <1>5 DEF Next

-----------------------------------------------------------------------------
\* The inductive invariant holds of every reachable state of GameInstallDialog
\* and its tasks, for any selection and any number of attempts.
THEOREM Invariance == Spec => []IInv
BY InitIInv, NextIInv, PTL DEF Spec

\* ... and so does the invariant of the chain.
THEOREM ChainInvariance == Spec => []ChainInv
BY InitChain, NextChain, Invariance, PTL DEF Spec

\* installJson writes the version JSON only after every step of every selected
\* part succeeded, with each patch merged once and in the order of the chain.
THEOREM JsonCompleteHolds == Spec => []JsonComplete
<1>1. ChainInv => JsonComplete
  BY DEF ChainInv, DoneInv, JsonComplete
<1>2. QED
  BY <1>1, ChainInvariance, PTL

\* Every variable keeps its type: what exit(), the callbacks and the background
\* thread store is always a legal status, message or position.
THEOREM TypeHolds == Spec => []TypeOK
<1>1. IInv => TypeOK
  BY DEF IInv
<1>2. QED
  BY <1>1, Invariance, PTL

\* throwException and installJson together run at most once: one verdict.
THEOREM OneVerdictHolds == Spec => []OneVerdict
<1>1. IInv => OneVerdict
  BY DEF IInv
<1>2. QED
  BY <1>1, Invariance, PTL

\* An installation left through the cancel button before a build's result was
\* received never reaches installJson: nothing the listener's thread still holds,
\* and no message behind it, can continue the chain then.
THEOREM LeftInstallsNothingHolds == Spec => []LeftInstallsNothing
<1>1. IInv => LeftInstallsNothing
  BY DEF IInv, LeftInv, LeftInstallsNothing
<1>2. QED
  BY <1>1, Invariance, PTL

\* ... and exit() leaves no service building and no server bound behind.
THEOREM LeftBuildsNothingHolds == Spec => []LeftBuildsNothing
<1>1. IInv => LeftBuildsNothing
  BY DEF IInv, LeftInv, NoBuild, LeftBuildsNothing
<1>2. QED
  BY <1>1, Invariance, PTL

\* The chain of callbacks is the only lock there is, and it is one: no two
\* tasks run, wait for the executor or build at the same time.
THEOREM OneAtATimeHolds == Spec => []OneAtATime
<1>1. ASSUME IInv PROVE OneAtATime
  <2> DEFINE busy == {t \in Task : Active(t) \/ pc[t] = "queued"} \cup (BuildTasks \cap {service})
  <2>1. \A t \in Task : Active(t) \/ pc[t] = "queued" => status[t] = "running"
    BY <1>1 DEF IInv, PcInv, Active
  <2>2. \A t, u \in Task : status[t] = "running" /\ status[u] = "running" => t = u
    BY <1>1 DEF IInv, RunningAlone
  <2>3. \A t \in Task : status[t] = "running" => service \notin BuildTasks
    BY <1>1 DEF IInv, RunningAlone, NoBuild
  <2>4. \A t, u \in busy : t = u
    BY <2>1, <2>2, <2>3
  <2>5. CASE busy = {}
    BY <2>5, FS_EmptySet DEF OneAtATime
  <2>6. CASE busy # {}
    <3>1. PICK t : busy = {t}
      BY <2>4, <2>6
    <3>2. Cardinality(busy) = 1
      BY <3>1, FS_Singleton
    <3>3. QED
      BY <3>2 DEF OneAtATime
  <2>7. QED
    BY <2>5, <2>6
<1>2. QED
  BY <1>1, Invariance, PTL
=============================================================================
