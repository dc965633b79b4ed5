---- MODULE GameInstall ----
(***************************************************************************)
(* The installation of a game version and its loaders (GameInstallDialog). *)
(* A chain of AsyncTasks, each started by the success callback of the one  *)
(* before it, downloads and installs the selected parts; the version JSON  *)
(* is written at the end of the chain.  Forge and OptiFine may need a      *)
(* build, which a service process runs and whose exit code comes back as   *)
(* one datagram.  Three actors meet here: the UI thread with its message   *)
(* queue, the background thread of the serial executor and the service.    *)
(* The downloads of a step are DownloadPool's subject: here a step         *)
(* succeeds, fails or throws.                                              *)
(***************************************************************************)
EXTENDS Naturals, Sequences, FiniteSets

CONSTANTS Selections,   \* sets of optional tasks the user may have selected
          TryTimes      \* attempts of a single-file download (5 in the code)

ASSUME TryTimesAssumption == TryTimes \in Nat \ {0}

\* The order in which the dialog's callbacks chain the tasks.
Pipeline == <<"minecraft", "liteLoader", "forgeDownload", "forgeInstall",
              "optifineDownload", "optifineInstall", "fabric", "fabricAPI",
              "quilt", "quiltAPI">>

Task       == {Pipeline[i] : i \in DOMAIN Pipeline}
FileTasks  == {"forgeDownload", "optifineDownload", "fabricAPI", "quiltAPI"}
BuildTasks == {"forgeInstall", "optifineInstall"}
PatchTasks == Task \ FileTasks

\* The fallible steps of a task that merges a patch.
Steps == [t \in PatchTasks |->
            CASE t = "minecraft"    -> 4   \* version JSON, asset index, libraries, assets
              [] t = "forgeInstall" -> 4   \* unzip, installer kind, libraries, universal jar
              [] t \in {"optifineInstall", "fabric", "quilt"} -> 2
              [] t = "liteLoader"   -> 1]

ASSUME SelectionsAssumption == Selections \subseteq SUBSET (Task \ {"minecraft"})

VARIABLES
  selected,   \* the tasks of this installation
  status,     \* AsyncTask.getStatus(), "pending" also before the task is created
  cancelled,  \* AsyncTask.isCancelled()
  pc,         \* where doInBackground is
  step,       \* the step, or the attempt, it is at
  builds,     \* the tasks with args # null: they need a build
  queue,      \* the messages of the UI thread's looper
  dialog,     \* the dialog is open or dismissed
  merged,     \* the patches merged into gameVersionJson so far
  json,       \* the patches in the version JSON on disk, <<>> if there is none
  server,     \* the SocketServer a build task reads its result from
  service,    \* the ApiService process
  listener,   \* the result a SocketServer's thread received and has not posted
  crashed,    \* an exception left a thread of the application
  failed,     \* history: tasks with a failed step, attempt or build
  successes, failures,   \* history: result dialogs shown
  stale,      \* history: the user left, "result" if a build's result had then been received
  lost        \* history: no result of the build can arrive any more

ui    == <<dialog, merged, json, successes, failures, stale>>
tasks == <<status, cancelled, pc, step, builds, failed>>
build == <<server, service, listener, lost>>
vars  == <<selected, tasks, queue, ui, build, crashed>>

TypeOK ==
  /\ selected \subseteq Task
  /\ status \in [Task -> {"pending", "running", "finished"}]
  /\ cancelled \in [Task -> BOOLEAN]
  /\ pc \in [Task -> {"none", "queued", "step", "check", "report", "cancel", "done"}]
  /\ step \in [Task -> 0..(TryTimes + 4)]
  /\ builds \subseteq BuildTasks
  /\ queue \in Seq([kind : {"finish", "failure", "result"}, task : Task, ok : BOOLEAN])
  /\ dialog \in {"open", "dismissed"}
  /\ merged \in Seq(PatchTasks) /\ json \in Seq(PatchTasks)
  /\ server \in [BuildTasks -> {"none", "listening", "broken", "closed"}]
  /\ service \in BuildTasks \cup {"none", "exiting"}
  /\ listener \in [BuildTasks -> {"none", "ok", "failed"}]
  /\ crashed \in BOOLEAN
  /\ failed \subseteq Task
  /\ successes \in Nat /\ failures \in Nat
  /\ stale \in {"no", "left", "result"}
  /\ lost \in BOOLEAN

Message(kind, t, ok) == [kind |-> kind, task |-> t, ok |-> ok]

\* onCreate: nothing is installed yet and the first task is on its way.
Init ==
  /\ \E chosen \in Selections : selected = {"minecraft"} \cup chosen
  /\ status = [t \in Task |-> IF t = "minecraft" THEN "running" ELSE "pending"]
  /\ pc = [t \in Task |-> IF t = "minecraft" THEN "queued" ELSE "none"]
  /\ cancelled = [t \in Task |-> FALSE]
  /\ step = [t \in Task |-> 0]
  /\ builds = {} /\ queue = <<>> /\ failed = {}
  /\ dialog = "open" /\ merged = <<>> /\ json = <<>>
  /\ server = [t \in BuildTasks |-> "none"] /\ service = "none"
  /\ listener = [t \in BuildTasks |-> "none"]
  /\ crashed = FALSE /\ lost = FALSE /\ stale = "no"
  /\ successes = 0 /\ failures = 0

----------------------------------------------------------------------------
(* doInBackground, on the thread of the serial executor.                   *)

Active(t) == pc[t] \notin {"none", "queued", "done"}

\* The serial executor takes the next task.
RunTask(t) ==
  /\ pc[t] = "queued"
  /\ \A u \in Task : ~Active(u)
  /\ pc' = [pc EXCEPT ![t] = "step"]
  /\ step' = [step EXCEPT ![t] = IF t \in FileTasks \ {"forgeDownload"} THEN 1 ELSE 0]
  /\ UNCHANGED <<selected, status, cancelled, builds, failed, queue, ui, build, crashed>>

\* doInBackground returns and AsyncTask posts its result to the UI thread.
Return(t, ok) ==
  /\ pc' = [pc EXCEPT ![t] = "done"]
  /\ queue' = Append(queue, Message("finish", t, ok))
  /\ UNCHANGED step

\* A task that merges a patch goes on to its next step, or returns.
NextStep(t) ==
  IF step[t] + 1 < Steps[t]
  THEN /\ step' = [step EXCEPT ![t] = @ + 1]
       /\ pc' = [pc EXCEPT ![t] = "step"]
       /\ UNCHANGED queue
  ELSE Return(t, TRUE)

\* One step succeeds.  The last one of a build task decides whether the
\* installer has to be run (new Forge installer, OptiFine with a Patcher).
StepDone(t) ==
  /\ t \in PatchTasks /\ pc[t] = "step"
  /\ NextStep(t)
  /\ builds' \in IF t \in BuildTasks /\ step[t] + 1 = Steps[t]
                 THEN {builds, builds \cup {t}} ELSE {builds}
  /\ UNCHANGED <<selected, status, cancelled, failed, ui, build, crashed>>

StepFails_CancelsFirst(t) ==
  /\ t \in PatchTasks /\ pc[t] = "step"
  /\ pc' = [pc EXCEPT ![t] = "check"]
  /\ cancelled' = [cancelled EXCEPT ![t] = TRUE]
  /\ failed' = failed \cup {t}
  /\ UNCHANGED <<selected, status, step, builds, queue, ui, build, crashed>>

StepFails(t) ==
  /\ t \in PatchTasks /\ pc[t] = "step"
  /\ pc' = [pc EXCEPT ![t] = "check"]
  /\ failed' = failed \cup {t}
  /\ UNCHANGED <<selected, status, cancelled, step, builds, queue, ui, build, crashed>>

\* if (!isCancelled()) callback.onFailed(e); cancel(true); -- three steps,
\* since the UI thread may cancel the task between any two of them.
CheckCancelled_Dropped(t) ==
  /\ t \in PatchTasks /\ pc[t] = "check"
  /\ pc' = [pc EXCEPT ![t] = "report"]
  /\ UNCHANGED <<selected, status, cancelled, step, builds, failed, queue, ui, build, crashed>>

CheckCancelled(t) ==
  /\ t \in PatchTasks /\ pc[t] = "check"
  /\ pc' = [pc EXCEPT ![t] = IF cancelled[t] THEN "cancel" ELSE "report"]
  /\ UNCHANGED <<selected, status, cancelled, step, builds, failed, queue, ui, build, crashed>>

Report(t) ==
  /\ t \in PatchTasks /\ pc[t] = "report"
  /\ pc' = [pc EXCEPT ![t] = "cancel"]
  /\ queue' = Append(queue, Message("failure", t, FALSE))
  /\ UNCHANGED <<selected, status, cancelled, step, builds, failed, ui, build, crashed>>

\* What follows a failed step: null from Fabric and Quilt, whose try block is
\* over, and from Forge without its libraries (step 2); else the next step.
Abandons(t) == t \in {"fabric", "quilt"} \/ (t = "forgeInstall" /\ step[t] = 2)

\* The task cancels itself; the others do not return.
CancelSelf(t) ==
  /\ t \in PatchTasks /\ pc[t] = "cancel"
  /\ cancelled' = [cancelled EXCEPT ![t] = TRUE]
  /\ IF Abandons(t) THEN Return(t, FALSE) ELSE NextStep(t)
  /\ UNCHANGED <<selected, status, builds, failed, ui, build, crashed>>

\* An unchecked exception leaves doInBackground.  Once the task is cancelled
\* its future is complete and swallows it, otherwise it ends the process.
Throws(t) ==
  /\ pc[t] = "step"
  /\ IF cancelled[t] THEN Return(t, FALSE) /\ UNCHANGED crashed
     ELSE crashed' = TRUE /\ UNCHANGED <<pc, queue, step>>
  /\ UNCHANGED <<selected, status, cancelled, builds, failed, ui, build>>

\* A single-file task: try the next attempt, or leave the loop.
Retry_NoLimit(t) ==
  step' = [step EXCEPT ![t] = @ + 1] /\ UNCHANGED <<pc, queue>>

Retry_ReturnsNull(t) ==
  IF step[t] < TryTimes
  THEN step' = [step EXCEPT ![t] = @ + 1] /\ UNCHANGED <<pc, queue>>
  ELSE Return(t, TRUE)

Retry(t) ==
  IF step[t] < TryTimes
  THEN step' = [step EXCEPT ![t] = @ + 1] /\ UNCHANGED <<pc, queue>>
  ELSE Return(t, FALSE)

\* Attempt 0 of Forge's download asks for the address of the file.
AttemptDone(t) ==
  /\ t \in FileTasks /\ pc[t] = "step"
  /\ IF step[t] = 0 \/ cancelled[t] THEN Retry(t) ELSE Return(t, TRUE)
  /\ UNCHANGED <<selected, status, cancelled, builds, failed, ui, build, crashed>>

AttemptFails(t) ==
  /\ t \in FileTasks /\ pc[t] = "step"
  /\ IF step[t] = 0 /\ ~cancelled[t] THEN Return(t, FALSE) ELSE Retry(t)
  /\ failed' = IF step[t] \in {0, TryTimes} THEN failed \cup {t} ELSE failed
  /\ UNCHANGED <<selected, status, cancelled, builds, ui, build, crashed>>

Background(t) ==
  \/ RunTask(t) \/ StepDone(t) \/ StepFails(t)
  \/ CheckCancelled(t) \/ Report(t) \/ CancelSelf(t)
  \/ AttemptDone(t) \/ AttemptFails(t)

----------------------------------------------------------------------------
(* The ApiService process: one build at a time, its exit code as a         *)
(* datagram, then stopSelf.  The thread of the SocketServer receives the   *)
(* datagram and then posts it to the looper.                               *)

ServiceReports_Early(t, code) ==
  /\ service = t
  /\ server[t] = "listening" /\ listener[t] = "none" /\ Len(queue) < 2
  /\ failed' = IF code = 0 THEN failed ELSE failed \cup {t}
  /\ listener' = [listener EXCEPT ![t] = IF code = 0 THEN "ok" ELSE "failed"]
  /\ UNCHANGED <<selected, status, cancelled, pc, step, builds, queue, ui, service, server, lost,
                 crashed>>

\* The listener is blocked in receive(), so that the datagram is received as it
\* is sent.  (A socket that exit() closes between the two drops the datagram:
\* nothing is left then which could wait for it.)
ServiceReports(t, code) ==
  /\ service = t
  /\ service' = "exiting"
  /\ failed' = IF code = 0 THEN failed ELSE failed \cup {t}
  /\ IF server[t] = "listening"
     THEN listener' = [listener EXCEPT ![t] = IF code = 0 THEN "ok" ELSE "failed"] /\ UNCHANGED lost
     ELSE lost' = TRUE /\ UNCHANGED listener
  /\ UNCHANGED <<selected, status, cancelled, pc, step, builds, queue, ui, server, crashed>>

\* The listener posts what it received; closing its socket does not stop it.
HandOver(t) ==
  /\ listener[t] # "none"
  /\ queue' = Append(queue, Message("result", t, listener[t] = "ok"))
  /\ listener' = [listener EXCEPT ![t] = "none"]
  /\ UNCHANGED <<selected, tasks, ui, server, service, lost, crashed>>

\* stopSelf reaches onDestroy, which kills the process.
ServiceStops ==
  /\ service = "exiting"
  /\ service' = "none"
  /\ UNCHANGED <<selected, tasks, queue, ui, server, listener, lost, crashed>>

\* The system, or the installer itself, ends the process of a running build.
ServiceKilled ==
  /\ service \in BuildTasks
  /\ service' = "none"
  /\ lost' = TRUE
  /\ UNCHANGED <<selected, tasks, queue, ui, server, listener, crashed>>

----------------------------------------------------------------------------
(* The UI thread.                                                          *)

\* exit(): cancel the running tasks, stop the servers and the service, close
\* the dialog.  A task still queued in the executor posts its result at once.
\* Stopping a server whose socket could not be bound throws.
exit_NoCancelTasks(q) ==
  /\ crashed' = \E t \in BuildTasks : server[t] = "broken"
  /\ server' = [t \in BuildTasks |-> IF server[t] = "none" THEN "none" ELSE "closed"]
  /\ service' = "none"
  /\ dialog' = "dismissed"
  /\ queue' = q
  /\ UNCHANGED <<cancelled, pc>>

exit_NoCancelBuild(q) ==
  LET queued == {t \in Task : pc[t] = "queued"}
  IN /\ cancelled' = [t \in Task |-> cancelled[t] \/ status[t] = "running"]
     /\ pc' = [t \in Task |-> IF t \in queued THEN "done" ELSE pc[t]]
     /\ queue' = IF queued = {} THEN q
                 ELSE Append(q, Message("finish", CHOOSE t \in queued : TRUE, FALSE))
     /\ dialog' = "dismissed"
     /\ UNCHANGED <<crashed, server, service>>

exit_(q) ==
  LET queued == {t \in Task : pc[t] = "queued"}
  IN /\ cancelled' = [t \in Task |-> cancelled[t] \/ status[t] = "running"]
     /\ pc' = [t \in Task |-> IF t \in queued THEN "done" ELSE pc[t]]
     /\ queue' = IF queued = {} THEN q
                 ELSE Append(q, Message("finish", CHOOSE t \in queued : TRUE, FALSE))
     /\ crashed' = \E t \in BuildTasks : server[t] = "broken"
     /\ server' = [t \in BuildTasks |-> IF server[t] = "none" THEN "none" ELSE "closed"]
     /\ service' = "none"
     /\ dialog' = "dismissed"

\* throwException on the UI thread: leave and show the failure.
throwException(q) ==
  /\ exit_(q)
  /\ failures' = failures + 1
  /\ UNCHANGED <<merged, json, successes>>

\* installJson: write the version JSON, leave and show the success.
installJson(q) ==
  /\ json' = merged'
  /\ exit_(q)
  /\ successes' = successes + 1
  /\ UNCHANGED failures

\* The positions in the chain of the selected tasks that follow t.
Following(t) ==
  {i \in DOMAIN Pipeline : Pipeline[i] \in selected /\ \E k \in 1..(i - 1) : Pipeline[k] = t}

\* Start the task n, which is new: downloadForge and the like.
Execute(t, n, q, ended) ==
  /\ status' = [status EXCEPT ![t] = "finished", ![n] = "running"]
  /\ pc' = [pc EXCEPT ![n] = "queued"]
  /\ queue' = q
  /\ server' = [u \in BuildTasks |-> IF u \in ended THEN "closed" ELSE server[u]]
  /\ UNCHANGED <<cancelled, json, successes, failures, dialog, service, crashed>>

\* The success callback of t: merge its patch, then execute the next selected
\* task or finish.  The server of the build that "ended" is closed after it.
Proceed(t, q, ended) ==
  /\ merged' = IF t \in PatchTasks THEN Append(merged, t) ELSE merged
  /\ \/ /\ Following(t) = {}
        /\ installJson(q)
        /\ status' = [status EXCEPT ![t] = "finished"]
     \/ \E i \in Following(t) :
          /\ \A j \in Following(t) : i <= j
          /\ Execute(t, Pipeline[i], q, ended)

Head_(kind, t) == queue # <<>> /\ Head(queue).kind = kind /\ Head(queue).task = t

\* A cancelled task ends in onCancelled.  Only those of the build tasks do
\* anything: the service is stopped.
FinishCancelled(t) ==
  /\ Head_("finish", t) /\ cancelled[t]
  /\ queue' = Tail(queue)
  /\ status' = [status EXCEPT ![t] = "finished"]
  /\ service' = IF t \in BuildTasks THEN "none" ELSE service
  /\ UNCHANGED <<selected, cancelled, pc, step, builds, failed, ui, server, listener, lost, crashed>>

\* onPostExecute of a task that brings an exception.
FinishFailed(t) ==
  /\ Head_("finish", t) /\ ~cancelled[t] /\ ~Head(queue).ok
  /\ throwException(Tail(queue))
  /\ status' = [status EXCEPT ![t] = "finished"]
  /\ UNCHANGED <<selected, step, builds, failed, stale, listener, lost>>

\* onPostExecute of a task that is complete.
FinishDone(t) ==
  /\ Head_("finish", t) /\ ~cancelled[t] /\ Head(queue).ok /\ t \notin builds
  /\ Proceed(t, Tail(queue), {})
  /\ UNCHANGED <<selected, step, builds, failed, stale, listener, lost>>

\* onPostExecute of a task that needs a build: bind the server's port, which
\* another socket may hold, and start the service.  A service process that is
\* about to stop itself takes the command with it.
StartBuild(t) ==
  /\ Head_("finish", t) /\ ~cancelled[t] /\ t \in builds
  /\ queue' = Tail(queue)
  /\ status' = [status EXCEPT ![t] = "finished"]
  /\ \E bound \in BOOLEAN :
        /\ bound => \A u \in BuildTasks : server[u] # "listening"
        /\ server' = [server EXCEPT ![t] = IF bound THEN "listening" ELSE "broken"]
        /\ lost' = (lost \/ ~bound \/ service = "exiting")
  /\ service' = IF service = "exiting" THEN "exiting" ELSE t
  /\ UNCHANGED <<selected, cancelled, pc, step, builds, failed, ui, listener, crashed>>

\* The result of a build: the message is handled even when the dialog was left
\* and the server closed after the datagram was received.
BuildFailed(t) ==
  /\ Head_("result", t) /\ ~Head(queue).ok
  /\ throwException(Tail(queue))
  /\ UNCHANGED <<selected, status, step, builds, failed, stale, listener, lost>>

BuildDone(t) ==
  /\ Head_("result", t) /\ Head(queue).ok
  /\ Proceed(t, Tail(queue), {t})
  /\ UNCHANGED <<selected, step, builds, failed, stale, listener, lost>>

\* The failure a background thread posted.
ShowFailure(t) ==
  /\ Head_("failure", t)
  /\ throwException(Tail(queue))
  /\ UNCHANGED <<selected, status, step, builds, failed, stale, listener, lost>>

\* The user presses the cancel button.
ClickCancel ==
  /\ dialog = "open"
  /\ exit_(queue)
  /\ stale' = IF \/ \E i \in DOMAIN queue : queue[i].kind = "result"
                 \/ \E t \in BuildTasks : listener[t] # "none"
              THEN "result" ELSE "left"
  /\ UNCHANGED <<selected, status, step, builds, failed, merged, json, successes, failures,
                 listener, lost>>

UIThread(t) ==
  \/ FinishCancelled(t) \/ FinishFailed(t) \/ FinishDone(t) \/ StartBuild(t)
  \/ BuildFailed(t) \/ BuildDone(t) \/ ShowFailure(t)

Next ==
  /\ ~crashed
  /\ \/ \E t \in Task : UIThread(t) \/ Background(t) \/ Throws(t)
     \/ \E t \in BuildTasks, code \in {0, 1} : ServiceReports(t, code)
     \/ \E t \in BuildTasks : HandOver(t)
     \/ ServiceStops \/ ServiceKilled
     \/ ClickCancel

Spec == Init /\ [][Next]_vars

\* The looper handles its messages, a listener posts what it received, the
\* executor's thread runs (every request ends: see DownloadPool for what a
\* download that never ends does), and a build that is not killed ends.
FairSpec ==
  /\ Spec
  /\ WF_vars(~crashed /\ \E t \in Task : UIThread(t))
  /\ WF_vars(~crashed /\ \E t \in Task : Background(t))
  /\ WF_vars(~crashed /\ \E t \in BuildTasks, code \in {0, 1} : ServiceReports(t, code))
  /\ WF_vars(~crashed /\ \E t \in BuildTasks : HandOver(t))
  /\ WF_vars(~crashed /\ ServiceStops)

----------------------------------------------------------------------------
(* Properties.                                                             *)

\* u comes before t in the chain.
Before(u, t) ==
  \E i, j \in DOMAIN Pipeline : i < j /\ Pipeline[i] = u /\ Pipeline[j] = t

\* The patches of the tasks S, each once, in the order of the chain.
Merges(patches, S) ==
  /\ {patches[i] : i \in DOMAIN patches} = S
  /\ \A i, j \in DOMAIN patches : i < j => Before(patches[i], patches[j])

\* The version JSON is only written when every selected part was installed:
\* no step of any of them failed, and every patch is merged exactly once, in
\* the order of the chain.  A failing task does not return: it reports, cancels
\* itself and goes on with its next step, and a single-file task tries again,
\* so that the callback which continues the chain is held back only by
\* isCancelled and by the exception the task brings.
JsonComplete ==
  json # <<>> =>
    /\ failed = {}
    /\ Merges(json, selected \cap PatchTasks)

\* The user sees at most one verdict, success or failure, and never both,
\* however failures reported by the background thread, by onPostExecute and by
\* the build interleave with the cancel button.
OneVerdict == successes + failures <= 1

\* An installation the user left writes no version JSON, except when the
\* result of a build had already been received, whether it was still in the
\* hands of the listener's thread or in the looper's queue: neither exit() nor
\* the closed socket takes it back, and it continues the chain behind the
\* closed dialog.
LeftInstallsNothing == stale = "left" => json = <<>>

\* One part is installed at a time: two tasks never run, wait for the executor
\* or build together, although nothing but the order of callbacks says so (the
\* tasks share the installer directory and the build's port).
OneAtATime ==
  Cardinality({t \in Task : Active(t) \/ pc[t] = "queued"}
              \cup (BuildTasks \cap {service})) <= 1

\* A build waits for its result behind an open dialog, or continues a chain
\* the user could no longer leave; a dismissed dialog never leaves a service
\* building or a server bound behind an installation that was cancelled.
LeftBuildsNothing ==
  stale = "left" => service \notin BuildTasks /\ \A t \in BuildTasks : server[t] # "listening"

\* Every installation comes to rest: a verdict or the cancel button closes the
\* dialog, no task, message or service is left, unless the application crashed
\* or the result of a build can no longer arrive (then the dialog stays open
\* until the user cancels).
AtRest ==
  /\ dialog = "dismissed" /\ queue = <<>> /\ service = "none"
  /\ \A t \in BuildTasks : listener[t] = "none"
  /\ \A t \in Task : pc[t] \in {"none", "done"}
Settles == <>(AtRest \/ crashed \/ lost)
====
