------------------------- MODULE LaunchCheckProofs -------------------------
(***************************************************************************)
(* LaunchOnce, NoLaunchAfterExit and SelectedLaunched for any accounts,    *)
(* checks, sessions and log-ins.                                           *)
(*                                                                         *)
(* They rest on the UI thread seeing the result of a check once (Unique,   *)
(* Fits): a field that is true belongs to a check that finished, or to a   *)
(* ReLoginDialog that was answered (Stages), so checkState() finds all     *)
(* three true for the first time when there is no LaunchTask yet, and only *)
(* another log-in makes a second one, which exit() then misses (Exits).    *)
(* So once every dialog is closed no LaunchTask is due for an account that *)
(* is not the one selected next (Chosen).                                  *)
(***************************************************************************)
EXTENDS LaunchCheck, SequenceTheorems, TLAPS

IsSeq(q) == \E S : q \in Seq(S)

Task(t) == \E A, S, B : t \in [acct : A, state : S, cancelled : B]

Shape ==
  /\ IsSeq(ui) /\ IsSeq(started)
  /\ dialog = [s \in Sessions |-> dialog[s]]
  /\ check = [s \in Sessions |-> check[s]]
  /\ passed = [s \in Sessions |-> passed[s]]
  /\ cancelled = [s \in Sessions |-> cancelled[s]]
  /\ relogin = [s \in Sessions |-> relogin[s]]
  /\ relogged \in [Sessions -> Nat]
  /\ launch = [s \in Sessions |-> launch[s]]
  /\ logins = [s \in Sessions |-> logins[s]]
  /\ \A s \in Sessions :
       /\ check[s] = [c \in Checks |-> check[s][c]]
       /\ passed[s] \subseteq Checks
       /\ IsSeq(launch[s]) /\ IsSeq(logins[s])
       /\ \A k \in DOMAIN launch[s] : Task(launch[s][k])

\* Two messages of which at most one is ever waiting.
Same(a, b) ==
  /\ a.what = b.what /\ a.s = b.s
  /\ \/ a.what = "result" /\ a.check = b.check
     \/ a.what = "launched" /\ a.task = b.task

Unique == \A m, n \in DOMAIN ui : Same(ui[m], ui[n]) => m = n

\* What a waiting message says of the checks, the LaunchTasks and the dialogs.
Says(m, ch, la, re) ==
  /\ m.s \in Sessions
  /\ m.what = "result" =>
       /\ m.check \in Checks /\ ch[m.s][m.check] = "posted"
       /\ m.outcome = "relogin" => m.check = "login"
  /\ m.what = "launched" =>
       m.task \in DOMAIN la[m.s] /\ la[m.s][m.task].state = "posted"
  /\ m.what = "onRelogin" => re[m.s] # "none"

Fits(m) == Says(m, check, launch, relogin)

Mail == \A n \in DOMAIN ui : Fits(ui[n])

\* Where a session is, told by its checks, its fields and its ReLoginDialog.
Stage(s) ==
  /\ dialog[s] = "none" => /\ \A c \in Checks : check[s][c] = "none"
                           /\ passed[s] = {} /\ relogin[s] = "none"
  /\ \A c \in FileChecks \cap passed[s] : check[s][c] = "finished"
  /\ "login" \in passed[s] /\ relogged[s] = 0 =>
       check[s]["login"] = "finished" /\ relogin[s] = "none"
  /\ relogin[s] # "none" => check[s]["login"] = "finished"
  /\ logins[s] # <<>> => relogin[s] # "none"
  /\ relogged[s] > 0 => relogin[s] = "gone"

Stages == \A s \in Sessions : Stage(s)

\* A LaunchTask is only made with all fields true.
Launches == \A s \in Sessions : launch[s] # <<>> => passed[s] = Checks

\* What exit() leaves behind.
Exit(s) ==
  /\ s \in exited => /\ dialog[s] # "none"
                     /\ \A c \in Checks \ cancelled[s] : check[s][c] = "finished"
  /\ s \in exited /\ s \notin late /\ relogged[s] <= 1 =>
       \A k \in DOMAIN launch[s] : launch[s][k].state = "finished" \/ launch[s][k].cancelled
  /\ Games(s) # {} => dialog[s] = "gone" /\ passed[s] = Checks

Exits == \A s \in Sessions : Exit(s)

IInv == Shape /\ Unique /\ Mail /\ Stages /\ Launches /\ LaunchOnce /\ Exits /\ NoLaunchAfterExit

-----------------------------------------------------------------------------
\* Sequences

LEMMA Appended ==
  ASSUME NEW q, IsSeq(q), NEW x
  PROVE  /\ IsSeq(Append(q, x)) /\ Append(q, x) # <<>>
         /\ Len(q) \in Nat /\ DOMAIN q = 1..Len(q) /\ Len(Append(q, x)) = Len(q) + 1
         /\ DOMAIN Append(q, x) = 1..(Len(q) + 1)
         /\ \A n \in DOMAIN q : Append(q, x)[n] = q[n]
         /\ Append(q, x)[Len(q) + 1] = x
<1>1. PICK S : q \in Seq(S)
  BY DEF IsSeq
<1>2. q \in Seq(S \cup {x})
  BY <1>1, SeqMonotonic
<1>3. Append(q, x) \in Seq(S \cup {x}) /\ Len(Append(q, x)) = Len(q) + 1 /\ Len(q) \in Nat
  BY <1>2
<1>4. /\ \A n \in DOMAIN q : Append(q, x)[n] = q[n]
      /\ Append(q, x)[Len(q) + 1] = x
  BY <1>2
<1>5. DOMAIN q = 1..Len(q) /\ DOMAIN Append(q, x) = 1..(Len(q) + 1)
  BY <1>2, <1>3, LenProperties
<1>6. Append(q, x) # <<>>
  BY <1>3, EmptySeq
<1> QED BY <1>3, <1>4, <1>5, <1>6 DEF IsSeq

LEMMA TailOf ==
  ASSUME NEW q, IsSeq(q), q # <<>>
  PROVE  /\ IsSeq(Tail(q)) /\ 1 \in DOMAIN q /\ Head(q) = q[1]
         /\ \A n \in DOMAIN Tail(q) : n \in Nat \ {0} /\ n + 1 \in DOMAIN q /\ Tail(q)[n] = q[n + 1]
<1>1. PICK S : q \in Seq(S)
  BY DEF IsSeq
<1>2. Tail(q) \in Seq(S)
  BY <1>1
<1> QED BY <1>1, <1>2 DEF IsSeq

LEMMA Updated ==
  ASSUME NEW q, IsSeq(q), NEW n \in DOMAIN q, NEW x
  PROVE  /\ IsSeq([q EXCEPT ![n] = x]) /\ [q EXCEPT ![n] = x] # <<>>
         /\ Len([q EXCEPT ![n] = x]) = Len(q)
<1>1. PICK S : q \in Seq(S)
  BY DEF IsSeq
<1>2. q \in Seq(S \cup {x}) /\ n \in 1..Len(q)
  BY <1>1, SeqMonotonic, LenProperties
<1>3. [q EXCEPT ![n] = x] \in Seq(S \cup {x}) /\ Len([q EXCEPT ![n] = x]) = Len(q)
  BY <1>2, ExceptSeq
<1>4. Len(q) # 0
  BY <1>2
<1> QED BY <1>3, <1>4, EmptySeq DEF IsSeq

LEMMA NotLogin == "login" \in Checks /\ "login" \notin FileChecks /\ FileChecks = Checks \ {"login"}
BY LaunchAssumption DEF Checks

\* A waiting message is handled.
LEMMA Popped ==
  ASSUME IsSeq(ui), Unique, ui # <<>>, ui' = Tail(ui)
  PROVE  /\ IsSeq(ui)' /\ Unique'
         /\ \A n \in DOMAIN ui' : \E k \in DOMAIN ui : ui'[n] = ui[k] /\ ~Same(ui[k], Head(ui))
<1>1. /\ IsSeq(ui') /\ 1 \in DOMAIN ui /\ Head(ui) = ui[1]
      /\ \A n \in DOMAIN ui' : n \in Nat \ {0} /\ n + 1 \in DOMAIN ui /\ ui'[n] = ui[n + 1]
  BY TailOf
<1>2. \A n \in DOMAIN ui' : ~Same(ui[n + 1], ui[1])
  <2> SUFFICES ASSUME NEW n \in DOMAIN ui', Same(ui[n + 1], ui[1]) PROVE FALSE
    OBVIOUS
  <2> QED BY <1>1 DEF Unique
<1>3. Unique'
  <2> SUFFICES ASSUME NEW m \in DOMAIN ui', NEW n \in DOMAIN ui', Same(ui'[m], ui'[n])
               PROVE  m = n
    BY DEF Unique, Same
  <2>1. Same(ui[m + 1], ui[n + 1])
    BY <1>1
  <2> QED BY <1>1, <2>1 DEF Unique
<1> QED BY <1>1, <1>2, <1>3

\* A message is posted that none of those that wait is the same as.
LEMMA Posted ==
  ASSUME IsSeq(ui), Unique, NEW x, Post(x), \A n \in DOMAIN ui : ~Same(ui[n], x)
  PROVE  /\ IsSeq(ui)' /\ Unique'
         /\ \A n \in DOMAIN ui' : ui'[n] = x \/ \E k \in DOMAIN ui : ui'[n] = ui[k]
<1>1. /\ IsSeq(ui') /\ Len(ui) \in Nat /\ DOMAIN ui = 1..Len(ui)
      /\ DOMAIN ui' = 1..(Len(ui) + 1)
      /\ \A n \in DOMAIN ui : ui'[n] = ui[n]
      /\ ui'[Len(ui) + 1] = x
  BY Appended DEF Post
<1>2. \A n \in DOMAIN ui' : n \in DOMAIN ui \/ n = Len(ui) + 1
  BY <1>1
<1>3. Unique'
  <2> SUFFICES ASSUME NEW m \in DOMAIN ui', NEW n \in DOMAIN ui', Same(ui'[m], ui'[n])
               PROVE  m = n
    BY DEF Unique, Same
  <2>1. \A k \in DOMAIN ui : ~Same(x, ui[k])
    BY DEF Same
  <2>2. CASE m \in DOMAIN ui /\ n \in DOMAIN ui
    <3>1. Same(ui[m], ui[n])
      BY <1>1, <2>2
    <3> QED BY <2>2, <3>1 DEF Unique
  <2>3. CASE m \in DOMAIN ui /\ n \notin DOMAIN ui
    <3>1. Same(ui[m], x)
      BY <1>1, <1>2, <2>3
    <3> QED BY <2>3, <3>1
  <2>4. CASE m \notin DOMAIN ui /\ n \in DOMAIN ui
    <3>1. Same(x, ui[n])
      BY <1>1, <1>2, <2>4
    <3> QED BY <2>1, <2>4, <3>1
  <2>5. CASE m \notin DOMAIN ui /\ n \notin DOMAIN ui
    BY <1>2, <2>5
  <2> QED BY <2>2, <2>3, <2>4, <2>5
<1> QED BY <1>1, <1>2, <1>3

-----------------------------------------------------------------------------
\* Steps of the user and the background that start and end nothing

sessionVars == <<dialog, passed, cancelled, relogin, relogged, launch, started, exited, late>>

\* Handlers and clicks that only pass a message on.
Calm ==
  /\ UNCHANGED <<sessionVars, check>>
  /\ logins' = [s \in Sessions |-> logins'[s]]
  /\ \A s \in Sessions : IsSeq(logins'[s]) /\ (logins'[s] # <<>> => relogin[s] # "none")
  /\ \/ UNCHANGED ui
     \/ ui # <<>> /\ ui' = Tail(ui)
     \/ \E x : Post(x) /\ x.what \in {"save", "buttons", "onRelogin"} /\ Fits(x)

LEMMA CalmStep == ASSUME IInv, Calm PROVE IInv'
<1> USE DEF sessionVars
<1>1. UNCHANGED <<sessionVars, check>>
  BY DEF Calm
<1>2. /\ IsSeq(ui)' /\ Unique'
      /\ \A n \in DOMAIN ui' : Fits(ui'[n])
  <2>1. CASE UNCHANGED ui
    BY <2>1 DEF IInv, Shape, IsSeq, Unique, Mail, Same, Fits
  <2>2. CASE ui # <<>> /\ ui' = Tail(ui)
    BY <2>2, Popped DEF IInv, Shape, Mail
  <2>3. CASE \E x : Post(x) /\ x.what \in {"save", "buttons", "onRelogin"} /\ Fits(x)
    <3>1. PICK x : Post(x) /\ x.what \in {"save", "buttons", "onRelogin"} /\ Fits(x)
      BY <2>3
    <3>2. \A n \in DOMAIN ui : ~Same(ui[n], x)
      BY <3>1 DEF Same
    <3> QED BY <3>1, <3>2, Posted DEF IInv, Shape, Mail
  <2> QED BY <2>1, <2>2, <2>3 DEF Calm
<1>3. Shape'
  BY <1>1, <1>2 DEF Calm, IInv, Shape, IsSeq, Task
<1>4. Mail'
  BY <1>1, <1>2 DEF Mail, Fits, Says
<1>5. Stages'
  BY <1>1 DEF Calm, IInv, Stages, Stage
<1>6. Launches' /\ LaunchOnce'
  BY <1>1 DEF IInv, Launches, LaunchOnce
<1>7. Exits' /\ NoLaunchAfterExit'
  BY <1>1 DEF IInv, Exits, Exit, NoLaunchAfterExit, Games
<1> QED BY <1>2, <1>3, <1>4, <1>5, <1>6, <1>7 DEF IInv

\* A check at work goes on, posts its result, or ends when it was cancelled.
Works(s, c, to) ==
  /\ UNCHANGED <<sessionVars, logins>>
  /\ check[s][c] \in {"running", "refreshed", "saved"}
  /\ check' = [check EXCEPT ![s][c] = to]
  /\ \/ to \notin {"none", "posted"} /\ UNCHANGED ui
     \/ to \notin {"none", "posted"} /\ \E a : Post(Save(s, a))
     \/ to = "posted" /\ \E e : Post(Result(s, c, e)) /\ (e = "relogin" => c = "login")

LEMMA WorkStep ==
  ASSUME IInv, NEW s0 \in Sessions, NEW c0 \in Checks, NEW to, Works(s0, c0, to)
  PROVE  IInv'
<1> USE DEF sessionVars
<1>1. UNCHANGED <<sessionVars, logins>> /\ check[s0][c0] \in {"running", "refreshed", "saved"}
  BY DEF Works
<1>2. /\ check'[s0][c0] = to
      /\ \A s \in Sessions, c \in Checks : s # s0 \/ c # c0 => check'[s][c] = check[s][c]
      /\ check' = [s \in Sessions |-> check'[s]]
      /\ \A s \in Sessions : check'[s] = [c \in Checks |-> check'[s][c]]
  BY DEF Works, IInv, Shape
<1>3. \A n \in DOMAIN ui : ~(ui[n].what = "result" /\ ui[n].s = s0 /\ ui[n].check = c0)
  BY <1>1 DEF IInv, Mail, Fits, Says
<1>4. \A n \in DOMAIN ui : Says(ui[n], check', launch', relogin')
  BY <1>1, <1>2, <1>3 DEF IInv, Mail, Fits, Says
<1>5. IsSeq(ui)' /\ Unique' /\ Mail'
  <2>1. CASE UNCHANGED ui
    BY <1>4, <2>1 DEF IInv, Shape, IsSeq, Unique, Mail, Same, Fits
  <2>2. CASE \E a : Post(Save(s0, a))
    <3>1. PICK a : Post(Save(s0, a))
      BY <2>2
    <3> DEFINE x == Save(s0, a)
    <3>2. x.what = "save" /\ x.s = s0
      BY DEF Save
    <3> HIDE DEF x
    <3>3. Says(x, check', launch', relogin') /\ \A n \in DOMAIN ui : ~Same(ui[n], x)
      BY <3>2 DEF Says, Same
    <3> QED BY <1>4, <3>1, <3>3, Posted DEF IInv, Shape, Mail, Fits, x
  <2>3. CASE to = "posted" /\ \E e : Post(Result(s0, c0, e)) /\ (e = "relogin" => c0 = "login")
    <3>1. PICK e : Post(Result(s0, c0, e)) /\ (e = "relogin" => c0 = "login")
      BY <2>3
    <3> DEFINE x == Result(s0, c0, e)
    <3>2. x.what = "result" /\ x.s = s0 /\ x.check = c0 /\ x.outcome = e
      BY DEF Result
    <3> HIDE DEF x
    <3>3. Says(x, check', launch', relogin') /\ \A n \in DOMAIN ui : ~Same(ui[n], x)
      BY <1>2, <1>3, <2>3, <3>1, <3>2 DEF Says, Same
    <3> QED BY <1>4, <3>1, <3>3, Posted DEF IInv, Shape, Mail, Fits, x
  <2> QED BY <2>1, <2>2, <2>3 DEF Works
<1>6. Shape'
  BY <1>1, <1>2, <1>5 DEF IInv, Shape, IsSeq, Task
<1>7. Stages'
  <2> SUFFICES ASSUME NEW s \in Sessions PROVE Stage(s)'
    BY DEF Stages
  <2>1. Stage(s) /\ Stage(s0)
    BY DEF IInv, Stages
  <2>2. dialog[s0] # "none" /\ c0 \notin FileChecks \cap passed[s0]
        /\ (c0 = "login" => relogin[s0] = "none" /\ ~(c0 \in passed[s0] /\ relogged[s0] = 0))
    BY <1>1, <2>1 DEF Stage
  <2>3. \A c \in Checks : check[s][c] # check'[s][c] => s = s0 /\ c = c0
    BY <1>2
  <2> QED BY <1>1, <2>1, <2>2, <2>3, NotLogin DEF Stage
<1>8. Launches' /\ LaunchOnce'
  BY <1>1 DEF IInv, Launches, LaunchOnce
<1>9. Exits' /\ NoLaunchAfterExit'
  BY <1>1, <1>2 DEF IInv, Exits, Exit, NoLaunchAfterExit, Games
<1> QED BY <1>5, <1>6, <1>7, <1>8, <1>9 DEF IInv

LEMMA StartStep ==
  ASSUME IInv, NEW s0 \in Sessions, startCheckTasks(s0)
  PROVE  IInv'
<1>1. /\ UNCHANGED <<ui, passed, cancelled, relogin, relogged, launch, logins, started, exited, late>>
      /\ dialog[s0] = "none" /\ dialog'[s0] = "shown"
      /\ dialog' = [s \in Sessions |-> dialog'[s]] /\ check' = [s \in Sessions |-> check'[s]]
      /\ check'[s0] = [c \in Checks |-> "running"]
      /\ \A s \in Sessions \ {s0} : dialog'[s] = dialog[s] /\ check'[s] = check[s]
  BY DEF startCheckTasks, IInv, Shape, loginVars, history
<1>2. /\ \A c \in Checks : check[s0][c] = "none" /\ check'[s0][c] = "running"
      /\ passed[s0] = {} /\ relogin[s0] = "none" /\ s0 \notin exited /\ Games(s0) = {}
  BY <1>1 DEF IInv, Stages, Stage, Exits, Exit
<1>3. Shape' /\ Unique'
  <2>1. check'[s0] = [c \in Checks |-> check'[s0][c]]
    BY <1>1
  <2>2. /\ IsSeq(ui') /\ IsSeq(started')
        /\ \A s \in Sessions : /\ IsSeq(launch'[s]) /\ IsSeq(logins'[s])
                               /\ \A k \in DOMAIN launch'[s] : Task(launch'[s][k])
    BY <1>1 DEF IInv, Shape
  <2>3. Shape'
    BY <1>1, <2>1, <2>2 DEF IInv, Shape, IsSeq
  <2>4. Unique'
    BY <1>1 DEF IInv, Unique, Same
  <2> QED BY <2>3, <2>4
<1>4. Mail'
  BY <1>1, <1>2 DEF IInv, Mail, Fits, Says
<1>5. Stages'
  <2> SUFFICES ASSUME NEW s \in Sessions PROVE Stage(s)'
    BY DEF Stages
  <2>1. Stage(s)
    BY DEF IInv, Stages
  <2>2. CASE s = s0
    BY <1>1, <1>2, <2>1, <2>2, NotLogin DEF Stage, IInv, Shape
  <2>3. CASE s # s0
    BY <1>1, <2>1, <2>3 DEF Stage
  <2> QED BY <2>2, <2>3
<1>6. Launches' /\ LaunchOnce' /\ NoLaunchAfterExit'
  BY <1>1 DEF IInv, Launches, LaunchOnce, NoLaunchAfterExit, Games
<1>7. Exits'
  <2> SUFFICES ASSUME NEW s \in Sessions PROVE Exit(s)'
    BY DEF Exits
  <2>1. Exit(s) /\ Games(s)' = Games(s)
    BY <1>1 DEF IInv, Exits, Games
  <2>2. CASE s = s0
    BY <1>1, <1>2, <2>1, <2>2 DEF Exit
  <2>3. CASE s # s0
    BY <1>1, <2>1, <2>3 DEF Exit
  <2> QED BY <2>2, <2>3
<1> QED BY <1>3, <1>4, <1>5, <1>6, <1>7 DEF IInv

-----------------------------------------------------------------------------
\* LaunchTasks

\* The LaunchTasks of s are the same, some of them cancelled now.
SameTasks(s) ==
  /\ IsSeq(launch'[s]) /\ DOMAIN launch'[s] = DOMAIN launch[s]
  /\ Len(launch'[s]) = Len(launch[s]) /\ (launch'[s] # <<>> => launch[s] # <<>>)
  /\ \A k \in DOMAIN launch[s] :
       /\ Task(launch'[s][k]) /\ launch'[s][k].state = launch[s][k].state
       /\ launch'[s][k].acct = launch[s][k].acct
       /\ launch[s][k].cancelled => launch'[s][k].cancelled

LEMMA Unlaunched ==
  ASSUME IInv, NEW s \in Sessions, launch'[s] = launch[s]
  PROVE  SameTasks(s)
BY DEF IInv, Shape, SameTasks

LEMMA OneTask ==
  ASSUME NEW q, IsSeq(q), Len(q) <= 1, NEW k \in DOMAIN q
  PROVE  k = Len(q)
<1>1. PICK S : q \in Seq(S)
  BY DEF IsSeq
<1> QED BY <1>1, LenProperties

LEMMA TaskCancelled ==
  ASSUME NEW t, Task(t)
  PROVE  /\ Task([t EXCEPT !.cancelled = TRUE])
         /\ [t EXCEPT !.cancelled = TRUE].state = t.state
         /\ [t EXCEPT !.cancelled = TRUE].acct = t.acct
         /\ [t EXCEPT !.cancelled = TRUE].cancelled
<1>1. PICK A, S, B : t \in [acct : A, state : S, cancelled : B]
  BY DEF Task
<1>2. [t EXCEPT !.cancelled = TRUE] \in [acct : A, state : S, cancelled : B \cup {TRUE}]
  BY <1>1
<1>3. /\ [t EXCEPT !.cancelled = TRUE].state = t.state
      /\ [t EXCEPT !.cancelled = TRUE].acct = t.acct
  BY <1>1
<1>4. [t EXCEPT !.cancelled = TRUE].cancelled
  BY <1>1
<1> QED BY <1>2, <1>3, <1>4 DEF Task

LEMMA TaskMoved ==
  ASSUME NEW t, Task(t), NEW st
  PROVE  /\ Task([t EXCEPT !.state = st])
         /\ [t EXCEPT !.state = st].state = st
         /\ [t EXCEPT !.state = st].cancelled = t.cancelled
         /\ [t EXCEPT !.state = st].acct = t.acct
<1>1. PICK A, S, B : t \in [acct : A, state : S, cancelled : B]
  BY DEF Task
<1>2. [t EXCEPT !.state = st] \in [acct : A, state : S \cup {st}, cancelled : B]
  BY <1>1
<1>3. /\ [t EXCEPT !.state = st].state = st
      /\ [t EXCEPT !.state = st].cancelled = t.cancelled
      /\ [t EXCEPT !.state = st].acct = t.acct
  BY <1>1
<1> QED BY <1>2, <1>3 DEF Task

\* exit() cancels what has not finished, of several LaunchTasks the last.
LEMMA ExitCancels ==
  ASSUME IInv, NEW s0 \in Sessions, exit(s0)
  PROVE  /\ launch' = [s \in Sessions |-> launch'[s]]
         /\ \A s \in Sessions : SameTasks(s)
         /\ Len(launch[s0]) <= 1 =>
              \A k \in DOMAIN launch[s0] :
                launch'[s0][k].state = "finished" \/ launch'[s0][k].cancelled
<1> DEFINE n == Len(launch[s0])
           hit == n > 0 /\ launch[s0][n].state # "finished"
<1>0. IsSeq(launch[s0]) /\ \A k \in DOMAIN launch[s0] : Task(launch[s0][k])
  BY DEF IInv, Shape
<1>1. CASE ~hit
  <2>1. launch' = launch
    BY <1>1 DEF exit
  <2>2. \A k \in DOMAIN launch[s0] : n <= 1 => k = n /\ n > 0
    BY <1>0, OneTask, LenProperties DEF IsSeq
  <2>3. \A s \in Sessions : SameTasks(s)
    BY <2>1, Unlaunched
  <2> QED BY <1>1, <2>1, <2>2, <2>3 DEF IInv, Shape
<1>2. CASE hit
  <2> DEFINE t == [launch[s0][n] EXCEPT !.cancelled = TRUE]
             q == [launch[s0] EXCEPT ![n] = t]
  <2>1. launch' = [launch EXCEPT ![s0] = q]
    BY <1>2 DEF exit
  <2>2. n \in DOMAIN launch[s0]
    BY <1>0, <1>2, LenProperties DEF IsSeq
  <2>3. Task(t) /\ t.state = launch[s0][n].state /\ t.cancelled /\ t.acct = launch[s0][n].acct
    BY <1>0, <2>2, TaskCancelled
  <2>4. IsSeq(q) /\ q # <<>> /\ Len(q) = n
    BY <1>0, <2>2, Updated
  <2>5. DOMAIN q = DOMAIN launch[s0] /\ q[n] = t
        /\ \A k \in DOMAIN launch[s0] : k # n => q[k] = launch[s0][k]
    BY <2>2
  <2>6. launch[s0] # <<>>
    BY <1>2
  <2> HIDE DEF t, q
  <2>7. launch'[s0] = q /\ launch' = [s \in Sessions |-> launch'[s]]
        /\ \A s \in Sessions \ {s0} : launch'[s] = launch[s]
    BY <2>1 DEF IInv, Shape
  <2>8. SameTasks(s0)
    BY <1>0, <2>2, <2>3, <2>4, <2>5, <2>6, <2>7 DEF SameTasks
  <2>9. \A s \in Sessions \ {s0} : SameTasks(s)
    BY <2>7, Unlaunched
  <2>10. \A k \in DOMAIN launch[s0] : n <= 1 => k = n
    BY <1>0, OneTask
  <2> QED BY <2>3, <2>5, <2>7, <2>8, <2>9, <2>10
<1> QED BY <1>1, <1>2

\* One LaunchTask of s0 moves on.
TaskMovesTo(s0, n, st) ==
  /\ launch' = [s \in Sessions |-> launch'[s]]
  /\ \A s \in Sessions \ {s0} : launch'[s] = launch[s]
  /\ IsSeq(launch'[s0]) /\ Len(launch'[s0]) = Len(launch[s0])
  /\ DOMAIN launch'[s0] = DOMAIN launch[s0] /\ launch[s0] # <<>>
  /\ launch'[s0][n].state = st /\ launch'[s0][n].cancelled = launch[s0][n].cancelled
  /\ launch'[s0][n].acct = launch[s0][n].acct
  /\ Task(launch'[s0][n])
  /\ \A k \in DOMAIN launch[s0] : k # n => launch'[s0][k] = launch[s0][k]

LEMMA TaskMoves ==
  ASSUME IInv, NEW s0 \in Sessions, NEW n \in DOMAIN launch[s0], NEW st,
         launch' = [launch EXCEPT ![s0][n].state = st]
  PROVE  TaskMovesTo(s0, n, st)
<1> DEFINE t == [launch[s0][n] EXCEPT !.state = st]
           q == [launch[s0] EXCEPT ![n] = t]
<1>0. IsSeq(launch[s0]) /\ Task(launch[s0][n])
  BY DEF IInv, Shape
<1>1. launch' = [launch EXCEPT ![s0] = q]
  OBVIOUS
<1>2. /\ Task(t) /\ t.state = st
      /\ t.cancelled = launch[s0][n].cancelled /\ t.acct = launch[s0][n].acct
  BY <1>0, TaskMoved
<1>3. IsSeq(q) /\ q # <<>> /\ Len(q) = Len(launch[s0])
  BY <1>0, Updated
<1>4. DOMAIN q = DOMAIN launch[s0] /\ q[n] = t
      /\ \A k \in DOMAIN launch[s0] : k # n => q[k] = launch[s0][k]
  OBVIOUS
<1>5. launch[s0] # <<>>
  BY <1>0, EmptySeq, LenProperties DEF IsSeq
<1> HIDE DEF t, q
<1>6. launch'[s0] = q /\ launch' = [s \in Sessions |-> launch'[s]]
      /\ \A s \in Sessions \ {s0} : launch'[s] = launch[s]
  BY <1>1 DEF IInv, Shape
<1> QED BY <1>2, <1>3, <1>4, <1>5, <1>6 DEF TaskMovesTo

\* The messages that wait fit LaunchTasks and a ReLoginDialog that moved on.
LEMMA StillFits ==
  ASSUME NEW x, NEW ch, Says(x, ch, launch, relogin),
         \A s \in Sessions : relogin[s] # "none" => relogin'[s] # "none",
         \A s \in Sessions : \A k \in DOMAIN launch[s] :
           k \in DOMAIN launch'[s] /\ launch'[s][k].state = launch[s][k].state
  PROVE  Says(x, ch, launch', relogin')
BY DEF Says

-----------------------------------------------------------------------------
\* Steps that end a session

\* exit() of a session in which no game has started.
LEMMA ExitStep ==
  ASSUME IInv, NEW s0 \in Sessions, exit(s0), Games(s0) = {},
         UNCHANGED <<passed, relogged, started, late>>,
         \A s \in Sessions, c \in Checks : check[s][c] = "finished" => check'[s][c] = "finished"
  PROVE  Launches' /\ LaunchOnce' /\ Exits' /\ NoLaunchAfterExit'
<1>1. /\ \A s \in Sessions : SameTasks(s)
      /\ Len(launch[s0]) <= 1 =>
           \A k \in DOMAIN launch[s0] :
             launch'[s0][k].state = "finished" \/ launch'[s0][k].cancelled
  BY ExitCancels
<1>2. /\ dialog'[s0] = "gone" /\ \A s \in Sessions \ {s0} : dialog'[s] = dialog[s]
      /\ cancelled'[s0] = cancelled[s0] \cup {c \in Checks : check[s0][c] # "finished"}
      /\ \A s \in Sessions \ {s0} : cancelled'[s] = cancelled[s]
      /\ exited' = exited \cup {s0}
  BY DEF exit, IInv, Shape
<1>3. Launches'
  BY <1>1 DEF IInv, Launches, SameTasks
<1>4. LaunchOnce'
  BY <1>1 DEF IInv, LaunchOnce, SameTasks
<1>5. NoLaunchAfterExit'
  BY <1>2 DEF IInv, NoLaunchAfterExit, Games
<1>6. Exits'
  <2> SUFFICES ASSUME NEW s \in Sessions PROVE Exit(s)'
    BY DEF Exits
  <2>1. Exit(s) /\ Games(s)' = Games(s) /\ DOMAIN launch'[s] = DOMAIN launch[s]
    BY <1>1 DEF IInv, Exits, Games, SameTasks
  <2>2. CASE s = s0
    <3>1. \A c \in Checks \ cancelled'[s] : check'[s][c] = "finished"
      BY <1>2, <2>2
    <3>2. relogged[s] <= 1 => Len(launch[s]) <= 1
      BY DEF IInv, LaunchOnce, Shape
    <3> QED BY <1>1, <1>2, <2>1, <2>2, <3>1, <3>2 DEF Exit
  <2>3. CASE s # s0
    BY <1>1, <1>2, <2>1, <2>3 DEF Exit, SameTasks
  <2> QED BY <2>2, <2>3
<1> QED BY <1>3, <1>4, <1>5, <1>6

\* The user gives up, on the check dialog or on the ReLoginDialog.
LEMMA ClickStep ==
  ASSUME IInv, NEW s0 \in Sessions, CancelClick(s0) \/ ReloginCancelClick(s0)
  PROVE  IInv'
<1>1. /\ exit(s0) /\ UNCHANGED <<ui, check, passed, logins, started, relogged, late>>
      /\ relogin' = [s \in Sessions |-> relogin'[s]]
      /\ \A s \in Sessions :
           relogin'[s] = relogin[s] \/ (relogin[s] = "shown" /\ relogin'[s] = "gone")
  <2>1. CASE CancelClick(s0)
    <3>1. exit(s0) /\ UNCHANGED <<ui, check, passed, logins, started, relogged, late, relogin>>
      BY <2>1 DEF CancelClick, loginVars
    <3>2. relogin = [s \in Sessions |-> relogin[s]]
      BY DEF IInv, Shape
    <3> QED BY <3>1, <3>2
  <2>2. CASE ReloginCancelClick(s0)
    <3>1. /\ exit(s0) /\ UNCHANGED <<ui, check, passed, logins, started, relogged, late>>
          /\ relogin[s0] = "shown" /\ relogin' = [relogin EXCEPT ![s0] = "gone"]
      BY <2>2 DEF ReloginCancelClick
    <3>2. relogin = [s \in Sessions |-> relogin[s]]
      BY DEF IInv, Shape
    <3>3. relogin'[s0] = "gone" /\ \A s \in Sessions : s # s0 => relogin'[s] = relogin[s]
      BY <3>1, <3>2
    <3>4. relogin' = [s \in Sessions |-> relogin'[s]]
      BY <3>1, <3>2
    <3>5. \A s \in Sessions :
           relogin'[s] = relogin[s] \/ (relogin[s] = "shown" /\ relogin'[s] = "gone")
      <4> SUFFICES ASSUME NEW s \in Sessions
                   PROVE  relogin'[s] = relogin[s] \/ (relogin[s] = "shown" /\ relogin'[s] = "gone")
        OBVIOUS
      <4> QED BY <3>1, <3>3
    <3> QED BY <3>1, <3>4, <3>5
  <2> QED BY <2>1, <2>2
<1>2. Games(s0) = {}
  <2>1. Stage(s0) /\ Exit(s0) /\ relogged[s0] \in Nat
    BY DEF IInv, Stages, Exits, Shape
  <2>2. CASE dialog[s0] = "shown"
    BY <2>1, <2>2 DEF Exit
  <2>3. CASE relogin[s0] = "shown"
    BY <2>1, <2>3, NotLogin DEF Stage, Exit
  <2> QED BY <2>2, <2>3 DEF CancelClick, ReloginCancelClick
<1>3. Launches' /\ LaunchOnce' /\ Exits' /\ NoLaunchAfterExit'
  BY <1>1, <1>2, ExitStep
<1>4. launch' = [s \in Sessions |-> launch'[s]] /\ \A s \in Sessions : SameTasks(s)
  BY <1>1, ExitCancels
<1>5. /\ dialog' = [s \in Sessions |-> dialog'[s]]
      /\ cancelled' = [s \in Sessions |-> cancelled'[s]]
      /\ \A s \in Sessions : dialog'[s] = "none" => dialog[s] = "none"
  BY <1>1 DEF exit, IInv, Shape
<1>6. Shape'
  <2>1. \A s \in Sessions : IsSeq(launch'[s]) /\ \A k \in DOMAIN launch'[s] : Task(launch'[s][k])
    BY <1>4 DEF SameTasks
  <2> QED BY <1>1, <1>4, <1>5, <2>1 DEF IInv, Shape, IsSeq
<1>7. Unique' /\ Mail'
  <2>1. \A n \in DOMAIN ui : Says(ui[n], check, launch', relogin')
    BY <1>1, <1>4, StillFits DEF IInv, Mail, Fits, SameTasks
  <2> QED BY <1>1, <2>1 DEF IInv, Unique, Same, Mail, Fits
<1>8. Stages'
  <2> SUFFICES ASSUME NEW s \in Sessions PROVE Stage(s)'
    BY DEF Stages
  <2>1. Stage(s)
    BY DEF IInv, Stages
  <2> QED BY <1>1, <1>5, <2>1 DEF Stage
<1> QED BY <1>3, <1>6, <1>7, <1>8 DEF IInv

-----------------------------------------------------------------------------
\* Steps that answer a check

\* The result of check c0 of session s0 is taken off the queue.
Taken(s0, c0) ==
  /\ s0 \in Sessions /\ c0 \in Checks /\ check[s0][c0] = "posted"
  /\ check' = [s \in Sessions |-> check'[s]]
  /\ \A s \in Sessions : check'[s] = [c \in Checks |-> check'[s][c]]
  /\ check'[s0][c0] = "finished"
  /\ \A s \in Sessions, c \in Checks : s # s0 \/ c # c0 => check'[s][c] = check[s][c]
  /\ IsSeq(ui)' /\ Unique'
  /\ \A n \in DOMAIN ui' : Says(ui'[n], check', launch, relogin)
  /\ UNCHANGED <<logins, started, relogged, late>>

LEMMA ResultTaken ==
  ASSUME IInv, onFinish
  PROVE  /\ Taken(Head(ui).s, Head(ui).check)
         /\ Head(ui).outcome = "relogin" => Head(ui).check = "login"
<1> DEFINE m == Head(ui)
           s0 == m.s
           c0 == m.check
<1>1. /\ ui # <<>> /\ m.what = "result" /\ ui' = Tail(ui)
      /\ check' = [check EXCEPT ![s0][c0] = "finished"]
      /\ UNCHANGED <<logins, started, relogged, late>>
  BY DEF onFinish, Message
<1>2. 1 \in DOMAIN ui /\ m = ui[1]
  BY <1>1, TailOf DEF IInv, Shape
<1> HIDE DEF m
<1>3. /\ s0 \in Sessions /\ c0 \in Checks /\ check[s0][c0] = "posted"
      /\ m.outcome = "relogin" => c0 = "login"
  BY <1>1, <1>2 DEF IInv, Mail, Fits, Says
<1>4. /\ check'[s0][c0] = "finished"
      /\ \A s \in Sessions, c \in Checks : s # s0 \/ c # c0 => check'[s][c] = check[s][c]
      /\ check' = [s \in Sessions |-> check'[s]]
      /\ \A s \in Sessions : check'[s] = [c \in Checks |-> check'[s][c]]
  BY <1>1, <1>3 DEF IInv, Shape
<1>5. /\ IsSeq(ui)' /\ Unique'
      /\ \A n \in DOMAIN ui' : \E k \in DOMAIN ui : ui'[n] = ui[k] /\ ~Same(ui[k], m)
  BY <1>1, Popped DEF IInv, Shape, m
<1>6. \A n \in DOMAIN ui' : Says(ui'[n], check', launch, relogin)
  <2> SUFFICES ASSUME NEW n \in DOMAIN ui' PROVE Says(ui'[n], check', launch, relogin)
    OBVIOUS
  <2>1. PICK k \in DOMAIN ui : ui'[n] = ui[k] /\ ~Same(ui[k], m)
    BY <1>5
  <2>2. Says(ui[k], check, launch, relogin)
    BY DEF IInv, Mail, Fits
  <2> QED BY <1>1, <1>4, <2>1, <2>2 DEF Says, Same
<1> QED BY <1>1, <1>3, <1>4, <1>5, <1>6 DEF Taken, m

\* A check whose result is still to come has no field, so no LaunchTask, no
\* game, and if it is the account's, no ReLoginDialog.
LEMMA Unanswered ==
  ASSUME IInv, NEW s0 \in Sessions, NEW c0 \in Checks, check[s0][c0] = "posted"
  PROVE  /\ c0 \notin passed[s0] /\ launch[s0] = <<>> /\ Games(s0) = {}
         /\ dialog[s0] # "none"
         /\ c0 = "login" => relogin[s0] = "none" /\ relogged[s0] = 0
<1>1. Stage(s0) /\ relogged[s0] \in Nat
  BY DEF IInv, Stages, Shape
<1>2. c0 \notin passed[s0] /\ dialog[s0] # "none"
  BY <1>1, NotLogin DEF Stage
<1>3. c0 = "login" => relogin[s0] = "none" /\ relogged[s0] = 0
  BY <1>1 DEF Stage
<1>4. launch[s0] = <<>> /\ Games(s0) = {}
  BY <1>2 DEF IInv, Launches, Exits, Exit
<1> QED BY <1>2, <1>3, <1>4

\* The result is dropped, or asks for the password.
LEMMA AskStep ==
  ASSUME IInv, NEW s0, NEW c0, Taken(s0, c0),
         UNCHANGED <<dialog, cancelled, exited, passed, launch>>,
         \/ UNCHANGED relogin
         \/ c0 = "login" /\ relogin' = [relogin EXCEPT ![s0] = "shown"]
  PROVE  IInv'
<1>1. /\ s0 \in Sessions /\ c0 \in Checks /\ check[s0][c0] = "posted"
      /\ UNCHANGED <<logins, started, relogged, late>>
      /\ check'[s0][c0] = "finished"
      /\ \A s \in Sessions, c \in Checks : s # s0 \/ c # c0 => check'[s][c] = check[s][c]
  BY DEF Taken
<1>2. /\ c0 \notin passed[s0] /\ dialog[s0] # "none"
      /\ c0 = "login" => relogin[s0] = "none" /\ relogged[s0] = 0
  BY <1>1, Unanswered
<1>3. relogin = [s \in Sessions |-> relogin[s]]
  BY DEF IInv, Shape
<1>4. /\ relogin' = [s \in Sessions |-> relogin'[s]]
      /\ \A s \in Sessions : relogin'[s] = relogin[s] \/ (s = s0 /\ c0 = "login" /\ relogin'[s] = "shown")
  BY <1>3
<1>5. Shape'
  <2>1. \A s \in Sessions : \A k \in DOMAIN launch'[s] : Task(launch'[s][k])
    BY DEF IInv, Shape
  <2> QED BY <1>1, <1>4, <2>1 DEF IInv, Shape, IsSeq, Taken
<1>6. Unique' /\ Mail'
  <2>1. \A n \in DOMAIN ui' : Says(ui'[n], check', launch', relogin')
    BY <1>4, StillFits DEF Taken
  <2> QED BY <2>1 DEF Taken, Mail, Fits
<1>7. Stages'
  <2> SUFFICES ASSUME NEW s \in Sessions PROVE Stage(s)'
    BY DEF Stages
  <2>1. Stage(s)
    BY DEF IInv, Stages
  <2>2. CASE s = s0
    BY <1>1, <1>2, <1>4, <2>1, <2>2, NotLogin DEF Stage
  <2>3. CASE s # s0
    BY <1>1, <1>4, <2>1, <2>3, NotLogin DEF Stage
  <2> QED BY <2>2, <2>3
<1>8. Launches' /\ LaunchOnce' /\ Exits' /\ NoLaunchAfterExit'
  BY <1>1 DEF IInv, Launches, LaunchOnce, Exits, Exit, NoLaunchAfterExit, Games
<1> QED BY <1>5, <1>6, <1>7, <1>8 DEF IInv

\* The check passed.
LEMMA PassStep ==
  ASSUME IInv, NEW s0, NEW c0, Taken(s0, c0), c0 \notin cancelled[s0], Passes(s0, c0)
  PROVE  IInv'
<1> DEFINE t == [acct |-> account, state |-> "running", cancelled |-> FALSE]
<1>1. /\ s0 \in Sessions /\ c0 \in Checks /\ check[s0][c0] = "posted"
      /\ UNCHANGED <<logins, started, relogged, late, dialog, cancelled, exited, relogin>>
      /\ check'[s0][c0] = "finished"
      /\ \A s \in Sessions, c \in Checks : s # s0 \/ c # c0 => check'[s][c] = check[s][c]
  BY DEF Taken, Passes
<1>2. /\ c0 \notin passed[s0] /\ dialog[s0] # "none" /\ launch[s0] = <<>> /\ Games(s0) = {}
      /\ c0 = "login" => relogin[s0] = "none" /\ relogged[s0] = 0
  BY <1>1, Unanswered
<1>3. s0 \notin exited
  BY <1>1 DEF IInv, Exits, Exit
<1>4. passed = [s \in Sessions |-> passed[s]] /\ launch = [s \in Sessions |-> launch[s]]
  BY DEF IInv, Shape
<1>5. /\ passed' = [s \in Sessions |-> passed'[s]] /\ passed'[s0] = passed[s0] \cup {c0}
      /\ \A s \in Sessions \ {s0} : passed'[s] = passed[s]
  BY <1>1, <1>4 DEF Passes
<1>6. launch' = IF passed'[s0] = Checks THEN [launch EXCEPT ![s0] = Append(launch[s0], t)] ELSE launch
  BY DEF Passes, checkState
<1>7. /\ launch' = [s \in Sessions |-> launch'[s]]
      /\ \A s \in Sessions \ {s0} : launch'[s] = launch[s]
      /\ \/ launch'[s0] = launch[s0]
         \/ passed'[s0] = Checks /\ launch'[s0] = Append(launch[s0], t)
  BY <1>1, <1>4, <1>6
<1>8. IsSeq(launch'[s0]) /\ Len(launch'[s0]) <= 1 /\ \A k \in DOMAIN launch'[s0] : Task(launch'[s0][k])
  <2>1. IsSeq(launch[s0]) /\ Len(launch[s0]) = 0 /\ DOMAIN launch[s0] = {}
    BY <1>1, <1>2 DEF IInv, Shape
  <2>2. Task(t)
    <3>1. t \in [acct : {account}, state : {"running"}, cancelled : {FALSE}]
      OBVIOUS
    <3> QED BY <3>1 DEF Task
  <2> HIDE DEF t
  <2>3. CASE launch'[s0] = launch[s0]
    BY <2>1, <2>3
  <2>4. CASE launch'[s0] = Append(launch[s0], t)
    BY <2>1, <2>2, <2>4, Appended
  <2> QED BY <1>7, <2>3, <2>4
<1> HIDE DEF t
<1>9. Shape'
  <2>1. \A s \in Sessions : passed'[s] \subseteq Checks /\ IsSeq(launch'[s])
                            /\ \A k \in DOMAIN launch'[s] : Task(launch'[s][k])
    BY <1>1, <1>5, <1>7, <1>8 DEF IInv, Shape
  <2> QED BY <1>1, <1>5, <1>7, <2>1 DEF IInv, Shape, IsSeq, Taken
<1>10. Unique' /\ Mail'
  <2>1. \A s \in Sessions : \A k \in DOMAIN launch[s] :
          k \in DOMAIN launch'[s] /\ launch'[s][k].state = launch[s][k].state
    BY <1>2, <1>7
  <2>2. \A n \in DOMAIN ui' : Says(ui'[n], check', launch', relogin')
    BY <1>1, <2>1, StillFits DEF Taken
  <2> QED BY <2>2 DEF Taken, Mail, Fits
<1>11. Stages'
  <2> SUFFICES ASSUME NEW s \in Sessions PROVE Stage(s)'
    BY DEF Stages
  <2>1. Stage(s)
    BY DEF IInv, Stages
  <2>2. CASE s = s0
    BY <1>1, <1>2, <1>5, <2>1, <2>2, NotLogin DEF Stage
  <2>3. CASE s # s0
    BY <1>1, <1>5, <2>1, <2>3, NotLogin DEF Stage
  <2> QED BY <2>2, <2>3
<1>12. Launches'
  BY <1>1, <1>2, <1>5, <1>7 DEF IInv, Launches
<1>13. LaunchOnce'
  <2>1. relogged[s0] \in Nat
    BY <1>1 DEF IInv, Shape
  <2> QED BY <1>1, <1>7, <1>8, <2>1 DEF IInv, LaunchOnce
<1>14. Exits' /\ NoLaunchAfterExit'
  <2>1. \A s \in Sessions : Games(s)' = Games(s)
    BY <1>1 DEF Games
  <2>2. NoLaunchAfterExit'
    BY <1>1, <2>1 DEF IInv, NoLaunchAfterExit, Games
  <2>3. ASSUME NEW s \in Sessions PROVE Exit(s)'
    <3>1. CASE s = s0
      BY <1>1, <1>2, <1>3, <2>1, <3>1 DEF Exit
    <3>2. CASE s # s0
      BY <1>1, <1>5, <1>7, <2>1, <3>2 DEF IInv, Exits, Exit
    <3> QED BY <3>1, <3>2
  <2> QED BY <2>2, <2>3 DEF Exits
<1> QED BY <1>9, <1>10, <1>11, <1>12, <1>13, <1>14 DEF IInv

\* The check failed, and the session ends.
LEMMA FailStep ==
  ASSUME IInv, NEW s0, NEW c0, Taken(s0, c0), throwException(s0)
  PROVE  IInv'
<1>1. /\ s0 \in Sessions /\ c0 \in Checks /\ check[s0][c0] = "posted" /\ exit(s0)
      /\ UNCHANGED <<logins, started, relogged, late, passed, relogin>>
      /\ check'[s0][c0] = "finished"
      /\ \A s \in Sessions, c \in Checks : s # s0 \/ c # c0 => check'[s][c] = check[s][c]
  BY DEF Taken, throwException
<1>2. /\ c0 \notin passed[s0] /\ dialog[s0] # "none" /\ Games(s0) = {}
      /\ c0 = "login" => relogin[s0] = "none" /\ relogged[s0] = 0
  BY <1>1, Unanswered
<1>3. Launches' /\ LaunchOnce' /\ Exits' /\ NoLaunchAfterExit'
  BY <1>1, <1>2, ExitStep
<1>4. launch' = [s \in Sessions |-> launch'[s]] /\ \A s \in Sessions : SameTasks(s)
  BY <1>1, ExitCancels
<1>5. /\ dialog' = [s \in Sessions |-> dialog'[s]]
      /\ cancelled' = [s \in Sessions |-> cancelled'[s]]
      /\ \A s \in Sessions : dialog'[s] = "none" => dialog[s] = "none"
  BY <1>1 DEF exit, IInv, Shape
<1>6. Shape'
  <2>1. \A s \in Sessions : IsSeq(launch'[s]) /\ \A k \in DOMAIN launch'[s] : Task(launch'[s][k])
    BY <1>4 DEF SameTasks
  <2> QED BY <1>1, <1>4, <1>5, <2>1 DEF IInv, Shape, IsSeq, Taken
<1>7. Unique' /\ Mail'
  <2>1. \A n \in DOMAIN ui' : Says(ui'[n], check', launch', relogin')
    BY <1>1, <1>4, StillFits DEF Taken, SameTasks
  <2> QED BY <2>1 DEF Taken, Mail, Fits
<1>8. Stages'
  <2> SUFFICES ASSUME NEW s \in Sessions PROVE Stage(s)'
    BY DEF Stages
  <2>1. Stage(s)
    BY DEF IInv, Stages
  <2>2. CASE s = s0
    BY <1>1, <1>2, <1>5, <2>1, <2>2, NotLogin DEF Stage
  <2>3. CASE s # s0
    BY <1>1, <1>5, <2>1, <2>3, NotLogin DEF Stage
  <2> QED BY <2>2, <2>3
<1> QED BY <1>3, <1>6, <1>7, <1>8 DEF IInv

LEMMA FinishStep == ASSUME IInv, onFinish PROVE IInv'
<1> DEFINE s0 == Head(ui).s
           c0 == Head(ui).check
<1>1. Taken(s0, c0) /\ (Head(ui).outcome = "relogin" => c0 = "login")
  BY ResultTaken
<1>2. CASE c0 \in cancelled[s0]
  <2>1. UNCHANGED <<dialog, cancelled, exited, passed, launch, relogin>>
    BY <1>2 DEF onFinish
  <2> QED BY <1>1, <2>1, AskStep
<1>3. CASE c0 \notin cancelled[s0]
  <2>1. CASE Passes(s0, c0)
    BY <1>1, <1>3, <2>1, PassStep
  <2>2. CASE throwException(s0)
    BY <1>1, <2>2, FailStep
  <2>3. CASE Head(ui).outcome = "relogin" /\ AskPassword(s0)
    <3>1. /\ UNCHANGED <<dialog, cancelled, exited, passed, launch>>
          /\ \/ UNCHANGED relogin
             \/ relogin' = [relogin EXCEPT ![s0] = "shown"]
      BY <2>3 DEF AskPassword
    <3> QED BY <1>1, <2>3, <3>1, AskStep
  <2> QED BY <1>3, <2>1, <2>2, <2>3 DEF onFinish
<1> QED BY <1>2, <1>3

-----------------------------------------------------------------------------
\* The ReLoginDialog is answered

LEMMA ReloginStep == ASSUME IInv, onRelogin PROVE IInv'
<1> DEFINE m == Head(ui)
           s0 == m.s
           t == [acct |-> m.acct, state |-> "running", cancelled |-> FALSE]
<1>0. /\ ui # <<>> /\ m.what = "onRelogin" /\ ui' = Tail(ui)
      /\ passed' = [passed EXCEPT ![s0] = @ \cup {"login"}]
      /\ launch' = IF passed'[s0] = Checks THEN [launch EXCEPT ![s0] = Append(launch[s0], t)] ELSE launch
      /\ relogin' = [relogin EXCEPT ![s0] = "gone"]
      /\ relogged' = [relogged EXCEPT ![s0] = @ + 1]
      /\ late' = IF s0 \in exited THEN late \cup {s0} ELSE late
      /\ UNCHANGED <<dialog, check, cancelled, logins, started, exited>>
  BY DEF onRelogin, Message, checkState
<1>1. 1 \in DOMAIN ui /\ m = ui[1]
  BY <1>0, TailOf DEF IInv, Shape
<1>2. /\ IsSeq(ui)' /\ Unique'
      /\ \A n \in DOMAIN ui' : \E k \in DOMAIN ui : ui'[n] = ui[k]
  BY <1>0, Popped DEF IInv, Shape
<1> HIDE DEF m
<1>3. s0 \in Sessions /\ relogin[s0] # "none"
  BY <1>0, <1>1 DEF IInv, Mail, Fits, Says
<1>4. /\ passed = [s \in Sessions |-> passed[s]] /\ launch = [s \in Sessions |-> launch[s]]
      /\ relogin = [s \in Sessions |-> relogin[s]] /\ relogged \in [Sessions -> Nat]
      /\ passed[s0] \subseteq Checks /\ IsSeq(launch[s0])
  BY <1>3 DEF IInv, Shape
<1>5. /\ passed' = [s \in Sessions |-> passed'[s]] /\ passed'[s0] = passed[s0] \cup {"login"}
      /\ \A s \in Sessions \ {s0} : passed'[s] = passed[s]
  BY <1>0, <1>3, <1>4
<1>6. /\ relogin' = [s \in Sessions |-> relogin'[s]] /\ relogin'[s0] = "gone"
      /\ \A s \in Sessions \ {s0} : relogin'[s] = relogin[s]
  BY <1>0, <1>3, <1>4
<1>7. /\ relogged' \in [Sessions -> Nat] /\ relogged'[s0] = relogged[s0] + 1
      /\ \A s \in Sessions \ {s0} : relogged'[s] = relogged[s]
  BY <1>0, <1>3, <1>4
<1>8. /\ launch' = [s \in Sessions |-> launch'[s]]
      /\ \A s \in Sessions \ {s0} : launch'[s] = launch[s]
      /\ \/ launch'[s0] = launch[s0]
         \/ passed'[s0] = Checks /\ launch'[s0] = Append(launch[s0], t)
  BY <1>0, <1>3, <1>4
<1>9. /\ IsSeq(launch'[s0]) /\ \A k \in DOMAIN launch'[s0] : Task(launch'[s0][k])
      /\ Len(launch'[s0]) <= Len(launch[s0]) + 1
      /\ \A k \in DOMAIN launch[s0] : k \in DOMAIN launch'[s0] /\ launch'[s0][k] = launch[s0][k]
  <2>1. Task(t)
    <3>1. t \in [acct : {m.acct}, state : {"running"}, cancelled : {FALSE}]
      OBVIOUS
    <3> QED BY <3>1 DEF Task
  <2>2. \A k \in DOMAIN launch[s0] : Task(launch[s0][k])
    BY <1>3 DEF IInv, Shape
  <2> HIDE DEF t
  <2>3. Len(launch[s0]) \in Nat
    BY <1>4, Appended
  <2>4. CASE launch'[s0] = launch[s0]
    BY <1>4, <2>2, <2>3, <2>4
  <2>5. CASE launch'[s0] = Append(launch[s0], t)
    <3> DEFINE q == Append(launch[s0], t)
    <3>1. /\ IsSeq(q) /\ Len(q) = Len(launch[s0]) + 1
          /\ DOMAIN launch[s0] = 1..Len(launch[s0]) /\ DOMAIN q = 1..(Len(launch[s0]) + 1)
          /\ \A k \in DOMAIN launch[s0] : q[k] = launch[s0][k]
          /\ q[Len(launch[s0]) + 1] = t
      BY <1>4, Appended
    <3> HIDE DEF q
    <3>2. \A k \in DOMAIN q : k \in DOMAIN launch[s0] \/ k = Len(launch[s0]) + 1
      BY <2>3, <3>1
    <3>3. \A k \in DOMAIN q : Task(q[k])
      BY <2>1, <2>2, <3>1, <3>2
    <3>4. \A k \in DOMAIN launch[s0] : k \in DOMAIN q
      BY <2>3, <3>1
    <3> QED BY <2>3, <2>5, <3>1, <3>3, <3>4 DEF q
  <2> QED BY <1>8, <2>4, <2>5
<1> HIDE DEF t
<1>10. Shape'
  <2>1. \A s \in Sessions : passed'[s] \subseteq Checks /\ IsSeq(launch'[s])
                            /\ \A k \in DOMAIN launch'[s] : Task(launch'[s][k])
    BY <1>4, <1>5, <1>8, <1>9, NotLogin DEF IInv, Shape
  <2> QED BY <1>0, <1>2, <1>5, <1>6, <1>7, <1>8, <2>1 DEF IInv, Shape, IsSeq
<1>11. Unique' /\ Mail'
  <2>1. \A s \in Sessions : \A k \in DOMAIN launch[s] :
          k \in DOMAIN launch'[s] /\ launch'[s][k].state = launch[s][k].state
    BY <1>8, <1>9
  <2>2. \A n \in DOMAIN ui : Says(ui[n], check', launch', relogin')
    BY <1>0, <1>6, <2>1, StillFits DEF IInv, Mail, Fits
  <2> QED BY <1>2, <2>2 DEF Mail, Fits
<1>12. Stages'
  <2> SUFFICES ASSUME NEW s \in Sessions PROVE Stage(s)'
    BY DEF Stages
  <2>1. Stage(s)
    BY DEF IInv, Stages
  <2>2. CASE s = s0
    BY <1>0, <1>3, <1>4, <1>5, <1>6, <1>7, <2>1, <2>2, NotLogin DEF Stage
  <2>3. CASE s # s0
    BY <1>0, <1>5, <1>6, <1>7, <2>1, <2>3 DEF Stage
  <2> QED BY <2>2, <2>3
<1>13. Launches'
  <2>1. launch'[s0] = launch[s0] => (launch'[s0] # <<>> => passed'[s0] = Checks)
    BY <1>3, <1>5, NotLogin DEF IInv, Launches
  <2> QED BY <1>5, <1>8, <2>1 DEF IInv, Launches
<1>14. LaunchOnce'
  <2>1. relogged[s0] \in Nat /\ Len(launch[s0]) \in Nat /\ Len(launch'[s0]) \in Nat
    BY <1>3, <1>4, <1>9, Appended
  <2>2. relogged[s0] = 0 => launch[s0] = <<>>
    BY <1>3, NotLogin DEF IInv, Stages, Stage, Launches
  <2>3. Len(launch[s0]) <= IF relogged[s0] > 1 THEN relogged[s0] ELSE 1
    BY <1>3 DEF IInv, LaunchOnce
  <2>4. Len(launch'[s0]) <= IF relogged'[s0] > 1 THEN relogged'[s0] ELSE 1
    BY <1>3, <1>7, <1>9, <2>1, <2>2, <2>3
  <2> QED BY <1>7, <1>8, <2>4 DEF IInv, LaunchOnce
<1>15. Exits' /\ NoLaunchAfterExit'
  <2>1. \A s \in Sessions : Games(s)' = Games(s)
    BY <1>0 DEF Games
  <2>2. late \subseteq late' /\ (s0 \in exited => s0 \in late') /\ late' \subseteq late \cup {s0}
    BY <1>0
  <2>3. NoLaunchAfterExit'
    <3> SUFFICES ASSUME NEW s \in exited, Games(s) # {} PROVE s \in late' \/ relogged'[s] > 1
      BY <1>0 DEF NoLaunchAfterExit, Games
    <3>1. s \in late \/ relogged[s] > 1
      BY DEF IInv, NoLaunchAfterExit
    <3>2. CASE s = s0
      BY <2>2, <3>2
    <3>3. CASE s # s0
      BY <1>0, <2>2, <3>1, <3>3
    <3> QED BY <3>2, <3>3
  <2>4. ASSUME NEW s \in Sessions PROVE Exit(s)'
    <3>1. Exit(s)
      BY DEF IInv, Exits
    <3>2. CASE s = s0
      BY <1>0, <1>5, <2>1, <2>2, <3>1, <3>2, NotLogin DEF Exit
    <3>3. CASE s # s0
      BY <1>0, <1>5, <1>7, <1>8, <2>1, <2>2, <3>1, <3>3 DEF Exit
    <3> QED BY <3>2, <3>3
  <2> QED BY <2>3, <2>4 DEF Exits
<1> QED BY <1>2, <1>10, <1>11, <1>12, <1>13, <1>14, <1>15 DEF IInv

-----------------------------------------------------------------------------
\* LaunchTasks run and end

LEMMA LaunchStep ==
  ASSUME IInv, NEW s0 \in Sessions, NEW k0, LaunchTask(s0, k0)
  PROVE  IInv'
<1>1. /\ k0 \in DOMAIN launch[s0] /\ launch[s0][k0].state = "running"
      /\ launch' = [launch EXCEPT ![s0][k0].state = "posted"]
      /\ Post(Launched(s0, k0))
      /\ UNCHANGED <<dialog, check, passed, cancelled, relogin, relogged, logins, started, exited, late>>
  BY DEF LaunchTask, checkVars, loginVars, history
<1>2. /\ launch' = [s \in Sessions |-> launch'[s]]
      /\ \A s \in Sessions \ {s0} : launch'[s] = launch[s]
      /\ IsSeq(launch'[s0]) /\ Len(launch'[s0]) = Len(launch[s0])
      /\ DOMAIN launch'[s0] = DOMAIN launch[s0] /\ launch[s0] # <<>>
      /\ launch'[s0][k0].state = "posted" /\ launch'[s0][k0].cancelled = launch[s0][k0].cancelled
      /\ Task(launch'[s0][k0])
      /\ \A k \in DOMAIN launch[s0] : k # k0 => launch'[s0][k] = launch[s0][k]
  <2>1. TaskMovesTo(s0, k0, "posted")
    BY <1>1, TaskMoves
  <2> QED BY <2>1 DEF TaskMovesTo
<1> DEFINE x == Launched(s0, k0)
<1>3. x.what = "launched" /\ x.s = s0 /\ x.task = k0
  BY DEF Launched
<1> HIDE DEF x
<1>4. \A n \in DOMAIN ui : Says(ui[n], check, launch, relogin) /\ ~Same(ui[n], x)
  BY <1>1, <1>3 DEF IInv, Mail, Fits, Says, Same
<1>5. /\ IsSeq(ui)' /\ Unique'
      /\ \A n \in DOMAIN ui' : ui'[n] = x \/ \E k \in DOMAIN ui : ui'[n] = ui[k]
  BY <1>1, <1>4, Posted DEF IInv, Shape, x
<1>6. Mail'
  <2>1. Says(x, check', launch', relogin')
    BY <1>1, <1>2, <1>3 DEF Says
  <2>2. \A n \in DOMAIN ui : Says(ui[n], check', launch', relogin')
    BY <1>1, <1>2, <1>4 DEF Says
  <2> QED BY <1>5, <2>1, <2>2 DEF Mail, Fits
<1>7. Shape'
  <2>1. \A s \in Sessions : IsSeq(launch'[s]) /\ \A k \in DOMAIN launch'[s] : Task(launch'[s][k])
    BY <1>2 DEF IInv, Shape
  <2> QED BY <1>1, <1>2, <1>5, <2>1 DEF IInv, Shape, IsSeq
<1>8. Stages'
  BY <1>1 DEF IInv, Stages, Stage
<1>9. Launches' /\ LaunchOnce' /\ NoLaunchAfterExit'
  BY <1>1, <1>2 DEF IInv, Launches, LaunchOnce, NoLaunchAfterExit, Games
<1>10. Exits'
  <2> SUFFICES ASSUME NEW s \in Sessions PROVE Exit(s)'
    BY DEF Exits
  <2>1. Exit(s) /\ Games(s)' = Games(s)
    BY <1>1 DEF IInv, Exits, Games
  <2>2. CASE s = s0
    BY <1>1, <1>2, <2>1, <2>2 DEF Exit
  <2>3. CASE s # s0
    BY <1>1, <1>2, <2>1, <2>3 DEF Exit
  <2> QED BY <2>2, <2>3
<1> QED BY <1>5, <1>6, <1>7, <1>8, <1>9, <1>10 DEF IInv

LEMMA GameStep == ASSUME IInv, startGame PROVE IInv'
<1> DEFINE m == Head(ui)
<1>a. PICK s0, k0 : s0 = m.s /\ k0 = m.task
  OBVIOUS
<1> DEFINE t == launch[s0][k0]
           g == [session |-> s0, acct |-> t.acct]
<1>0. /\ ui # <<>> /\ m.what = "launched" /\ ui' = Tail(ui)
      /\ launch' = [launch EXCEPT ![s0][k0].state = "finished"]
      /\ UNCHANGED <<check, passed, cancelled, relogin, relogged, logins, exited, late>>
      /\ \/ t.cancelled /\ UNCHANGED <<dialog, started>>
         \/ /\ ~t.cancelled /\ dialog' = [dialog EXCEPT ![s0] = "gone"]
            /\ started' = Append(started, g)
  BY <1>a DEF startGame, Message, checkVars, loginVars, history
<1>1. 1 \in DOMAIN ui /\ m = ui[1]
  BY <1>0, TailOf DEF IInv, Shape
<1>2. /\ IsSeq(ui)' /\ Unique'
      /\ \A n \in DOMAIN ui' : \E k \in DOMAIN ui : ui'[n] = ui[k] /\ ~Same(ui[k], m)
  BY <1>0, Popped DEF IInv, Shape
<1> HIDE DEF m
<1>3. s0 \in Sessions /\ k0 \in DOMAIN launch[s0] /\ t.state = "posted"
  BY <1>a, <1>0, <1>1 DEF IInv, Mail, Fits, Says
<1>4. /\ launch' = [s \in Sessions |-> launch'[s]]
      /\ \A s \in Sessions \ {s0} : launch'[s] = launch[s]
      /\ IsSeq(launch'[s0]) /\ Len(launch'[s0]) = Len(launch[s0])
      /\ DOMAIN launch'[s0] = DOMAIN launch[s0] /\ launch[s0] # <<>>
      /\ launch'[s0][k0].state = "finished" /\ launch'[s0][k0].cancelled = t.cancelled
      /\ Task(launch'[s0][k0])
      /\ \A k \in DOMAIN launch[s0] : k # k0 => launch'[s0][k] = launch[s0][k]
  <2>1. launch' = [launch EXCEPT ![s0][k0].state = "finished"]
    BY <1>0
  <2> HIDE DEF g
  <2>2. TaskMovesTo(s0, k0, "finished")
    BY <1>3, <2>1, TaskMoves
  <2> QED BY <2>2 DEF TaskMovesTo
<1> HIDE DEF t
<1>5. /\ dialog' = [s \in Sessions |-> dialog'[s]]
      /\ \A s \in Sessions \ {s0} : dialog'[s] = dialog[s]
      /\ dialog'[s0] # dialog[s0] => dialog'[s0] = "gone"
  BY <1>0, <1>3 DEF IInv, Shape
<1>6. /\ IsSeq(started)'
      /\ \A s : s # s0 => Games(s)' = Games(s)
      /\ t.cancelled => Games(s0)' = Games(s0)
  <2>1. CASE UNCHANGED started
    <3>1. IsSeq(started) /\ started' = started
      BY <2>1 DEF IInv, Shape
    <3>2. \A s : Games(s)' = Games(s)
      BY <3>1 DEF Games
    <3> QED BY <3>1, <3>2 DEF IsSeq
  <2>2. CASE started' = Append(started, g) /\ ~t.cancelled
    <3>1. /\ IsSeq(started') /\ Len(started) \in Nat /\ DOMAIN started = 1..Len(started)
          /\ DOMAIN started' = 1..(Len(started) + 1)
          /\ \A n \in DOMAIN started : started'[n] = started[n]
          /\ started'[Len(started) + 1] = g
      BY <2>2, Appended DEF IInv, Shape
    <3>2. g.session = s0
      OBVIOUS
    <3> HIDE DEF g
    <3>3. ASSUME NEW s, s # s0 PROVE Games(s)' = Games(s)
      <4>1. \A k \in DOMAIN started' : k \in DOMAIN started \/ k = Len(started) + 1
        BY <3>1
      <4>2. DOMAIN started \subseteq DOMAIN started'
        BY <3>1
      <4>3. \A k \in DOMAIN started' : started'[k].session = s => k \in DOMAIN started
        BY <3>1, <3>2, <3>3, <4>1
      <4> QED BY <3>1, <4>2, <4>3 DEF Games
    <3> QED BY <2>2, <3>1, <3>3
  <2> QED BY <1>0, <2>1, <2>2
<1>7. Mail'
  <2> SUFFICES ASSUME NEW n \in DOMAIN ui' PROVE Says(ui'[n], check', launch', relogin')
    BY DEF Mail, Fits
  <2>1. PICK k \in DOMAIN ui : ui'[n] = ui[k] /\ ~Same(ui[k], m)
    BY <1>2
  <2>2. Says(ui[k], check, launch, relogin)
    BY DEF IInv, Mail, Fits
  <2>3. ui[k].what = "launched" => ui[k].s # s0 \/ ui[k].task # k0
    BY <1>a, <1>0, <2>1 DEF Same
  <2>4. ASSUME ui[k].what = "launched"
        PROVE  /\ ui[k].task \in DOMAIN launch'[ui[k].s]
               /\ launch'[ui[k].s][ui[k].task].state = "posted"
    <3>1. /\ ui[k].s \in Sessions /\ ui[k].task \in DOMAIN launch[ui[k].s]
          /\ launch[ui[k].s][ui[k].task].state = "posted"
      BY <2>2, <2>4 DEF Says
    <3> QED BY <1>4, <2>3, <2>4, <3>1
  <2>5. UNCHANGED <<check, relogin>>
    BY <1>0
  <2> QED BY <2>1, <2>2, <2>4, <2>5 DEF Says
<1>8. Shape'
  <2>1. \A s \in Sessions : IsSeq(launch'[s]) /\ \A k \in DOMAIN launch'[s] : Task(launch'[s][k])
    BY <1>4 DEF IInv, Shape
  <2> QED BY <1>0, <1>2, <1>4, <1>5, <1>6, <2>1 DEF IInv, Shape, IsSeq
<1>9. Stages'
  <2> SUFFICES ASSUME NEW s \in Sessions PROVE Stage(s)'
    BY DEF Stages
  <2>1. Stage(s)
    BY DEF IInv, Stages
  <2>2. dialog'[s] = "none" => dialog[s] = "none"
    BY <1>5
  <2> QED BY <1>0, <2>1, <2>2 DEF Stage
<1>10. Launches' /\ LaunchOnce'
  BY <1>0, <1>3, <1>4 DEF IInv, Launches, LaunchOnce
<1>11. s0 \in exited /\ s0 \notin late /\ relogged[s0] <= 1 => t.cancelled
  BY <1>3 DEF IInv, Exits, Exit, t
<1>12. NoLaunchAfterExit'
  <2> SUFFICES ASSUME NEW s \in exited, Games(s)' # {} PROVE s \in late \/ relogged[s] > 1
    BY <1>0 DEF NoLaunchAfterExit
  <2>1. CASE s = s0 /\ t.cancelled
    BY <1>6, <2>1 DEF IInv, NoLaunchAfterExit
  <2>2. CASE s = s0 /\ ~t.cancelled
    <3>1. relogged[s0] \in Nat
      BY <1>3 DEF IInv, Shape
    <3> QED BY <1>11, <2>2, <3>1
  <2>3. CASE s # s0
    BY <1>6, <2>3 DEF IInv, NoLaunchAfterExit
  <2> QED BY <2>1, <2>2, <2>3
<1>13. Exits'
  <2> SUFFICES ASSUME NEW s \in Sessions PROVE Exit(s)'
    BY DEF Exits
  <2>1. Exit(s)
    BY DEF IInv, Exits
  <2>2. CASE s = s0
    <3>1. passed[s0] = Checks
      BY <1>3, <1>4 DEF IInv, Launches
    <3>2. dialog'[s0] = "gone" \/ (dialog'[s0] = dialog[s0] /\ Games(s0)' = Games(s0))
      BY <1>0, <1>3, <1>6 DEF IInv, Shape
    <3>3. \A k \in DOMAIN launch'[s0] :
            launch[s0][k].state = "finished" \/ launch[s0][k].cancelled
              => launch'[s0][k].state = "finished" \/ launch'[s0][k].cancelled
      BY <1>4
    <3>4. dialog[s0] # "none" => dialog'[s0] # "none"
      BY <1>5
    <3>5. Games(s0)' # {} => dialog'[s0] = "gone" /\ passed'[s0] = Checks
      BY <1>0, <2>1, <2>2, <3>1, <3>2 DEF Exit
    <3>6. s0 \in exited' => dialog'[s0] # "none"
                            /\ \A c \in Checks \ cancelled'[s0] : check'[s0][c] = "finished"
      BY <1>0, <2>1, <2>2, <3>4 DEF Exit
    <3>7. s0 \in exited' /\ s0 \notin late' /\ relogged'[s0] <= 1 =>
            \A k \in DOMAIN launch'[s0] : launch'[s0][k].state = "finished" \/ launch'[s0][k].cancelled
      BY <1>0, <1>4, <2>1, <2>2, <3>3 DEF Exit
    <3> QED BY <2>2, <3>5, <3>6, <3>7 DEF Exit
  <2>3. CASE s # s0
    BY <1>0, <1>4, <1>5, <1>6, <2>1, <2>3 DEF Exit
  <2> QED BY <2>2, <2>3
<1> QED BY <1>2, <1>7, <1>8, <1>9, <1>10, <1>12, <1>13 DEF IInv

-----------------------------------------------------------------------------
\* Every step is one of the above

LEMMA Initially == Init => IInv
<1> SUFFICES ASSUME Init PROVE IInv
  OBVIOUS
<1> USE DEF Init
<1>1. <<>> \in Seq({}) /\ DOMAIN <<>> = {} /\ Len(<<>>) = 0
  OBVIOUS
<1>2. Shape
  BY <1>1 DEF Shape, IsSeq
<1>3. Unique /\ Mail
  BY <1>1 DEF Unique, Mail
<1>4. Stages
  BY DEF Stages, Stage
<1>5. Launches /\ LaunchOnce
  BY <1>1 DEF Launches, LaunchOnce
<1>6. \A s \in Sessions : Games(s) = {}
  BY <1>1 DEF Games
<1>7. Exits /\ NoLaunchAfterExit
  BY <1>6 DEF Exits, Exit, NoLaunchAfterExit
<1> QED BY <1>2, <1>3, <1>4, <1>5, <1>7 DEF IInv

\* What the user, the login threads and the two small handlers do.
LEMMA CalmSteps ==
  ASSUME IInv,
         \/ UNCHANGED vars
         \/ \E i \in Accounts : SelectAccount(i)
         \/ saveAccount \/ setButtons
         \/ \E s \in Sessions : ReloginClick(s)
         \/ \E s \in Sessions, k \in 1..MaxLogins : ReloginThread(s, k)
  PROVE  Calm
<1> USE DEF sessionVars, checkVars, loginVars, history
<1>1. /\ logins = [s \in Sessions |-> logins[s]]
      /\ \A s \in Sessions : IsSeq(logins[s]) /\ (logins[s] # <<>> => relogin[s] # "none")
  BY DEF IInv, Shape, Stages, Stage
<1>2. CASE UNCHANGED vars
  BY <1>1, <1>2 DEF vars, Calm
<1>3. CASE \E i \in Accounts : SelectAccount(i)
  BY <1>1, <1>3 DEF SelectAccount, Calm
<1>4. CASE saveAccount
  BY <1>1, <1>4 DEF saveAccount, Message, Calm
<1>5. CASE setButtons
  BY <1>1, <1>5 DEF setButtons, Message, Calm
<1>6. CASE \E s \in Sessions : ReloginClick(s)
  <2>1. PICK s0 \in Sessions : ReloginClick(s0)
    BY <1>6
  <2> DEFINE q == Append(logins[s0], "new")
  <2>2. /\ relogin[s0] = "shown" /\ logins' = [logins EXCEPT ![s0] = q]
        /\ UNCHANGED <<ui, sessionVars, check>>
    BY <2>1 DEF ReloginClick
  <2>3. IsSeq(q)
    BY <1>1, Appended
  <2> HIDE DEF q
  <2>4. logins'[s0] = q /\ (\A s \in Sessions : s # s0 => logins'[s] = logins[s])
        /\ logins' = [s \in Sessions |-> logins'[s]]
    BY <1>1, <2>2
  <2>5. \A s \in Sessions : IsSeq(logins'[s]) /\ (logins'[s] # <<>> => relogin[s] # "none")
    BY <1>1, <2>2, <2>3, <2>4
  <2> QED BY <2>2, <2>4, <2>5 DEF Calm
<1>7. ASSUME NEW s0 \in Sessions, NEW k \in 1..MaxLogins, ReloginThread(s0, k)
      PROVE  Calm
  <2>1. PICK to : /\ k \in DOMAIN logins[s0]
                  /\ logins' = [logins EXCEPT ![s0][k] = to]
    BY <1>7 DEF ReloginThread, LoginBegins, LoginAuthenticates, LoginRefused, LoginPosts,
                LoginDrops, LoginEnds, LoginMoves
  <2> DEFINE q == [logins[s0] EXCEPT ![k] = to]
  <2>2. IsSeq(q)
    BY <1>1, <2>1, Updated
  <2>3. logins[s0] # <<>>
    BY <1>1, <2>1, EmptySeq, LenProperties DEF IsSeq
  <2>4. logins' = [logins EXCEPT ![s0] = q]
    BY <2>1
  <2> HIDE DEF q
  <2>5. logins'[s0] = q /\ (\A s \in Sessions : s # s0 => logins'[s] = logins[s])
        /\ logins' = [s \in Sessions |-> logins'[s]]
    BY <1>1, <2>4
  <2>6. \A s \in Sessions : IsSeq(logins'[s]) /\ (logins'[s] # <<>> => relogin[s] # "none")
    BY <1>1, <2>2, <2>3, <2>5
  <2>7. UNCHANGED <<sessionVars, check>>
    BY <1>7 DEF ReloginThread, LoginBegins, LoginAuthenticates, LoginRefused, LoginPosts,
                LoginDrops, LoginEnds
  <2>8. UNCHANGED ui \/ \E x : Post(x) /\ x.what \in {"save", "buttons", "onRelogin"} /\ Fits(x)
    <3>1. ASSUME NEW b, Post(Buttons(s0, b)) PROVE <2>8!2
      <4>1. Buttons(s0, b).what = "buttons" /\ Buttons(s0, b).s = s0
        BY DEF Buttons
      <4> QED BY <3>1, <4>1 DEF Fits, Says
    <3>2. ASSUME NEW a, Post(OnRelogin(s0, a)) PROVE <2>8!2
      <4>1. OnRelogin(s0, a).what = "onRelogin" /\ OnRelogin(s0, a).s = s0
        BY DEF OnRelogin
      <4> QED BY <1>1, <2>3, <3>2, <4>1 DEF Fits, Says
    <3> QED BY <1>7, <3>1, <3>2 DEF ReloginThread, LoginBegins, LoginAuthenticates, LoginRefused, LoginPosts,
                                    LoginDrops, LoginEnds
  <2> QED BY <2>5, <2>6, <2>7, <2>8 DEF Calm
<1> QED BY <1>2, <1>3, <1>4, <1>5, <1>6, <1>7

\* What the threads of the checks do.
LEMMA WorkSteps ==
  ASSUME IInv, NEW s \in Sessions,
         \/ \E c \in FileChecks : CheckEnds(s, c)
         \/ CheckAccount(s) \/ PostSave(s) \/ DropToken(s) \/ CheckAccountReturns(s)
  PROVE  \E c \in Checks : \E to : Works(s, c, to)
<1> USE DEF sessionVars, checkVars, loginVars, history
<1>0. ASSUME NEW c \in Checks, NEW e, Returns(s, c, e), e = "relogin" => c = "login",
             check[s][c] \in {"running", "refreshed", "saved"},
             UNCHANGED <<sessionVars, logins>>
      PROVE  \E to : Works(s, c, to)
  BY <1>0 DEF Returns, Works
<1>1. CASE \E c \in FileChecks : CheckEnds(s, c)
  <2>1. PICK c \in FileChecks, e \in {"ok", "error"} :
          /\ check[s][c] = "running" /\ Returns(s, c, e)
          /\ UNCHANGED <<sessionVars, logins>>
    BY <1>1 DEF CheckEnds
  <2> QED BY <1>0, <2>1, NotLogin
<1>2. CASE CheckAccount(s)
  <2>1. check[s]["login"] = "running" /\ UNCHANGED <<sessionVars, logins>>
    BY <1>2 DEF CheckAccount
  <2>2. CASE \E e : Returns(s, "login", e)
    BY <1>0, <2>1, <2>2, NotLogin
  <2>3. CASE TokenRefreshed(s)
    <3>1. Works(s, "login", "refreshed")
      BY <2>1, <2>3 DEF TokenRefreshed, Works
    <3> QED BY <3>1, NotLogin
  <2> QED BY <1>2, <2>2, <2>3 DEF CheckAccount, OfflineAccount, LoginFails
<1>3. CASE PostSave(s)
  <2>1. Works(s, "login", "saved")
    BY <1>3 DEF PostSave, Works
  <2> QED BY <2>1, NotLogin
<1>4. CASE DropToken(s)
  <2>1. PICK e : Returns(s, "login", e)
    BY <1>4 DEF DropToken
  <2>2. check[s]["login"] = "refreshed" /\ UNCHANGED <<sessionVars, logins>>
    BY <1>4 DEF DropToken
  <2> QED BY <1>0, <2>1, <2>2, NotLogin
<1>5. CASE CheckAccountReturns(s)
  <2>1. /\ Returns(s, "login", "ok") /\ check[s]["login"] = "saved"
        /\ UNCHANGED <<sessionVars, logins>>
    BY <1>5 DEF CheckAccountReturns
  <2> QED BY <1>0, <2>1, NotLogin
<1> QED BY <1>1, <1>2, <1>3, <1>4, <1>5

LEMMA Inductive == IInv /\ [Next]_vars => IInv'
<1> SUFFICES ASSUME IInv, [Next]_vars PROVE IInv'
  OBVIOUS
<1>1. CASE UNCHANGED vars
  BY <1>1, CalmSteps, CalmStep
<1>2. CASE UIThread
  <2>1. CASE onFinish
    BY <2>1, FinishStep
  <2>2. CASE saveAccount \/ setButtons
    BY <2>2, CalmSteps, CalmStep
  <2>3. CASE onRelogin
    BY <2>3, ReloginStep
  <2>4. CASE startGame
    BY <2>4, GameStep
  <2> QED BY <1>2, <2>1, <2>2, <2>3, <2>4 DEF UIThread
<1>3. CASE User
  <2>1. CASE \E i \in Accounts : SelectAccount(i)
    BY <2>1, CalmSteps, CalmStep
  <2>2. CASE \E s \in Sessions : startCheckTasks(s)
    BY <2>2, StartStep
  <2>3. CASE \E s \in Sessions : CancelClick(s) \/ ReloginCancelClick(s)
    BY <2>3, ClickStep
  <2>4. CASE \E s \in Sessions : ReloginClick(s)
    BY <2>4, CalmSteps, CalmStep
  <2> QED BY <1>3, <2>1, <2>2, <2>3, <2>4 DEF User
<1>4. ASSUME NEW s \in Sessions, Background(s) PROVE IInv'
  <2>1. CASE \/ \E c \in FileChecks : CheckEnds(s, c)
             \/ CheckAccount(s) \/ PostSave(s) \/ DropToken(s) \/ CheckAccountReturns(s)
    BY <2>1, WorkSteps, WorkStep
  <2>2. CASE \E k \in 1..MaxLogins : ReloginThread(s, k)
    BY <2>2, CalmSteps, CalmStep
  <2>3. CASE \E k \in 1..(MaxLogins + 1) : LaunchTask(s, k)
    BY <2>3, LaunchStep
  <2> QED BY <1>4, <2>1, <2>2, <2>3 DEF Background
<1> QED BY <1>1, <1>2, <1>3, <1>4 DEF Next

\* The three checks may end in any order and the user may answer the
\* ReLoginDialog at any time, yet checkState() makes one LaunchTask of a
\* session, and one more only for each further log-in.
THEOREM OneLaunch == Spec => []LaunchOnce
<1>1. IInv => LaunchOnce
  BY DEF IInv
<1> QED BY <1>1, Initially, Inductive, PTL DEF Spec

\* exit() leaves tasks, messages and a ReLoginDialog behind, but none of them
\* starts a game unless the user answers that ReLoginDialog, or did so twice.
THEOREM ExitsAreFinal == Spec => []NoLaunchAfterExit
<1>1. IInv => NoLaunchAfterExit
  BY DEF IInv
<1> QED BY <1>1, Initially, Inductive, PTL DEF Spec
-----------------------------------------------------------------------------
\* The account a game starts with

Excused(s) == s \in late \/ relogged[s] > 1

Due(s, k) == \/ launch[s][k].state = "finished" \/ launch[s][k].cancelled
             \/ launch[s][k].acct.id = selected

\* Unless a session was overtaken, the account is the one selected last, and so
\* is that of every LaunchTask that can still start a game: another account is
\* only selected when no dialog is shown, so every session has then ended.
Ended == \A s \in Sessions :
  /\ dialog[s] \in {"none", "shown", "gone"}
  /\ dialog[s] = "gone" => s \in exited \/ Games(s) # {}

Chosen == ~stale => /\ account.id = selected
                    /\ \A s \in Sessions : Excused(s) \/ \A k \in DOMAIN launch[s] : Due(s, k)

Played == \A k \in DOMAIN started : started[k].session \in Sessions

CInv == Ended /\ Chosen /\ Played /\ SelectedLaunched

\* What no step but selecting an account and starting a game goes beyond.
Keeps ==
  /\ UNCHANGED <<selected, started>>
  /\ stale => stale'
  /\ ~stale' => account'.id = account.id \/ account'.id = selected
  /\ \A s \in Sessions : /\ dialog'[s] # dialog[s] => \/ dialog'[s] = "shown"
                                                      \/ dialog'[s] = "gone" /\ s \in exited'
                         /\ s \in exited => s \in exited'
                         /\ Excused(s) => Excused(s)'
  /\ ~stale' => \A s \in Sessions : \A k \in DOMAIN launch'[s] :
       \/ k \in DOMAIN launch[s] /\ (Due(s, k) => Due(s, k)')
       \/ launch'[s][k].acct.id \in {account.id, selected}

LEMMA KeepsChosen == ASSUME CInv, Keeps PROVE CInv'
<1>1. /\ UNCHANGED <<selected, started>> /\ (stale => stale')
      /\ \A s \in Sessions : Excused(s) => Excused(s)'
  BY DEF Keeps
<1>2. Ended'
  <2>1. \A s : Games(s)' = Games(s)
    BY <1>1 DEF Games
  <2> QED BY <2>1 DEF CInv, Ended, Keeps
<1>3. Chosen'
  <2> SUFFICES ASSUME ~stale'
               PROVE  /\ account'.id = selected'
                      /\ \A s \in Sessions : Excused(s)' \/ \A k \in DOMAIN launch'[s] : Due(s, k)'
    BY DEF Chosen
  <2>1. /\ account.id = selected
        /\ \A s \in Sessions : Excused(s) \/ \A k \in DOMAIN launch[s] : Due(s, k)
    BY <1>1 DEF CInv, Chosen
  <2>2. account'.id = selected'
    BY <1>1, <2>1 DEF Keeps
  <2>3. ASSUME NEW s \in Sessions, ~Excused(s), NEW k \in DOMAIN launch'[s] PROVE Due(s, k)'
    <3>1. \/ k \in DOMAIN launch[s] /\ (Due(s, k) => Due(s, k)')
          \/ launch'[s][k].acct.id \in {account.id, selected}
      BY DEF Keeps
    <3>2. launch'[s][k].acct.id = selected' => Due(s, k)'
      BY DEF Due
    <3> QED BY <1>1, <2>1, <2>3, <3>1, <3>2
  <2> QED BY <1>1, <2>2, <2>3
<1>4. Played'
  BY <1>1 DEF CInv, Played
<1>5. SelectedLaunched'
  BY <1>1 DEF CInv, Played, SelectedLaunched, Excused
<1> QED BY <1>2, <1>3, <1>4, <1>5 DEF CInv

\* A step that leaves the dialogs, the LaunchTasks and the accounts alone.
LEMMA StillKeeps ==
  ASSUME UNCHANGED <<selected, started, stale, account, dialog, exited, late, relogged, launch>>
  PROVE  Keeps
BY DEF Keeps, Excused, Due

LEMMA SelectKeeps == ASSUME IInv, CInv, NEW i \in Accounts, SelectAccount(i) PROVE CInv'
<1>1. /\ \A s \in Sessions : dialog[s] # "shown"
      /\ started = <<>> /\ account'.id = selected'
      /\ UNCHANGED <<started, stale, dialog, exited, late, relogged, launch>>
  BY DEF SelectAccount, MainScreen, checkVars
<1>2. DOMAIN started = {}
  BY <1>1
<1>3. \A s : Games(s) = {} /\ Games(s)' = {}
  BY <1>1, <1>2 DEF Games
<1>4. Ended'
  BY <1>1, <1>3 DEF CInv, Ended
<1>5. ASSUME NEW s \in Sessions PROVE Excused(s)' \/ \A k \in DOMAIN launch'[s] : Due(s, k)'
  <2>1. CASE launch[s] = <<>>
    BY <1>1, <2>1
  <2>2. CASE launch[s] # <<>>
    <3>1. passed[s] = Checks /\ Stage(s) /\ Exit(s) /\ relogged[s] \in Nat
      BY <2>2 DEF IInv, Launches, Stages, Exits, Shape
    <3>2. dialog[s] = "gone"
      BY <1>1, <3>1, NotLogin DEF Stage, CInv, Ended
    <3>3. s \in exited
      BY <1>3, <3>2 DEF CInv, Ended
    <3>4. s \in late \/ relogged[s] > 1
            \/ \A k \in DOMAIN launch[s] : launch[s][k].state = "finished" \/ launch[s][k].cancelled
      BY <3>1, <3>3 DEF Exit
    <3> QED BY <1>1, <3>4 DEF Excused, Due
  <2> QED BY <2>1, <2>2
<1>6. Chosen'
  BY <1>1, <1>5 DEF Chosen
<1>7. Played' /\ SelectedLaunched'
  BY <1>1, <1>2 DEF Played, SelectedLaunched
<1> QED BY <1>4, <1>6, <1>7 DEF CInv

\* Leaving the session only ends it and cancels LaunchTasks.
LEMMA ExitKeeps ==
  ASSUME IInv, NEW s0 \in Sessions, exit(s0),
         UNCHANGED <<selected, started, stale, account, late, relogged>>
  PROVE  Keeps
<1>1. \A s \in Sessions : SameTasks(s)
  BY ExitCancels
<1>2. \A s \in Sessions : \A k \in DOMAIN launch'[s] :
        k \in DOMAIN launch[s] /\ (Due(s, k) => Due(s, k)')
  BY <1>1 DEF SameTasks, Due
<1>3. /\ dialog' = [dialog EXCEPT ![s0] = "gone"] /\ exited' = exited \cup {s0}
      /\ dialog = [s \in Sessions |-> dialog[s]]
  BY DEF exit, IInv, Shape
<1>4. \A s \in Sessions : dialog'[s] # dialog[s] => s = s0 /\ dialog'[s] = "gone"
  BY <1>3
<1> QED BY <1>2, <1>3, <1>4 DEF Keeps, Excused

\* One LaunchTask more, or none.
Launch(s0, a) ==
  \/ UNCHANGED launch
  \/ launch' = [launch EXCEPT ![s0] =
       Append(@, [acct |-> a, state |-> "running", cancelled |-> FALSE])]

LEMMA LaunchAdds ==
  ASSUME IInv, NEW s0 \in Sessions, NEW a, Launch(s0, a)
  PROVE  \A s \in Sessions : \A k \in DOMAIN launch'[s] :
           \/ k \in DOMAIN launch[s] /\ launch'[s][k] = launch[s][k]
           \/ s = s0 /\ launch'[s][k].acct = a
<1> DEFINE t == [acct |-> a, state |-> "running", cancelled |-> FALSE]
<1>1. CASE UNCHANGED launch
  BY <1>1
<1>2. CASE launch' = [launch EXCEPT ![s0] = Append(launch[s0], t)]
  <2>1. t.acct = a
    OBVIOUS
  <2> HIDE DEF t
  <2>2. /\ Len(launch[s0]) \in Nat /\ DOMAIN launch[s0] = 1..Len(launch[s0])
        /\ DOMAIN Append(launch[s0], t) = 1..(Len(launch[s0]) + 1)
        /\ \A n \in DOMAIN launch[s0] : Append(launch[s0], t)[n] = launch[s0][n]
        /\ Append(launch[s0], t)[Len(launch[s0]) + 1] = t
    BY Appended DEF IInv, Shape
  <2>3. /\ launch'[s0] = Append(launch[s0], t)
        /\ \A s \in Sessions \ {s0} : launch'[s] = launch[s]
    BY <1>2 DEF IInv, Shape
  <2>4. ASSUME NEW k \in DOMAIN launch'[s0]
        PROVE  \/ k \in DOMAIN launch[s0] /\ launch'[s0][k] = launch[s0][k]
               \/ launch'[s0][k].acct = a
    <3>1. k \in DOMAIN launch[s0] \/ k = Len(launch[s0]) + 1
      BY <2>2, <2>3
    <3> QED BY <2>1, <2>2, <2>3, <3>1
  <2> QED BY <2>3, <2>4
<1> QED BY <1>1, <1>2 DEF Launch

LEMMA LaunchKeeps ==
  ASSUME IInv, NEW s0 \in Sessions, NEW a, Launch(s0, a), UNCHANGED selected
  PROVE  \A s \in Sessions : \A k \in DOMAIN launch'[s] :
           \/ k \in DOMAIN launch[s] /\ (Due(s, k) => Due(s, k)')
           \/ launch'[s][k].acct = a
BY LaunchAdds DEF Due

LEMMA FinishKeeps == ASSUME IInv, onFinish PROVE Keeps
<1>1. PICK s0, c0 : s0 = Head(ui).s /\ c0 = Head(ui).check
  OBVIOUS
<1>2. s0 \in Sessions
  BY <1>1, ResultTaken DEF Taken
<1>3. UNCHANGED <<selected, started, stale, account, late, relogged>>
  BY DEF onFinish
<1>4. CASE UNCHANGED <<dialog, exited, launch>>
  BY <1>3, <1>4, StillKeeps
<1>5. CASE Passes(s0, c0)
  <2>1. Launch(s0, account) /\ UNCHANGED <<dialog, exited>>
    BY <1>5 DEF Passes, checkState, Launch
  <2>2. \A s \in Sessions : \A k \in DOMAIN launch'[s] :
          \/ k \in DOMAIN launch[s] /\ (Due(s, k) => Due(s, k)')
          \/ launch'[s][k].acct = account
    BY <1>2, <1>3, <2>1, LaunchKeeps
  <2> QED BY <1>3, <2>1, <2>2 DEF Keeps, Excused
<1>6. CASE throwException(s0)
  BY <1>2, <1>3, <1>6, ExitKeeps DEF throwException
<1> QED BY <1>1, <1>4, <1>5, <1>6 DEF onFinish, AskPassword

LEMMA ReloginKeeps == ASSUME IInv, onRelogin PROVE Keeps
<1>1. PICK s0, a : s0 = Head(ui).s /\ a = Head(ui).acct
  OBVIOUS
<1>2. /\ ui # <<>> /\ Head(ui).what = "onRelogin" /\ account' = a
      /\ UNCHANGED <<selected, started, dialog, exited>>
      /\ relogged' = [relogged EXCEPT ![s0] = @ + 1]
      /\ late' = IF s0 \in exited THEN late \cup {s0} ELSE late
      /\ stale' = (stale \/ Overtaken(s0, a))
      /\ Launch(s0, a)
  BY <1>1 DEF onRelogin, Message, checkState, Launch
<1>3. s0 \in Sessions /\ relogged \in [Sessions -> Nat]
  BY <1>1, <1>2, TailOf DEF IInv, Shape, Mail, Fits, Says
<1>4. (stale => stale') /\ (~stale' => a.id = selected)
  BY <1>2 DEF Overtaken
<1>5. \A s \in Sessions : Excused(s) => Excused(s)'
  <2>1. \A s \in Sessions : relogged'[s] >= relogged[s] /\ relogged'[s] \in Nat /\ relogged[s] \in Nat
    BY <1>2, <1>3
  <2> QED BY <1>2, <2>1 DEF Excused
<1>6. \A s \in Sessions : \A k \in DOMAIN launch'[s] :
        \/ k \in DOMAIN launch[s] /\ (Due(s, k) => Due(s, k)')
        \/ launch'[s][k].acct = a
  BY <1>2, <1>3, LaunchKeeps
<1> QED BY <1>2, <1>4, <1>5, <1>6 DEF Keeps

LEMMA LaunchTaskKeeps == ASSUME IInv, NEW s0 \in Sessions, NEW k0, LaunchTask(s0, k0) PROVE Keeps
<1>1. /\ k0 \in DOMAIN launch[s0] /\ launch[s0][k0].state = "running"
      /\ launch' = [launch EXCEPT ![s0][k0].state = "posted"]
      /\ UNCHANGED <<selected, started, stale, account, dialog, exited, late, relogged>>
  BY DEF LaunchTask, loginVars, history
<1>2. /\ \A s \in Sessions \ {s0} : launch'[s] = launch[s]
      /\ DOMAIN launch'[s0] = DOMAIN launch[s0]
      /\ launch'[s0][k0].cancelled = launch[s0][k0].cancelled
      /\ launch'[s0][k0].acct = launch[s0][k0].acct
      /\ \A k \in DOMAIN launch[s0] : k # k0 => launch'[s0][k] = launch[s0][k]
  <2>1. TaskMovesTo(s0, k0, "posted")
    BY <1>1, TaskMoves
  <2> QED BY <2>1 DEF TaskMovesTo
<1>3. \A s \in Sessions : \A k \in DOMAIN launch'[s] :
        k \in DOMAIN launch[s] /\ (Due(s, k) => Due(s, k)')
  BY <1>1, <1>2 DEF Due
<1> QED BY <1>1, <1>3 DEF Keeps, Excused

LEMMA GameKeeps == ASSUME IInv, CInv, startGame PROVE CInv'
<1>1. PICK s0, k0, t : s0 = Head(ui).s /\ k0 = Head(ui).task /\ t = launch[s0][k0]
  OBVIOUS
<1> DEFINE g == [session |-> s0, acct |-> t.acct]
<1>2. /\ ui # <<>> /\ Head(ui).what = "launched"
      /\ launch' = [launch EXCEPT ![s0][k0].state = "finished"]
      /\ UNCHANGED <<account, exited, late, relogged, selected, stale>>
      /\ \/ t.cancelled /\ UNCHANGED <<dialog, started>>
         \/ ~t.cancelled /\ dialog' = [dialog EXCEPT ![s0] = "gone"] /\ started' = Append(started, g)
  BY <1>1 DEF startGame, Message, history
<1>3. s0 \in Sessions /\ k0 \in DOMAIN launch[s0] /\ t.state = "posted"
  <2>1. 1 \in DOMAIN ui /\ Head(ui) = ui[1]
    BY <1>2, TailOf DEF IInv, Shape
  <2>2. Says(Head(ui), check, launch, relogin)
    BY <2>1 DEF IInv, Mail, Fits
  <2> QED BY <1>1, <1>2, <2>2 DEF Says
<1>4. /\ \A s \in Sessions \ {s0} : launch'[s] = launch[s]
      /\ DOMAIN launch'[s0] = DOMAIN launch[s0] /\ launch'[s0][k0].state = "finished"
      /\ \A k \in DOMAIN launch[s0] : k # k0 => launch'[s0][k] = launch[s0][k]
  <2>1. launch' = [launch EXCEPT ![s0][k0].state = "finished"]
    BY <1>2
  <2> HIDE DEF g
  <2>2. TaskMovesTo(s0, k0, "finished")
    BY <1>3, <2>1, TaskMoves
  <2> QED BY <2>2 DEF TaskMovesTo
<1>5. \A s \in Sessions : \A k \in DOMAIN launch'[s] :
        k \in DOMAIN launch[s] /\ (Due(s, k) => Due(s, k)')
  BY <1>2, <1>4 DEF Due
<1>6. CASE t.cancelled /\ UNCHANGED <<dialog, started>>
  <2>1. Keeps
    BY <1>2, <1>5, <1>6 DEF Keeps, Excused
  <2> QED BY <2>1, KeepsChosen
<1>7. CASE ~t.cancelled /\ dialog' = [dialog EXCEPT ![s0] = "gone"] /\ started' = Append(started, g)
  <2>1. /\ Len(started) \in Nat /\ DOMAIN started = 1..Len(started)
        /\ DOMAIN started' = 1..(Len(started) + 1)
        /\ \A n \in DOMAIN started : started'[n] = started[n]
        /\ started'[Len(started) + 1] = g
    BY <1>7, Appended DEF IInv, Shape
  <2>2. g.session = s0 /\ g.acct = t.acct
    OBVIOUS
  <2> HIDE DEF g
  <2>3. \A n \in DOMAIN started' :
          \/ n \in DOMAIN started /\ started'[n] = started[n]
          \/ started'[n] = g
    <3>1. \A n \in DOMAIN started' : n \in DOMAIN started \/ n = Len(started) + 1
      BY <2>1
    <3> QED BY <2>1, <3>1
  <2>4. Played'
    BY <1>3, <2>2, <2>3 DEF CInv, Played
  <2>5. Chosen'
    BY <1>2, <1>5 DEF CInv, Chosen, Excused
  <2>6. Ended'
    <3>1. \A s : Games(s) \subseteq Games(s)'
      <4>1. DOMAIN started \subseteq DOMAIN started'
        BY <2>1
      <4> QED BY <2>1, <4>1 DEF Games
    <3>2. Games(s0)' # {}
      <4>1. Len(started) + 1 \in DOMAIN started'
        BY <2>1
      <4> QED BY <2>1, <2>2, <4>1 DEF Games
    <3>3. dialog'[s0] = "gone" /\ \A s \in Sessions : s # s0 => dialog'[s] = dialog[s]
      BY <1>3, <1>7 DEF IInv, Shape
    <3> QED BY <1>2, <3>1, <3>2, <3>3 DEF CInv, Ended
  <2>7. SelectedLaunched'
    <3>1. ~stale => t.acct.id = selected \/ s0 \in late \/ relogged[s0] > 1
      BY <1>1, <1>3, <1>7 DEF CInv, Chosen, Due, Excused
    <3> QED BY <1>2, <2>2, <2>3, <3>1 DEF CInv, SelectedLaunched
  <2> QED BY <2>4, <2>5, <2>6, <2>7 DEF CInv
<1> QED BY <1>2, <1>6, <1>7

LEMMA AccountsInductive == IInv /\ CInv /\ [Next]_vars => CInv'
<1> SUFFICES ASSUME IInv, CInv, [Next]_vars PROVE CInv'
  OBVIOUS
<1> USE DEF checkVars, loginVars, history
<1>1. CASE UNCHANGED vars
  BY <1>1, StillKeeps, KeepsChosen DEF vars
<1>2. CASE UIThread
  <2>1. CASE onFinish
    BY <2>1, FinishKeeps, KeepsChosen
  <2>2. CASE saveAccount
    <3>1. /\ UNCHANGED <<selected, started, dialog, exited, late, relogged, launch>>
          /\ account' = Head(ui).acct
          /\ stale' = (stale \/ Overtaken(Head(ui).s, Head(ui).acct))
      BY <2>2 DEF saveAccount
    <3>2. Keeps
      BY <3>1 DEF Keeps, Excused, Due, Overtaken
    <3> QED BY <3>2, KeepsChosen
  <2>3. CASE onRelogin
    BY <2>3, ReloginKeeps, KeepsChosen
  <2>4. CASE setButtons
    BY <2>4, StillKeeps, KeepsChosen DEF setButtons
  <2>5. CASE startGame
    BY <2>5, GameKeeps
  <2> QED BY <1>2, <2>1, <2>2, <2>3, <2>4, <2>5 DEF UIThread
<1>3. CASE User
  <2>1. CASE \E i \in Accounts : SelectAccount(i)
    BY <2>1, SelectKeeps
  <2>2. ASSUME NEW s0 \in Sessions, startCheckTasks(s0) PROVE Keeps
    <3>1. /\ UNCHANGED <<selected, started, stale, account, exited, late, relogged, launch>>
          /\ dialog' = [dialog EXCEPT ![s0] = "shown"]
      BY <2>2 DEF startCheckTasks
    <3>2. \A s \in Sessions : dialog'[s] # dialog[s] => dialog'[s] = "shown"
      BY <3>1 DEF IInv, Shape
    <3> QED BY <3>1, <3>2 DEF Keeps, Excused, Due
  <2>3. ASSUME NEW s0 \in Sessions, CancelClick(s0) \/ ReloginCancelClick(s0) PROVE Keeps
    BY <2>3, ExitKeeps DEF CancelClick, ReloginCancelClick
  <2>4. ASSUME NEW s0 \in Sessions, ReloginClick(s0) PROVE Keeps
    BY <2>4, StillKeeps DEF ReloginClick
  <2> QED BY <1>3, <2>1, <2>2, <2>3, <2>4, KeepsChosen DEF User
<1>4. ASSUME NEW s \in Sessions, Background(s) PROVE CInv'
  <2>1. ASSUME \/ \E c \in FileChecks : CheckEnds(s, c)
               \/ CheckAccount(s) \/ PostSave(s) \/ DropToken(s) \/ CheckAccountReturns(s)
        PROVE  Keeps
    BY <2>1, StillKeeps DEF CheckEnds, CheckAccount, PostSave, DropToken, CheckAccountReturns
  <2>2. ASSUME NEW k \in 1..MaxLogins, ReloginThread(s, k) PROVE Keeps
    BY <2>2, StillKeeps DEF ReloginThread, LoginBegins, LoginAuthenticates, LoginRefused, LoginPosts,
                            LoginDrops, LoginEnds
  <2>3. ASSUME NEW k \in 1..(MaxLogins + 1), LaunchTask(s, k) PROVE Keeps
    BY <2>3, LaunchTaskKeeps
  <2> QED BY <1>4, <2>1, <2>2, <2>3, KeepsChosen DEF Background
<1> QED BY <1>1, <1>2, <1>3, <1>4 DEF Next

LEMMA AccountsInitially == Init => CInv
<1> SUFFICES ASSUME Init PROVE CInv
  OBVIOUS
<1>1. DOMAIN started = {} /\ \A s \in Sessions : DOMAIN launch[s] = {}
  BY DEF Init
<1> QED BY <1>1 DEF Init, CInv, Ended, Chosen, Played, SelectedLaunched

\* The checks of closed dialogs save accounts and end in any order, yet a game
\* starts with the account the user selected last, except where a session was
\* overtaken, or its ReLoginDialog was answered after it closed or twice.
THEOREM SelectedPlays == Spec => []SelectedLaunched
<1>1. CInv => SelectedLaunched
  BY DEF CInv
<1> QED BY <1>1, Initially, Inductive, AccountsInitially, AccountsInductive, PTL DEF Spec
=============================================================================
