------------------------ MODULE LaunchAccountsProofs ------------------------
(***************************************************************************)
(* TypeOK, AccountsSafe and LaunchTokenValid for any accounts, sessions,   *)
(* log-ins and tokens.                                                     *)
(*                                                                         *)
(* relogged is bounded because a log-in thread answers at most once: the   *)
(* times onRelogin() ran, its messages that wait and the threads that may  *)
(* still answer are no more than the threads there are (Budget).           *)
(*                                                                         *)
(* The newest token of an account is in the list, held by a check that     *)
(* refreshed it or by a log-in thread, or in a message (Stored).  A list   *)
(* that is handed several tokens ends with the newest because one that is  *)
(* not the newest is followed by a newer one (Current, Fresh), or is of a  *)
(* session that was overtaken (Doomed), and is then excused when it is     *)
(* saved.  That fails when log-in threads post in another order than they  *)
(* got their tokens, and for nothing else: the account is then excepted    *)
(* (crossed).                                                              *)
(*                                                                         *)
(* A game's token is the newest because the account was up to date for its *)
(* session (Valid) from the moment the session had it until now.  Only a   *)
(* check that has the newest token gets a newer one, and no check of the   *)
(* session or of an older one has it (Outrun); only a log-in gives one     *)
(* besides, and the session's is over (Settled).  A newer session's makes  *)
(* the older one Doomed.  That a check passes only with an up-to-date      *)
(* account selected is because its save is ahead of its result (Promise).  *)
(***************************************************************************)
EXTENDS LaunchCheckProofs, FiniteSetTheorems

Typed ==
  /\ account \in AccountRecs /\ accounts \in [Accounts -> AccountRecs]
  /\ server \in [Accounts -> 0..MaxToken]
  /\ dialog \in [Sessions -> {"none", "shown", "gone"}]
  /\ check \in [Sessions -> [Checks -> {"none", "running", "refreshed", "saved",
                                       "posted", "finished"}]]
  /\ passed \in [Sessions -> SUBSET Checks]
  /\ cancelled \in [Sessions -> SUBSET Checks]
  /\ checking \in [Sessions -> AccountRecs]
  /\ relogin \in [Sessions -> {"none", "shown", "gone"}]
  /\ asked \in [Sessions -> Accounts]
  /\ buttons \in [Sessions -> BOOLEAN]
  /\ given \in [Sessions -> [1..MaxLogins -> 0..MaxToken]]
  /\ selected \in Accounts /\ exited \subseteq Sessions
  /\ late \subseteq exited /\ dropped \subseteq Accounts /\ crossed \subseteq Accounts
  /\ stale \in BOOLEAN /\ crashed \in BOOLEAN

Wary(m) == m.what \in {"save", "onRelogin"}

\* What a waiting message carries.
Content(m) == /\ Wary(m) => m.acct \in AccountRecs
              /\ m.what = "buttons" => m.on \in BOOLEAN

Contents == \A n \in DOMAIN ui : Content(ui[n])

TInv == Typed /\ Contents

LEMMA Received ==
  ASSUME IInv, Contents, NEW w, Message(w)
  PROVE  /\ Contents' /\ Content(Head(ui)) /\ Head(ui).s \in Sessions
         /\ Head(ui).what = w /\ (w = "result" => Head(ui).check \in Checks)
<1>1. ui # <<>> /\ ui' = Tail(ui) /\ Head(ui).what = w
  BY DEF Message
<1>2. /\ 1 \in DOMAIN ui /\ Head(ui) = ui[1]
      /\ \A n \in DOMAIN Tail(ui) : n + 1 \in DOMAIN ui /\ Tail(ui)[n] = ui[n + 1]
  BY <1>1, TailOf DEF IInv, Shape
<1> QED BY <1>1, <1>2 DEF Contents, IInv, Mail, Fits, Says

LEMMA Written ==
  ASSUME IInv, Contents, NEW x, Post(x), Content(x)
  PROVE  Contents'
<1>1. /\ ui' = Append(ui, x) /\ DOMAIN ui = 1..Len(ui) /\ Len(ui) \in Nat
      /\ DOMAIN Append(ui, x) = 1..(Len(ui) + 1)
      /\ \A n \in DOMAIN ui : Append(ui, x)[n] = ui[n]
      /\ Append(ui, x)[Len(ui) + 1] = x
  BY Appended DEF IInv, Shape, Post
<1>2. \A n \in DOMAIN ui' : n \in DOMAIN ui \/ n = Len(ui) + 1
  BY <1>1
<1> QED BY <1>1, <1>2 DEF Contents

LEMMA Plain ==
  /\ \A s, c, e : Content(Result(s, c, e)) /\ ~Wary(Result(s, c, e))
  /\ \A s, b : ~Wary(Buttons(s, b)) /\ (b \in BOOLEAN => Content(Buttons(s, b)))
  /\ \A s, k : Content(Launched(s, k)) /\ ~Wary(Launched(s, k))
  /\ \A s, a : a \in AccountRecs => Content(Save(s, a)) /\ Content(OnRelogin(s, a))
BY DEF Content, Wary, Result, Buttons, Launched, Save, OnRelogin

LEMMA ReturnTyped ==
  ASSUME IInv, TInv, NEW s \in Sessions, NEW c \in Checks, NEW e, Returns(s, c, e)
  PROVE  /\ Contents'
         /\ check' \in [Sessions -> [Checks -> {"none", "running", "refreshed", "saved",
                                       "posted", "finished"}]]
<1>1. Contents'
  <2>1. CASE UNCHANGED ui
    BY <2>1 DEF TInv, Contents
  <2>2. CASE Post(Result(s, c, e))
    BY <2>2, Written, Plain DEF TInv
  <2> QED BY <2>1, <2>2 DEF Returns
<1>2. \E v \in {"finished", "posted"} : check' = [check EXCEPT ![s][c] = v]
  BY DEF Returns
<1> QED BY <1>1, <1>2 DEF TInv, Typed

LEMMA ReplacedTyped ==
  ASSUME TInv, NEW i, NEW a \in AccountRecs
  PROVE  Replaced(i, a) \in [Accounts -> AccountRecs]
BY DEF TInv, Typed, Replaced

LEMMA ExitTyped ==
  ASSUME IInv, TInv, NEW s \in Sessions, exit(s)
  PROVE  /\ dialog' \in [Sessions -> {"none", "shown", "gone"}]
         /\ cancelled' \in [Sessions -> SUBSET Checks]
         /\ exited' \subseteq Sessions /\ exited \subseteq exited'
BY DEF exit, TInv, Typed

LEMMA LoginChecked == "login" \in Checks /\ FileChecks \subseteq Checks
BY DEF Checks

LEMMA HandlerTyped == ASSUME IInv, TInv, UIThread PROVE TInv'
<1> USE DEF checkVars, loginVars, history
<1>1. CASE onFinish
  <2>1. PICK s, c : s = Head(ui).s /\ c = Head(ui).check
    OBVIOUS
  <2>2. Contents' /\ s \in Sessions /\ c \in Checks
    BY <1>1, <2>1, Received DEF onFinish, TInv
  <2>3. check' = [check EXCEPT ![s][c] = "finished"]
    BY <1>1, <2>1 DEF onFinish
  <2>4. UNCHANGED <<account, accounts, server, checking, buttons, logins, given, started,
                    selected, relogged, late, dropped, crossed, stale>>
    BY <1>1 DEF onFinish
  <2>5. \/ UNCHANGED <<dialog, cancelled, exited, passed, launch, relogin, asked, crashed>>
        \/ Passes(s, c) \/ throwException(s) \/ AskPassword(s)
    BY <1>1, <2>1 DEF onFinish
  <2>6. /\ check' \in [Sessions -> [Checks -> {"none", "running", "refreshed", "saved",
                                       "posted", "finished"}]]
    BY <2>2, <2>3 DEF TInv, Typed
  <2>7. CASE UNCHANGED <<dialog, cancelled, exited, passed, launch, relogin, asked, crashed>>
    BY <2>2, <2>4, <2>6, <2>7 DEF TInv, Typed
  <2>8. CASE Passes(s, c)
    <3>1. /\ passed' = [passed EXCEPT ![s] = @ \cup {c}]
          /\ UNCHANGED <<dialog, cancelled, exited, relogin, asked, crashed>>
      BY <2>8 DEF Passes
    <3>2. passed' \in [Sessions -> SUBSET Checks]
      BY <2>2, <3>1 DEF TInv, Typed
    <3> QED BY <2>2, <2>4, <2>6, <3>1, <3>2 DEF TInv, Typed
  <2>9. CASE throwException(s)
    <3>1. UNCHANGED <<passed, relogin, asked, crashed>> /\ exit(s)
      BY <2>9 DEF throwException
    <3> QED BY <2>2, <2>4, <2>6, <3>1, ExitTyped DEF TInv, Typed
  <2>10. CASE AskPassword(s)
    <3>1. /\ UNCHANGED <<dialog, cancelled, exited, passed, launch>>
          /\ \/ /\ relogin' = [relogin EXCEPT ![s] = "shown"]
                /\ asked' = [asked EXCEPT ![s] = account.id]
                /\ UNCHANGED crashed
             \/ crashed' = TRUE /\ UNCHANGED <<relogin, asked>>
      BY <2>10 DEF AskPassword
    <3>2. account.id \in Accounts
      BY DEF TInv, Typed, AccountRecs
    <3>3. /\ relogin' \in [Sessions -> {"none", "shown", "gone"}]
          /\ asked' \in [Sessions -> Accounts] /\ crashed' \in BOOLEAN
      BY <2>2, <3>1, <3>2 DEF TInv, Typed
    <3> QED BY <2>2, <2>4, <2>6, <3>1, <3>3 DEF TInv, Typed
  <2> QED BY <2>5, <2>7, <2>8, <2>9, <2>10
<1>2. CASE saveAccount
  <2>1. PICK m : m = Head(ui)
    OBVIOUS
  <2>2. Contents' /\ m.acct \in AccountRecs
    BY <1>2, <2>1, Received DEF saveAccount, TInv, Content, Wary
  <2>3. /\ accounts' = Replaced(m.acct.id, m.acct) /\ account' = m.acct
        /\ stale' = (stale \/ Overtaken(m.s, m.acct))
        /\ UNCHANGED <<server, dialog, checkVars, launch, loginVars, started, crashed,
                       selected, relogged, exited, late, dropped, crossed>>
    BY <1>2, <2>1 DEF saveAccount
  <2>4. accounts' \in [Accounts -> AccountRecs]
    BY <2>2, <2>3, ReplacedTyped
  <2> QED BY <2>2, <2>3, <2>4 DEF TInv, Typed
<1>3. CASE onRelogin
  <2>1. PICK m, s : m = Head(ui) /\ s = m.s
    OBVIOUS
  <2>2. Contents' /\ m.acct \in AccountRecs /\ s \in Sessions
    BY <1>3, <2>1, Received DEF onRelogin, TInv, Content, Wary
  <2>3. /\ accounts' = Replaced(account.id, m.acct) /\ account' = m.acct
        /\ passed' = [passed EXCEPT ![s] = @ \cup {"login"}]
        /\ relogin' = [relogin EXCEPT ![s] = "gone"]
        /\ late' = IF s \in exited THEN late \cup {s} ELSE late
        /\ stale' = (stale \/ Overtaken(s, m.acct))
        /\ UNCHANGED <<server, dialog, check, cancelled, checking, asked, buttons,
                       logins, given, started, crashed, selected, exited, dropped, crossed>>
    BY <1>3, <2>1 DEF onRelogin
  <2>4. accounts' \in [Accounts -> AccountRecs]
    BY <2>2, <2>3, ReplacedTyped
  <2>5. /\ passed' \in [Sessions -> SUBSET Checks]
        /\ relogin' \in [Sessions -> {"none", "shown", "gone"}]
        /\ late' \subseteq exited'
    BY <2>2, <2>3, LoginChecked DEF TInv, Typed
  <2> QED BY <2>2, <2>3, <2>4, <2>5 DEF TInv, Typed
<1>4. CASE setButtons
  <2>1. PICK m : m = Head(ui)
    OBVIOUS
  <2>2. Contents' /\ m.on \in BOOLEAN /\ m.s \in Sessions
    BY <1>4, <2>1, Received DEF setButtons, TInv, Content
  <2>3. buttons' = [buttons EXCEPT ![m.s] = m.on]
    BY <1>4, <2>1 DEF setButtons
  <2>4. buttons' \in [Sessions -> BOOLEAN]
    BY <2>2, <2>3 DEF TInv, Typed
  <2> QED BY <1>4, <2>2, <2>4 DEF setButtons, TInv, Typed
<1>5. CASE startGame
  <2>1. PICK s : s = Head(ui).s
    OBVIOUS
  <2>2. Contents' /\ s \in Sessions
    BY <1>5, <2>1, Received DEF startGame, TInv
  <2>3. dialog' \in [Sessions -> {"none", "shown", "gone"}]
    <3>1. dialog' = dialog \/ dialog' = [dialog EXCEPT ![s] = "gone"]
      BY <1>5, <2>1 DEF startGame
    <3> QED BY <2>2, <3>1 DEF TInv, Typed
  <2> QED BY <1>5, <2>2, <2>3 DEF startGame, TInv, Typed
<1> QED BY <1>1, <1>2, <1>3, <1>4, <1>5 DEF UIThread

LEMMA UserTyped == ASSUME IInv, TInv, User PROVE TInv'
<1> USE DEF checkVars, loginVars, history
<1>1. ASSUME NEW i \in Accounts, SelectAccount(i) PROVE TInv'
  <2>1. accounts[i] \in AccountRecs /\ accounts[i].id \in Accounts
    BY DEF TInv, Typed, AccountRecs
  <2> QED BY <1>1, <2>1 DEF SelectAccount, TInv, Typed, Contents
<1>2. ASSUME NEW s \in Sessions, startCheckTasks(s) PROVE TInv'
  <2>1. /\ dialog' = [dialog EXCEPT ![s] = "shown"]
        /\ check' = [check EXCEPT ![s] = [c \in Checks |-> "running"]]
        /\ checking' = [checking EXCEPT ![s] = account]
        /\ UNCHANGED <<account, accounts, server, ui, passed, cancelled, launch,
                       loginVars, started, crashed, history>>
    BY <1>2 DEF startCheckTasks
  <2>2. /\ dialog' \in [Sessions -> {"none", "shown", "gone"}]
        /\ check' \in [Sessions -> [Checks -> {"none", "running", "refreshed", "saved",
                                       "posted", "finished"}]]
        /\ checking' \in [Sessions -> AccountRecs]
    BY <2>1 DEF TInv, Typed
  <2> QED BY <2>1, <2>2 DEF TInv, Typed, Contents
<1>3. ASSUME NEW s \in Sessions, CancelClick(s) PROVE TInv'
  <2>1. exit(s) /\ UNCHANGED <<account, accounts, server, ui, check, passed, checking, loginVars,
                 started, crashed, selected, relogged, late, dropped, crossed, stale>>
    BY <1>3 DEF CancelClick
  <2> QED BY <2>1, ExitTyped DEF TInv, Typed, Contents
<1>4. ASSUME NEW s \in Sessions, ReloginClick(s) PROVE TInv'
  BY <1>4 DEF ReloginClick, TInv, Typed, Contents
<1>5. ASSUME NEW s \in Sessions, ReloginCancelClick(s) PROVE TInv'
  <2>1. /\ exit(s) /\ relogin' = [relogin EXCEPT ![s] = "gone"]
        /\ UNCHANGED <<account, accounts, server, ui, check, passed, checking, asked,
                 buttons, logins, given, started, crashed, selected, relogged, late,
                 dropped, crossed, stale>>
    BY <1>5 DEF ReloginCancelClick
  <2>2. relogin' \in [Sessions -> {"none", "shown", "gone"}]
    BY <2>1 DEF TInv, Typed
  <2> QED BY <2>1, <2>2, ExitTyped DEF TInv, Typed, Contents
<1> QED BY <1>1, <1>2, <1>3, <1>4, <1>5 DEF User

LEMMA BackgroundTyped == ASSUME IInv, TInv, NEW s \in Sessions, Background(s) PROVE TInv'
<1> USE DEF checkVars, loginVars, history
<1>1. ASSUME NEW c \in FileChecks, CheckEnds(s, c) PROVE TInv'
  <2>1. PICK e : Returns(s, c, e)
    BY <1>1 DEF CheckEnds
  <2> QED BY <1>1, <2>1, LoginChecked, ReturnTyped DEF CheckEnds, TInv, Typed
<1>2. CASE CheckAccount(s)
  <2>1. UNCHANGED <<account, accounts, dialog, passed, cancelled, launch,
                    loginVars, started, crashed, history>>
    BY <1>2 DEF CheckAccount
  <2>2. ASSUME UNCHANGED <<server, checking>>, NEW e, Returns(s, "login", e) PROVE TInv'
    BY <2>1, <2>2, LoginChecked, ReturnTyped DEF TInv, Typed
  <2>3. CASE TokenRefreshed(s)
    <3>1. PICK a : a = checking[s].id
      OBVIOUS
    <3>2. /\ server[a] < MaxToken
          /\ server' = [server EXCEPT ![a] = @ + 1]
          /\ checking' = [checking EXCEPT ![s].token = server'[a]]
          /\ check' = [check EXCEPT ![s]["login"] = "refreshed"]
          /\ UNCHANGED ui
      BY <2>3, <3>1 DEF TokenRefreshed
    <3>3. a \in Accounts /\ server[a] \in 0..MaxToken /\ MaxToken \in Nat
      BY <3>1, LaunchAssumption DEF TInv, Typed, AccountRecs
    <3>4. server[a] + 1 \in 0..MaxToken /\ server'[a] = server[a] + 1
      BY <3>2, <3>3 DEF TInv, Typed
    <3>5. server' \in [Accounts -> 0..MaxToken]
      BY <3>2, <3>3, <3>4 DEF TInv, Typed
    <3>6. checking' \in [Sessions -> AccountRecs]
      BY <3>2, <3>4 DEF TInv, Typed, AccountRecs
    <3>7. check' \in [Sessions -> [Checks -> {"none", "running", "refreshed", "saved",
                                       "posted", "finished"}]]
      BY <3>2, LoginChecked DEF TInv, Typed
    <3> QED BY <2>1, <3>2, <3>5, <3>6, <3>7 DEF TInv, Typed, Contents
  <2> QED BY <1>2, <2>2, <2>3 DEF CheckAccount, OfflineAccount, LoginFails
<1>3. CASE PostSave(s)
  <2>1. /\ check' = [check EXCEPT ![s]["login"] = "saved"]
        /\ Post(Save(s, checking[s])) /\ checking[s] \in AccountRecs
        /\ UNCHANGED <<account, accounts, server, dialog, passed, cancelled,
                 checking, launch, loginVars, started, crashed, history>>
    BY <1>3 DEF PostSave, TInv, Typed
  <2>2. Contents'
    BY <2>1, Written, Plain DEF TInv
  <2>3. check' \in [Sessions -> [Checks -> {"none", "running", "refreshed", "saved",
                                       "posted", "finished"}]]
    BY <2>1, LoginChecked DEF TInv, Typed
  <2> QED BY <2>1, <2>2, <2>3 DEF TInv, Typed
<1>4. CASE DropToken(s)
  <2>1. PICK e : Returns(s, "login", e)
    BY <1>4 DEF DropToken
  <2>2. dropped' \subseteq Accounts
    BY <1>4 DEF DropToken, TInv, Typed, AccountRecs
  <2> QED BY <1>4, <2>1, <2>2, LoginChecked, ReturnTyped DEF DropToken, TInv, Typed
<1>5. CASE CheckAccountReturns(s)
  <2>1. Returns(s, "login", "ok")
    BY <1>5 DEF CheckAccountReturns
  <2> QED BY <1>5, <2>1, LoginChecked, ReturnTyped DEF CheckAccountReturns, TInv, Typed
<1>6. ASSUME NEW k, LoginBegins(s, k) \/ LoginEnds(s, k) PROVE TInv'
  <2>1. /\ \E b \in BOOLEAN : Post(Buttons(s, b))
        /\ UNCHANGED <<account, accounts, server, dialog, checkVars, launch, relogin,
                 asked, buttons, given, started, crashed, history>>
    BY <1>6 DEF LoginBegins, LoginEnds
  <2>2. Contents'
    BY <2>1, Written, Plain DEF TInv
  <2> QED BY <2>1, <2>2 DEF TInv, Typed
<1>7. ASSUME NEW k \in 1..MaxLogins, LoginAuthenticates(s, k) PROVE TInv'
  <2>1. PICK a : a = asked[s]
    OBVIOUS
  <2>2. /\ server[a] < MaxToken /\ server' = [server EXCEPT ![a] = @ + 1]
        /\ given' = [given EXCEPT ![s][k] = server'[a]]
        /\ UNCHANGED <<account, accounts, ui, dialog, checkVars, launch, relogin,
                 asked, buttons, started, crashed, history>>
    BY <1>7, <2>1 DEF LoginAuthenticates
  <2>3. a \in Accounts /\ server[a] \in 0..MaxToken /\ MaxToken \in Nat
    BY <2>1, LaunchAssumption DEF TInv, Typed
  <2>4. server[a] + 1 \in 0..MaxToken /\ server'[a] = server[a] + 1
    BY <2>2, <2>3 DEF TInv, Typed
  <2>5. server' \in [Accounts -> 0..MaxToken]
    BY <2>2, <2>3, <2>4 DEF TInv, Typed
  <2>6. given' \in [Sessions -> [1..MaxLogins -> 0..MaxToken]]
    BY <2>2, <2>4 DEF TInv, Typed
  <2> QED BY <2>2, <2>5, <2>6 DEF TInv, Typed, Contents
<1>8. ASSUME NEW k, LoginRefused(s, k) PROVE TInv'
  BY <1>8 DEF LoginRefused, TInv, Typed, Contents
<1>10. ASSUME NEW k \in 1..MaxLogins, LoginPosts(s, k) \/ LoginDrops(s, k) PROVE TInv'
  <2>1. PICK a : a = asked[s]
    OBVIOUS
  <2>2. /\ given' = [given EXCEPT ![s][k] = 0]
        /\ dropped' \in {dropped, dropped \cup {a}}
        /\ crossed' \in {crossed, crossed \cup {a}}
        /\ UNCHANGED ui \/ Post(OnRelogin(s, [id |-> a, token |-> given[s][k]]))
        /\ UNCHANGED <<account, accounts, server, dialog, checkVars, launch, relogin, asked,
                 buttons, started, crashed, selected, relogged, exited, late, stale>>
    BY <1>10, <2>1 DEF LoginPosts, LoginDrops
  <2>3. a \in Accounts /\ given[s][k] \in 0..MaxToken /\ 0 \in 0..MaxToken
    BY <2>1, LaunchAssumption DEF TInv, Typed
  <2>4. given' \in [Sessions -> [1..MaxLogins -> 0..MaxToken]]
    BY <2>2, <2>3 DEF TInv, Typed
  <2>5. dropped' \subseteq Accounts /\ crossed' \subseteq Accounts
    BY <2>2, <2>3 DEF TInv, Typed
  <2>6. [id |-> a, token |-> given[s][k]] \in AccountRecs
    BY <2>3 DEF AccountRecs
  <2>7. Contents'
    <3>1. CASE UNCHANGED ui
      BY <3>1 DEF TInv, Contents
    <3>2. CASE Post(OnRelogin(s, [id |-> a, token |-> given[s][k]]))
      BY <2>6, <3>2, Written, Plain DEF TInv
    <3> QED BY <2>2, <3>1, <3>2
  <2> QED BY <2>2, <2>4, <2>5, <2>7 DEF TInv, Typed
<1>9. ASSUME NEW k, LaunchTask(s, k) PROVE TInv'
  <2>1. /\ Post(Launched(s, k))
        /\ UNCHANGED <<account, accounts, server, dialog, checkVars, loginVars, started,
                 crashed, history>>
    BY <1>9 DEF LaunchTask
  <2>2. Contents'
    BY <2>1, Written, Plain DEF TInv
  <2> QED BY <2>1, <2>2 DEF TInv, Typed
<1> QED BY <1>1, <1>2, <1>3, <1>4, <1>5, <1>6, <1>7, <1>8, <1>9, <1>10
       DEF Background, ReloginThread

LEMMA TypesInductive == IInv /\ TInv /\ [Next]_vars => TInv'
<1> SUFFICES ASSUME IInv, TInv, [Next]_vars PROVE TInv'
  OBVIOUS
<1>1. CASE UNCHANGED vars
  BY <1>1 DEF vars, checkVars, loginVars, history, TInv, Typed, Contents
<1> QED BY <1>1, HandlerTyped, UserTyped, BackgroundTyped DEF Next

LEMMA TypesInitially == Init => TInv
<1> SUFFICES ASSUME Init PROVE TInv
  OBVIOUS
<1>1. DOMAIN ui = {} /\ 0 \in 0..MaxToken
  BY LaunchAssumption DEF Init
<1> QED BY <1>1 DEF Init, TInv, Typed, Contents, AccountRecs

-----------------------------------------------------------------------------
\* How often onRelogin() runs

Answered(m, s) == m.what = "onRelogin" /\ m.s = s

Answers(s) == {n \in DOMAIN ui : Answered(ui[n], s)}

Pending == {"new", "authenticating", "authenticated"}

Open(s) == {k \in DOMAIN logins[s] : logins[s][k] \in Pending}

\* Every log-in thread answers at most once.
Budget(s) ==
  /\ IsFiniteSet(Answers(s)) /\ IsFiniteSet(Open(s))
  /\ relogged[s] + Cardinality(Answers(s)) + Cardinality(Open(s)) <= Len(logins[s])
  /\ Len(logins[s]) <= MaxLogins

Budgets == \A s \in Sessions : Budget(s)

LEMMA AnswersTaken ==
  ASSUME IInv, ui # <<>>, ui' = Tail(ui), NEW s, IsFiniteSet(Answers(s))
  PROVE  /\ IsFiniteSet(Answers(s)') /\ Cardinality(Answers(s)') \in Nat
         /\ Cardinality(Answers(s)') <= Cardinality(Answers(s))
         /\ Answered(Head(ui), s) => Cardinality(Answers(s)') + 1 <= Cardinality(Answers(s))
<1>1. /\ 1 \in DOMAIN ui /\ Head(ui) = ui[1]
      /\ \A n \in DOMAIN ui' : n \in Nat \ {0} /\ n + 1 \in DOMAIN ui /\ ui'[n] = ui[n + 1]
  BY TailOf DEF IInv, Shape
<1> DEFINE rest == Answers(s) \ {1}
           f == [n \in Answers(s)' |-> n + 1]
<1>2. IsFiniteSet(rest) /\ Cardinality(rest) \in Nat /\ Cardinality(Answers(s)) \in Nat
  BY FS_RemoveElement, FS_CardinalityType
<1>3. /\ Cardinality(rest) <= Cardinality(Answers(s))
      /\ Answered(Head(ui), s) => Cardinality(rest) + 1 = Cardinality(Answers(s))
  <2>1. CASE 1 \in Answers(s)
    <3>1. Cardinality(rest) = Cardinality(Answers(s)) - 1
      BY <2>1, FS_RemoveElement
    <3>2. \A m, n \in Nat : m = n - 1 => m <= n /\ m + 1 = n
      OBVIOUS
    <3>3. Cardinality(rest) <= Cardinality(Answers(s)) /\ Cardinality(rest) + 1 = Cardinality(Answers(s))
      <4> HIDE DEF rest
      <4> QED BY <1>2, <3>1, <3>2
    <3> QED BY <3>3
  <2>2. CASE 1 \notin Answers(s)
    <3>1. rest = Answers(s) /\ ~Answered(Head(ui), s)
      BY <1>1, <2>2 DEF Answers
    <3>2. Cardinality(rest) = Cardinality(Answers(s))
      BY <3>1
    <3> HIDE DEF rest
    <3>3. Cardinality(rest) <= Cardinality(Answers(s))
      BY <1>2, <3>2
    <3> QED BY <3>1, <3>3
  <2> QED BY <2>1, <2>2
<1>4. f \in Injection(Answers(s)', rest)
  <2>1. \A n \in Answers(s)' : n \in Nat \ {0} /\ n + 1 \in rest
    BY <1>1 DEF Answers
  <2> QED BY <2>1 DEF Injection, IsInjective
<1>5. IsFiniteSet(Answers(s)') /\ Cardinality(Answers(s)') <= Cardinality(rest)
  <2> HIDE DEF f, rest
  <2> QED BY <1>2, <1>4, FS_Injection
<1>6. Cardinality(Answers(s)') \in Nat
  BY <1>5, FS_CardinalityType
<1> HIDE DEF rest
<1> QED BY <1>2, <1>3, <1>5, <1>6

LEMMA AnswersPosted ==
  ASSUME IInv, NEW x, Post(x), NEW s, IsFiniteSet(Answers(s))
  PROVE  /\ ~Answered(x, s) => Answers(s)' = Answers(s)
         /\ Answered(x, s) => /\ IsFiniteSet(Answers(s)')
                              /\ Cardinality(Answers(s)') = Cardinality(Answers(s)) + 1
<1>1. /\ DOMAIN ui = 1..Len(ui) /\ Len(ui) \in Nat
      /\ DOMAIN ui' = 1..(Len(ui) + 1)
      /\ \A n \in DOMAIN ui : ui'[n] = ui[n]
      /\ ui'[Len(ui) + 1] = x
  BY Appended DEF IInv, Shape, Post
<1>2. DOMAIN ui' = DOMAIN ui \cup {Len(ui) + 1} /\ Len(ui) + 1 \notin DOMAIN ui
  BY <1>1
<1>3. ~Answered(x, s) => Answers(s)' = Answers(s)
  BY <1>1, <1>2 DEF Answers
<1>4. ASSUME Answered(x, s)
      PROVE  Answers(s)' = Answers(s) \cup {Len(ui) + 1} /\ Len(ui) + 1 \notin Answers(s)
  BY <1>1, <1>2, <1>4 DEF Answers
<1> QED BY <1>3, <1>4, FS_AddElement

\* No log-in thread moves.
LEMMA BudgetHolds ==
  ASSUME IInv, Budgets, UNCHANGED <<relogged, logins>>,
         \/ UNCHANGED ui
         \/ ui # <<>> /\ ui' = Tail(ui)
         \/ \E x : Post(x) /\ x.what # "onRelogin"
  PROVE  Budgets'
<1> SUFFICES ASSUME NEW s \in Sessions PROVE Budget(s)'
  BY DEF Budgets
<1>1. Budget(s) /\ Open(s)' = Open(s) /\ relogged[s] \in Nat /\ MaxLogins \in Nat
  BY LaunchAssumption DEF Budgets, Open, IInv, Shape
<1>2. /\ Cardinality(Answers(s)) \in Nat /\ Cardinality(Open(s)) \in Nat /\ Len(logins[s]) \in Nat
  BY <1>1, FS_CardinalityType, Appended DEF Budget, IInv, Shape
<1>3. CASE Answers(s)' = Answers(s)
  BY <1>1, <1>3 DEF Budget
<1>4. CASE UNCHANGED ui
  BY <1>3, <1>4 DEF Answers
<1>5. CASE ui # <<>> /\ ui' = Tail(ui)
  BY <1>1, <1>2, <1>5, AnswersTaken DEF Budget
<1>6. CASE \E x : Post(x) /\ x.what # "onRelogin"
  <2>1. PICK x : Post(x) /\ x.what # "onRelogin"
    BY <1>6
  <2>2. ~Answered(x, s)
    BY <2>1 DEF Answered
  <2> QED BY <1>1, <1>3, <2>1, <2>2, AnswersPosted DEF Budget
<1> QED BY <1>4, <1>5, <1>6

\* A log-in thread that moves posts an answer only once it has one.
LEMMA LoginCounted ==
  ASSUME IInv, Budgets, UNCHANGED relogged, NEW s0 \in Sessions, NEW k, NEW from, NEW to,
         LoginMoves(s0, k, from, to),
         \/ /\ from \in Pending \/ to \notin Pending
            /\ UNCHANGED ui \/ \E x : Post(x) /\ x.what # "onRelogin"
         \/ /\ from = "authenticated" /\ to = "answered"
            /\ \E a : Post(OnRelogin(s0, a))
  PROVE  Budgets'
<1> SUFFICES ASSUME NEW s \in Sessions PROVE Budget(s)'
  BY DEF Budgets
<1>1. Budget(s) /\ relogged[s] \in Nat /\ MaxLogins \in Nat
  BY LaunchAssumption DEF Budgets, IInv, Shape
<1>2. /\ Cardinality(Answers(s)) \in Nat /\ Cardinality(Open(s)) \in Nat /\ Len(logins[s]) \in Nat
  BY <1>1, FS_CardinalityType, Appended DEF Budget, IInv, Shape
<1>3. /\ k \in DOMAIN logins[s0] /\ logins[s0][k] = from /\ IsSeq(logins[s0])
      /\ logins' = [logins EXCEPT ![s0][k] = to]
  BY DEF LoginMoves, IInv, Shape
<1> DEFINE q == [logins[s0] EXCEPT ![k] = to]
<1>4. logins'[s0] = q /\ \A r \in Sessions : r # s0 => logins'[r] = logins[r]
  BY <1>3 DEF IInv, Shape
<1>5. /\ DOMAIN q = DOMAIN logins[s0] /\ q[k] = to
      /\ \A j \in DOMAIN q : j # k => q[j] = logins[s0][j]
  BY <1>3
<1>6. Len(q) = Len(logins[s0])
  BY <1>3, Updated
<1> HIDE DEF q
<1>7. Len(logins'[s]) = Len(logins[s])
  BY <1>4, <1>6
<1>8. /\ from = "authenticated" /\ to = "answered" /\ s = s0 =>
           Open(s)' = Open(s) \ {k} /\ k \in Open(s)
      /\ s # s0 \/ from \in Pending \/ to \notin Pending => Open(s)' \subseteq Open(s)
  BY <1>3, <1>4, <1>5 DEF Open, Pending
<1>9. CASE /\ Open(s)' \subseteq Open(s)
           /\ UNCHANGED ui \/ \E x : Post(x) /\ ~Answered(x, s)
  <2>1. Answers(s)' = Answers(s)
    BY <1>1, <1>9, AnswersPosted DEF Answers, Budget
  <2>2. /\ IsFiniteSet(Open(s)') /\ Cardinality(Open(s)') <= Cardinality(Open(s))
        /\ Cardinality(Open(s)') \in Nat
    BY <1>1, <1>9, FS_Subset, FS_CardinalityType DEF Budget
  <2> QED BY <1>1, <1>2, <1>7, <2>1, <2>2 DEF Budget
<1>10. CASE /\ from \in Pending \/ to \notin Pending
            /\ UNCHANGED ui \/ \E x : Post(x) /\ x.what # "onRelogin"
  BY <1>8, <1>9, <1>10 DEF Answered
<1>11. CASE /\ from = "authenticated" /\ to = "answered"
            /\ \E a : Post(OnRelogin(s0, a))
  <2>1. PICK a : Post(OnRelogin(s0, a))
    BY <1>11
  <2>2. PICK x : x = OnRelogin(s0, a)
    OBVIOUS
  <2>3. Post(x) /\ (Answered(x, s) <=> s = s0)
    BY <2>1, <2>2 DEF Answered, OnRelogin
  <2>4. CASE s # s0
    BY <1>8, <1>9, <2>3, <2>4
  <2>5. CASE s = s0
    <3>1. Open(s)' = Open(s) \ {k} /\ k \in Open(s)
      BY <1>8, <1>11, <2>5
    <3>2. /\ IsFiniteSet(Open(s)') /\ Cardinality(Open(s)') = Cardinality(Open(s)) - 1
      BY <1>1, <3>1, FS_RemoveElement DEF Budget
    <3>3. /\ IsFiniteSet(Answers(s)')
          /\ Cardinality(Answers(s)') = Cardinality(Answers(s)) + 1
      BY <1>1, <2>3, <2>5, AnswersPosted DEF Budget
    <3> QED BY <1>1, <1>2, <1>7, <3>2, <3>3 DEF Budget
  <2> QED BY <2>4, <2>5
<1> QED BY <1>10, <1>11

LEMMA ClickCounted ==
  ASSUME IInv, Budgets, NEW s0 \in Sessions, ReloginClick(s0)
  PROVE  Budgets'
<1> SUFFICES ASSUME NEW s \in Sessions PROVE Budget(s)'
  BY DEF Budgets
<1>1. Budget(s) /\ relogged[s] \in Nat /\ MaxLogins \in Nat
  BY LaunchAssumption DEF Budgets, IInv, Shape
<1>2. /\ Cardinality(Answers(s)) \in Nat /\ Cardinality(Open(s)) \in Nat /\ Len(logins[s]) \in Nat
  BY <1>1, FS_CardinalityType, Appended DEF Budget, IInv, Shape
<1>3. /\ Len(logins[s0]) < MaxLogins /\ UNCHANGED <<ui, relogged>> /\ Answers(s)' = Answers(s)
      /\ logins' = [logins EXCEPT ![s0] = Append(@, "new")]
  BY DEF ReloginClick, history, Answers
<1> DEFINE q == Append(logins[s0], "new")
<1>4. logins'[s0] = q /\ \A r \in Sessions : r # s0 => logins'[r] = logins[r]
  BY <1>3 DEF IInv, Shape
<1>5. /\ Len(q) = Len(logins[s0]) + 1 /\ DOMAIN q = 1..(Len(logins[s0]) + 1)
      /\ Len(logins[s0]) \in Nat /\ DOMAIN logins[s0] = 1..Len(logins[s0])
      /\ \A n \in DOMAIN logins[s0] : q[n] = logins[s0][n]
      /\ q[Len(logins[s0]) + 1] = "new"
  BY Appended DEF IInv, Shape
<1> HIDE DEF q
<1>6. CASE s # s0
  <2>1. logins'[s] = logins[s] /\ Open(s)' = Open(s)
    BY <1>4, <1>6 DEF Open
  <2> QED BY <1>1, <1>3, <2>1 DEF Budget
<1>7. CASE s = s0
  <2> DEFINE n == Len(logins[s]) + 1
  <2>1. DOMAIN q = DOMAIN logins[s] \cup {n} /\ n \notin DOMAIN logins[s]
    BY <1>5, <1>7
  <2>2. logins'[s] = q /\ q[n] = "new" /\ \A k \in DOMAIN logins[s] : q[k] = logins[s][k]
    BY <1>4, <1>5, <1>7
  <2> HIDE DEF n
  <2>3. Open(s)' = Open(s) \cup {n} /\ n \notin Open(s)
    BY <2>1, <2>2 DEF Open, Pending
  <2>4. IsFiniteSet(Open(s)') /\ Cardinality(Open(s)') = Cardinality(Open(s)) + 1
    BY <1>1, <2>3, FS_AddElement DEF Budget
  <2> QED BY <1>1, <1>2, <1>3, <1>4, <1>5, <1>7, <2>4 DEF Budget
<1> QED BY <1>6, <1>7

LEMMA AnswerCounted ==
  ASSUME IInv, Budgets, onRelogin
  PROVE  Budgets'
<1> SUFFICES ASSUME NEW s \in Sessions PROVE Budget(s)'
  BY DEF Budgets
<1>1. Budget(s) /\ relogged \in [Sessions -> Nat] /\ MaxLogins \in Nat
  BY LaunchAssumption DEF Budgets, IInv, Shape
<1>2. /\ Cardinality(Answers(s)) \in Nat /\ Cardinality(Open(s)) \in Nat /\ Len(logins[s]) \in Nat
  BY <1>1, FS_CardinalityType, Appended DEF Budget, IInv, Shape
<1>3. PICK s0 : s0 = Head(ui).s
  OBVIOUS
<1>4. /\ ui # <<>> /\ ui' = Tail(ui) /\ Head(ui).what = "onRelogin" /\ UNCHANGED logins
      /\ relogged' = [relogged EXCEPT ![s0] = @ + 1]
  BY <1>3 DEF onRelogin, Message
<1>5. Open(s)' = Open(s)
  BY <1>4 DEF Open
<1>6. relogged'[s] = IF Answered(Head(ui), s) THEN relogged[s] + 1 ELSE relogged[s]
  BY <1>1, <1>3, <1>4 DEF Answered
<1> QED BY <1>1, <1>2, <1>4, <1>5, <1>6, AnswersTaken DEF Budget

LEMMA BudgetsInductive == IInv /\ Budgets /\ [Next]_vars => Budgets'
<1> SUFFICES ASSUME IInv, Budgets, [Next]_vars PROVE Budgets'
  OBVIOUS
<1> USE DEF checkVars, loginVars, history
<1>1. CASE UNCHANGED vars
  BY <1>1, BudgetHolds DEF vars
<1>2. CASE UIThread
  <2>1. CASE onRelogin
    BY <2>1, AnswerCounted
  <2>2. CASE onFinish \/ saveAccount \/ setButtons \/ startGame
    <3>1. ui # <<>> /\ ui' = Tail(ui) /\ UNCHANGED <<relogged, logins>>
      BY <2>2 DEF onFinish, saveAccount, setButtons, startGame, Message
    <3> QED BY <3>1, BudgetHolds
  <2> QED BY <1>2, <2>1, <2>2 DEF UIThread
<1>3. CASE User
  <2>1. ASSUME NEW s0 \in Sessions, ReloginClick(s0) PROVE Budgets'
    BY <2>1, ClickCounted
  <2>2. CASE \/ \E i \in Accounts : SelectAccount(i)
             \/ \E s0 \in Sessions : startCheckTasks(s0) \/ CancelClick(s0) \/ ReloginCancelClick(s0)
    <3>1. UNCHANGED <<ui, relogged, logins>>
      BY <2>2 DEF SelectAccount, startCheckTasks, CancelClick, ReloginCancelClick
    <3> QED BY <3>1, BudgetHolds
  <2> QED BY <1>3, <2>1, <2>2 DEF User
<1>4. ASSUME NEW s \in Sessions, Background(s) PROVE Budgets'
  <2>1. /\ \A t, a : Save(t, a).what = "save"
        /\ \A t, b : Buttons(t, b).what = "buttons"
        /\ \A t, c, e : Result(t, c, e).what = "result"
        /\ \A t, k : Launched(t, k).what = "launched"
    BY DEF Save, Buttons, Result, Launched
  <2>2. ASSUME UNCHANGED <<relogged, logins>>, UNCHANGED ui \/ \E x : Post(x) /\ x.what # "onRelogin"
        PROVE  Budgets'
    BY <2>2, BudgetHolds
  <2>3. ASSUME NEW c, NEW e, Returns(s, c, e), UNCHANGED <<relogged, logins>> PROVE Budgets'
    <3>1. UNCHANGED ui \/ Post(Result(s, c, e))
      BY <2>3 DEF Returns
    <3> QED BY <2>1, <2>2, <2>3, <3>1
  <2>4. ASSUME NEW c \in FileChecks, CheckEnds(s, c) PROVE Budgets'
    BY <2>3, <2>4 DEF CheckEnds
  <2>5. CASE CheckAccount(s)
    BY <2>2, <2>3, <2>5 DEF CheckAccount, OfflineAccount, LoginFails, TokenRefreshed
  <2>6. CASE PostSave(s)
    BY <2>1, <2>2, <2>6 DEF PostSave
  <2>7. CASE DropToken(s) \/ CheckAccountReturns(s)
    BY <2>3, <2>7 DEF DropToken, CheckAccountReturns
  <2>8. ASSUME NEW k, LoginBegins(s, k) PROVE Budgets'
    <3>1. /\ LoginMoves(s, k, "new", "authenticating") /\ UNCHANGED relogged
          /\ Post(Buttons(s, FALSE)) /\ Buttons(s, FALSE).what # "onRelogin"
      BY <2>1, <2>8 DEF LoginBegins
    <3> QED BY <3>1, LoginCounted DEF Pending
  <2>9. ASSUME NEW k, LoginPosts(s, k) PROVE Budgets'
    <3>1. /\ LoginMoves(s, k, "authenticated", "answered") /\ UNCHANGED relogged
          /\ \E a : Post(OnRelogin(s, a))
      BY <2>9 DEF LoginPosts
    <3> QED BY <3>1, LoginCounted
  <2>10. ASSUME NEW k, LoginAuthenticates(s, k) \/ LoginRefused(s, k) \/ LoginDrops(s, k)
         PROVE  Budgets'
    <3>1. /\ \E from, to \in Pending \cup {"answered"} :
               LoginMoves(s, k, from, to) /\ from \in Pending
          /\ UNCHANGED <<ui, relogged>>
      BY <2>10 DEF LoginAuthenticates, LoginRefused, LoginDrops, Pending
    <3> QED BY <3>1, LoginCounted
  <2>11. ASSUME NEW k, LoginEnds(s, k) PROVE Budgets'
    <3>1. /\ LoginMoves(s, k, "answered", "ended") /\ UNCHANGED relogged
          /\ Post(Buttons(s, TRUE)) /\ Buttons(s, TRUE).what # "onRelogin"
      BY <2>1, <2>11 DEF LoginEnds
    <3> QED BY <3>1, LoginCounted DEF Pending
  <2>12. ASSUME NEW k, LaunchTask(s, k) PROVE Budgets'
    BY <2>1, <2>2, <2>12 DEF LaunchTask
  <2> QED BY <1>4, <2>4, <2>5, <2>6, <2>7, <2>8, <2>9, <2>10, <2>11, <2>12
             DEF Background, ReloginThread
<1> QED BY <1>1, <1>2, <1>3, <1>4 DEF Next

LEMMA BudgetsInitially == Init => Budgets
<1> SUFFICES ASSUME Init, NEW s \in Sessions PROVE Budget(s)
  BY DEF Budgets
<1>1. relogged[s] = 0 /\ ui = <<>> /\ logins[s] = <<>>
  BY DEF Init
<1>2. Answers(s) = {} /\ Open(s) = {} /\ Len(logins[s]) = 0
  BY <1>1 DEF Answers, Open
<1> QED BY <1>1, <1>2, FS_EmptySet, LaunchAssumption DEF Budget

\* The types of the state: an account checked, saved, asked about or selected
\* is one of the list, a token one that a server gave, and a ReLoginDialog is
\* answered at most once by every log-in thread it started.
THEOREM Types == Spec => []TypeOK
<1>1. IInv /\ TInv /\ Budgets => TypeOK
  <2> SUFFICES ASSUME IInv, TInv, Budgets PROVE TypeOK
    OBVIOUS
  <2>1. ASSUME NEW s \in Sessions PROVE relogged[s] \in 0..MaxLogins
    <3>1. Budget(s) /\ relogged[s] \in Nat /\ MaxLogins \in Nat
      BY LaunchAssumption DEF Budgets, IInv, Shape
    <3>2. /\ Cardinality(Answers(s)) \in Nat /\ Cardinality(Open(s)) \in Nat /\ Len(logins[s]) \in Nat
      BY <3>1, FS_CardinalityType, Appended DEF Budget, IInv, Shape
    <3> QED BY <3>1, <3>2 DEF Budget
  <2>2. relogged \in [Sessions -> 0..MaxLogins]
    BY <2>1 DEF IInv, Shape
  <2> QED BY <2>2 DEF TInv, Typed, TypeOK
<1> QED BY <1>1, Initially, Inductive, TypesInitially, TypesInductive, BudgetsInitially,
           BudgetsInductive, PTL DEF Spec

-----------------------------------------------------------------------------
\* Where the newest token of an account is

InPlace == ~stale => /\ \A i \in Accounts : accounts[i].id = i
                     /\ account = accounts[selected]

Carries(m, a) == Wary(m) /\ m.acct.id = a

Refreshed(s) == check[s]["login"] = "refreshed"

\* A log-in thread of the session got a token that it has not posted.
Held(s, a) == asked[s] = a /\ \E k : Holds(s, k)

Bears(s, a) == \/ Refreshed(s) /\ checking[s].id = a
               \/ Held(s, a)

Coming(a) == \E s \in Sessions : Bears(s, a)

Excepted == dropped \cup crossed

\* A newer session was opened: what this one still saves makes the list stale.
Doomed(s) == \E r \in Sessions : r > s /\ dialog[r] # "none"

Doom(m) == Wary(m) /\ Doomed(m.s)

\* The newest token is in the list, or on its way there.
Stored(a) == \/ accounts[a].token = server[a] \/ Coming(a)
             \/ \E n \in DOMAIN ui : Carries(ui[n], a)

\* A token on its way is the newest, or a newer one comes after it, or the list
\* is stale by then.
Current(n) ==
  LET a == ui[n].acct.id IN
  \/ ui[n].acct.token = server[a] \/ Coming(a)
  \/ \E k \in DOMAIN ui : k > n /\ Carries(ui[k], a)
  \/ \E k \in DOMAIN ui : k <= n /\ Doom(ui[k])

Fresh(s) ==
  LET a == checking[s].id IN
  \/ checking[s].token = server[a]
  \/ \E r \in Sessions : r < s /\ Bears(r, a)
  \/ Doomed(s)
  \/ \E k \in DOMAIN ui : Doom(ui[k])

Delivered ==
  ~stale => /\ \A a \in Accounts \ Excepted : Stored(a)
            /\ \A n \in DOMAIN ui : Wary(ui[n]) /\ ui[n].acct.id \notin Excepted => Current(n)
            /\ \A s \in Sessions : Refreshed(s) /\ checking[s].id \notin Excepted => Fresh(s)

AInv == InPlace /\ Delivered

\* The messages of accounts are those that waited, `d` places further on.
Shifted(d) ==
  /\ \A n \in DOMAIN ui' : Wary(ui'[n]) => n + d \in DOMAIN ui /\ ui'[n] = ui[n + d]
  /\ \A k \in DOMAIN ui : Wary(ui[k]) => k - d \in DOMAIN ui' /\ ui'[k - d] = ui[k]

\* A step that saves no token and gives out only those it drops.
Quiet ==
  /\ UNCHANGED <<accounts, stale>> /\ Excepted \subseteq Excepted'
  /\ \A a \in Accounts \ Excepted' : server'[a] = server[a]
  /\ \A s \in Sessions :
       /\ Refreshed(s)' => Refreshed(s) /\ checking'[s] = checking[s]
       /\ Refreshed(s) /\ checking[s].id \notin Excepted' =>
            Refreshed(s)' /\ checking'[s] = checking[s]
       /\ \A a : Held(s, a) /\ a \notin Excepted' => Held(s, a)'
       /\ dialog[s] # "none" => dialog'[s] # "none"
  /\ \E d \in {0, 1} : Shifted(d)

\* No log-in thread lets go of a token.
LEMMA StillHeld ==
  ASSUME NEW s, UNCHANGED <<asked, logins>> \/ (asked'[s] = asked[s] /\ logins'[s] = logins[s])
  PROVE  \A a : Held(s, a)' = Held(s, a)
BY DEF Held, Holds

LEMMA Places == ASSUME NEW q, IsSeq(q) PROVE \A n \in DOMAIN q : n \in Nat \ {0}
<1>1. DOMAIN q = 1..Len(q) /\ Len(q) \in Nat
  BY Appended
<1> QED BY <1>1

LEMMA DoomStays ==
  ASSUME \A s \in Sessions : dialog[s] # "none" => dialog'[s] # "none"
  PROVE  /\ \A s : Doomed(s) => Doomed(s)'
         /\ \A m : Doom(m) => Doom(m)'
BY DEF Doomed, Doom, Wary

LEMMA QuietDelivers == ASSUME IInv, IInv', TInv', Delivered, Quiet PROVE Delivered'
<1> SUFFICES ASSUME ~stale' PROVE
       /\ \A a \in Accounts \ Excepted' : Stored(a)'
       /\ \A n \in DOMAIN ui' : Wary(ui'[n]) /\ ui'[n].acct.id \notin Excepted' => Current(n)'
       /\ \A s \in Sessions : Refreshed(s)' /\ checking'[s].id \notin Excepted' => Fresh(s)'
  BY DEF Delivered, Wary
<1>1. /\ UNCHANGED <<accounts, stale>> /\ Excepted \subseteq Excepted'
      /\ \A a \in Accounts \ Excepted' : server'[a] = server[a]
  BY DEF Quiet
<1>2. PICK d \in {0, 1} : Shifted(d)
  BY DEF Quiet
<1>3. \A a : a \notin Excepted' => (Coming(a) => Coming(a)')
  BY DEF Quiet, Coming, Bears
<1>4. /\ \A s : Doomed(s) => Doomed(s)'
      /\ \A m : Doom(m) => Doom(m)'
  BY DoomStays DEF Quiet
<1>5. \A n \in DOMAIN ui : n \in Nat
  BY Places DEF IInv, Shape
<1>6. \A n \in DOMAIN ui' : n \in Nat
  <2>1. IsSeq(ui')
    BY DEF IInv, Shape, IsSeq
  <2> QED BY <2>1, Places
<1>7. ASSUME NEW a \in Accounts \ Excepted' PROVE Stored(a)'
  <2>1. Stored(a)
    BY <1>1, <1>7 DEF Delivered
  <2>2. ASSUME NEW n \in DOMAIN ui, Carries(ui[n], a) PROVE Stored(a)'
    <3>1. n - d \in DOMAIN ui' /\ Carries(ui'[n - d], a)
      BY <1>2, <2>2 DEF Shifted, Carries
    <3> QED BY <3>1 DEF Stored, Carries, Wary
  <2> QED BY <1>1, <1>3, <1>7, <2>1, <2>2 DEF Stored
<1>8. ASSUME NEW n \in DOMAIN ui', Wary(ui'[n]), ui'[n].acct.id \notin Excepted' PROVE Current(n)'
  <2>1. n + d \in DOMAIN ui /\ ui'[n] = ui[n + d]
    BY <1>2, <1>8 DEF Shifted
  <2>2. PICK a \in Accounts : a = ui'[n].acct.id
    BY <1>8 DEF TInv, Contents, Content, AccountRecs
  <2>3. Current(n + d)
    BY <1>1, <1>8, <2>1 DEF Delivered
  <2>4. ASSUME NEW k \in DOMAIN ui, k > n + d, Carries(ui[k], a) PROVE Current(n)'
    <3>1. k - d \in DOMAIN ui' /\ ui'[k - d] = ui[k] /\ k - d > n
      BY <1>2, <1>5, <1>6, <2>4 DEF Shifted, Carries
    <3> QED BY <2>2, <2>4, <3>1 DEF Current, Carries, Wary
  <2>5. ASSUME NEW k \in DOMAIN ui, k <= n + d, Doom(ui[k]) PROVE Current(n)'
    <3>1. PICK m : m = ui[k]
      OBVIOUS
    <3>2. k - d \in DOMAIN ui' /\ ui'[k - d] = m /\ k - d <= n
      BY <3>1, <1>2, <1>5, <1>6, <2>5 DEF Shifted, Doom
    <3>3. Doom(m)'
      BY <1>4, <2>5, <3>1
    <3> QED BY <3>2, <3>3 DEF Current
  <2>6. server'[a] = server[a] /\ (Coming(a) => Coming(a)')
    BY <1>1, <1>3, <1>8, <2>2
  <2> QED BY <2>1, <2>2, <2>3, <2>4, <2>5, <2>6 DEF Current
<1>9. ASSUME NEW s \in Sessions, Refreshed(s)', checking'[s].id \notin Excepted' PROVE Fresh(s)'
  <2>1. Refreshed(s) /\ checking'[s] = checking[s]
    BY <1>9 DEF Quiet
  <2>2. Fresh(s)
    BY <1>1, <1>9, <2>1 DEF Delivered
  <2>3. ASSUME NEW r \in Sessions, r < s, Bears(r, checking[s].id) PROVE Fresh(s)'
    <3>1. PICK a : a = checking[s].id
      OBVIOUS
    <3>2. Bears(r, a)'
      BY <1>9, <2>1, <2>3, <3>1 DEF Quiet, Bears
    <3> QED BY <2>1, <2>3, <3>1, <3>2 DEF Fresh
  <2>4. ASSUME NEW k \in DOMAIN ui, Doom(ui[k]) PROVE Fresh(s)'
    <3>1. PICK m : m = ui[k]
      OBVIOUS
    <3>2. k - d \in DOMAIN ui' /\ ui'[k - d] = m
      BY <3>1, <1>2, <2>4 DEF Shifted, Doom
    <3>3. Doom(m)'
      BY <1>4, <2>4, <3>1
    <3> QED BY <3>2, <3>3 DEF Fresh
  <2>5. server'[checking[s].id] = server[checking[s].id]
    BY <1>1, <1>9, <2>1 DEF TInv, Typed, AccountRecs
  <2> QED BY <1>4, <2>1, <2>2, <2>3, <2>4, <2>5 DEF Fresh
<1> QED BY <1>7, <1>8, <1>9

LEMMA SameShift == ASSUME IInv, UNCHANGED ui PROVE Shifted(0)
<1>1. \A n \in DOMAIN ui : n \in Nat
  BY Places DEF IInv, Shape
<1> QED BY <1>1 DEF Shifted

LEMMA PostShift == ASSUME IInv, NEW x, Post(x), ~Wary(x) PROVE Shifted(0)
<1>1. /\ DOMAIN ui = 1..Len(ui) /\ Len(ui) \in Nat
      /\ DOMAIN ui' = 1..(Len(ui) + 1)
      /\ \A n \in DOMAIN ui : ui'[n] = ui[n]
      /\ ui'[Len(ui) + 1] = x
  BY Appended DEF IInv, Shape, Post
<1>2. \A n \in DOMAIN ui' : n \in DOMAIN ui \/ n = Len(ui) + 1
  BY <1>1
<1>3. \A n \in DOMAIN ui : n + 0 = n /\ n - 0 = n /\ n \in DOMAIN ui'
  BY <1>1
<1> QED BY <1>1, <1>2, <1>3 DEF Shifted

LEMMA TakeShift == ASSUME IInv, ui # <<>>, ui' = Tail(ui), ~Wary(Head(ui)) PROVE Shifted(1)
<1>1. /\ 1 \in DOMAIN ui /\ Head(ui) = ui[1] /\ Len(ui) \in Nat
      /\ DOMAIN ui = 1..Len(ui)
      /\ \A n \in DOMAIN ui' : n \in Nat \ {0} /\ n + 1 \in DOMAIN ui /\ ui'[n] = ui[n + 1]
  BY TailOf, Appended DEF IInv, Shape
<1>2. DOMAIN ui' = 1..(Len(ui) - 1)
  <2>1. PICK S : ui \in Seq(S)
    BY DEF IInv, Shape, IsSeq
  <2> QED BY <2>1
<1>3. \A k \in DOMAIN ui : k # 1 => k - 1 \in DOMAIN ui' /\ ui'[k - 1] = ui[k]
  BY <1>1, <1>2
<1> QED BY <1>1, <1>3 DEF Shifted

\* A message is posted: where it is, and where the others are.
LEMMA Grown ==
  ASSUME IInv, NEW x, Post(x)
  PROVE  \E p \in DOMAIN ui' :
           /\ ui'[p] = x /\ p \in Nat
           /\ \A n \in DOMAIN ui : n \in Nat /\ n < p /\ n \in DOMAIN ui' /\ ui'[n] = ui[n]
           /\ \A n \in DOMAIN ui' : n \in DOMAIN ui \/ n = p
<1>1. /\ DOMAIN ui = 1..Len(ui) /\ Len(ui) \in Nat
      /\ DOMAIN ui' = 1..(Len(ui) + 1)
      /\ \A n \in DOMAIN ui : ui'[n] = ui[n]
      /\ ui'[Len(ui) + 1] = x
  BY Appended DEF IInv, Shape, Post
<1> DEFINE p == Len(ui) + 1
<1>2. p \in DOMAIN ui' /\ ui'[p] = x /\ p \in Nat
  BY <1>1
<1>3. \A n \in DOMAIN ui : n \in Nat /\ n < p /\ n \in DOMAIN ui' /\ ui'[n] = ui[n]
  BY <1>1
<1>4. \A n \in DOMAIN ui' : n \in DOMAIN ui \/ n = p
  BY <1>1
<1> HIDE DEF p
<1> QED BY <1>2, <1>3, <1>4

LEMMA Opened == ASSUME IInv, NEW s \in Sessions, Refreshed(s) \/ check[s]["login"] = "running"
                PROVE  dialog[s] # "none"
BY NotLogin DEF IInv, Stages, Stage, Refreshed

\* A session refreshes the token: nothing older counts any more.
LEMMA RefreshDelivers ==
  ASSUME IInv, TInv, TInv', Delivered, NEW s0 \in Sessions, CheckAccount(s0), TokenRefreshed(s0)
  PROVE  Delivered'
<1> SUFFICES ASSUME ~stale' PROVE
       /\ \A a \in Accounts \ Excepted' : Stored(a)'
       /\ \A n \in DOMAIN ui' : Wary(ui'[n]) /\ ui'[n].acct.id \notin Excepted' => Current(n)'
       /\ \A s \in Sessions : Refreshed(s)' /\ checking'[s].id \notin Excepted' => Fresh(s)'
  BY DEF Delivered, Wary
<1>1. PICK c \in Accounts : c = checking[s0].id
  BY DEF TInv, Typed, AccountRecs
<1>2. /\ UNCHANGED <<ui, accounts, Excepted, stale, dialog, asked, logins>>
      /\ server' = [server EXCEPT ![c] = @ + 1]
      /\ checking' = [checking EXCEPT ![s0].token = server'[c]]
      /\ check' = [check EXCEPT ![s0]["login"] = "refreshed"]
      /\ check[s0]["login"] = "running"
  BY <1>1 DEF TokenRefreshed, CheckAccount, history, loginVars, Excepted
<1>3. /\ \A a \in Accounts : a # c => server'[a] = server[a]
      /\ checking'[s0].id = c /\ checking'[s0].token = server'[c]
      /\ \A s \in Sessions : s # s0 => checking'[s] = checking[s] /\ Refreshed(s)' = Refreshed(s)
      /\ Refreshed(s0)' /\ ~Refreshed(s0)
  BY <1>1, <1>2, NotLogin DEF TInv, Typed, AccountRecs, Refreshed
<1>0. \A r \in Sessions : \A a : Bears(r, a) => Bears(r, a)'
  BY <1>2, <1>3, StillHeld DEF Bears
<1>4. /\ \A a : Coming(a) => Coming(a)'
      /\ Coming(c)' /\ Bears(s0, c)'
  BY <1>0, <1>3 DEF Coming, Bears
<1>5. /\ \A s : Doomed(s)' = Doomed(s)
      /\ \A m : Doom(m)' = Doom(m)
  BY <1>2 DEF Doomed, Doom, Wary
<1>6. ASSUME NEW a \in Accounts \ Excepted' PROVE Stored(a)'
  <2>1. Stored(a)
    BY <1>2, <1>6 DEF Delivered
  <2> QED BY <1>2, <1>3, <1>4, <2>1 DEF Stored, Carries, Wary
<1>7. ASSUME NEW n \in DOMAIN ui', Wary(ui'[n]), ui'[n].acct.id \notin Excepted' PROVE Current(n)'
  <2>1. Current(n) /\ ui[n].acct.id \in Accounts
    BY <1>2, <1>7 DEF Delivered, TInv, Contents, Content, AccountRecs
  <2>2. \A k \in DOMAIN ui : Doom(ui[k]) => Doom(ui[k])'
    BY <1>2, <1>5 DEF Doom, Doomed, Wary
  <2>3. CASE ui[n].acct.id = c
    BY <1>2, <1>4, <2>3 DEF Current
  <2>4. CASE ui[n].acct.id # c
    BY <1>2, <1>3, <1>4, <2>1, <2>2, <2>4 DEF Current, Carries, Wary
  <2> QED BY <2>3, <2>4
<1>8. ASSUME NEW s \in Sessions, Refreshed(s)', checking'[s].id \notin Excepted' PROVE Fresh(s)'
  <2>1. CASE s = s0
    BY <1>3, <2>1 DEF Fresh
  <2>2. CASE s # s0
    <3>1. Refreshed(s) /\ checking'[s] = checking[s] /\ Fresh(s) /\ checking[s].id \in Accounts
      BY <1>2, <1>3, <1>8, <2>2 DEF Delivered, TInv, Typed, AccountRecs
    <3>2. dialog[s0] # "none" /\ (s0 > s \/ s0 < s)
      BY <1>2, <2>2, Opened, LaunchAssumption DEF Sessions
    <3>3. CASE checking[s].id = c
      BY <1>2, <1>3, <1>4, <3>1, <3>2, <3>3 DEF Fresh, Doomed
    <3>4. CASE checking[s].id # c
      <4>1. \A k \in DOMAIN ui : Doom(ui[k]) => Doom(ui[k])'
        BY <1>2, <1>5 DEF Doom, Doomed, Wary
      <4>2. PICK a : a = checking[s].id
        OBVIOUS
      <4>3. \A r \in Sessions : Bears(r, a) => Bears(r, a)'
        BY <1>0
      <4> QED BY <1>2, <1>3, <1>5, <3>1, <3>4, <4>1, <4>2, <4>3 DEF Fresh
    <3> QED BY <3>3, <3>4
  <2> QED BY <2>1, <2>2
<1> QED BY <1>6, <1>7, <1>8

\* The refreshed account leaves the check and waits to be saved.
LEMMA SaveDelivers ==
  ASSUME IInv, TInv, Delivered, NEW s0 \in Sessions, PostSave(s0)
  PROVE  Delivered'
<1> SUFFICES ASSUME ~stale' PROVE
       /\ \A a \in Accounts \ Excepted' : Stored(a)'
       /\ \A n \in DOMAIN ui' : Wary(ui'[n]) /\ ui'[n].acct.id \notin Excepted' => Current(n)'
       /\ \A s \in Sessions : Refreshed(s)' /\ checking'[s].id \notin Excepted' => Fresh(s)'
  BY DEF Delivered, Wary
<1>1. PICK c, x : c = checking[s0].id /\ x = Save(s0, checking[s0])
  OBVIOUS
<1>2. /\ UNCHANGED <<accounts, server, Excepted, stale, dialog, checking, asked, logins>>
      /\ check' = [check EXCEPT ![s0]["login"] = "saved"]
      /\ Refreshed(s0) /\ Post(x)
  BY <1>1 DEF PostSave, Refreshed, history, loginVars, Excepted
<1>3. Carries(x, c) /\ x.s = s0 /\ x.acct = checking[s0]
  BY <1>1 DEF Carries, Wary, Save
<1>4. \A s \in Sessions : Refreshed(s)' = (Refreshed(s) /\ s # s0)
  BY <1>2, NotLogin DEF TInv, Typed, Refreshed
<1>5. PICK p \in DOMAIN ui' :
        /\ ui'[p] = x /\ p \in Nat
        /\ \A n \in DOMAIN ui : n \in Nat /\ n < p /\ n \in DOMAIN ui' /\ ui'[n] = ui[n]
        /\ \A n \in DOMAIN ui' : n \in DOMAIN ui \/ n = p
  BY <1>2, Grown
<1>0. \A r \in Sessions : \A a : Bears(r, a) => (r = s0 /\ a = c) \/ Bears(r, a)'
  BY <1>1, <1>2, <1>4, StillHeld DEF Bears
<1>6. \A a : Coming(a) => a = c \/ Coming(a)'
  BY <1>0 DEF Coming
<1>7. /\ \A s : Doomed(s) => Doomed(s)'
      /\ \A m : Doom(m) => Doom(m)'
  BY <1>2, DoomStays
<1>8. ASSUME NEW a \in Accounts \ Excepted' PROVE Stored(a)'
  <2>1. Stored(a)
    BY <1>2, <1>8 DEF Delivered
  <2>2. ASSUME NEW n \in DOMAIN ui, Carries(ui[n], a) PROVE Stored(a)'
    BY <1>5, <2>2 DEF Stored, Carries, Wary
  <2>3. CASE a = c
    BY <1>3, <1>5, <2>3 DEF Stored, Carries, Wary
  <2> QED BY <1>2, <1>6, <2>1, <2>2, <2>3 DEF Stored
<1>9. ASSUME NEW k \in DOMAIN ui, Doom(ui[k]), NEW n, n \in DOMAIN ui', n >= k PROVE Current(n)'
  <2>1. PICK m : m = ui[k]
    OBVIOUS
  <2>2. k \in DOMAIN ui' /\ ui'[k] = m /\ Doom(m)'
    BY <1>5, <1>7, <1>9, <2>1
  <2> QED BY <1>5, <1>9, <2>2 DEF Current
<1>10. ASSUME Doomed(s0) PROVE Doom(x)'
  BY <1>3, <1>7, <1>10 DEF Doom, Carries, Wary
<1>11. ASSUME NEW n \in DOMAIN ui', Wary(ui'[n]), ui'[n].acct.id \notin Excepted' PROVE Current(n)'
  <2>1. CASE n \in DOMAIN ui
    <3>1. Current(n) /\ ui'[n] = ui[n] /\ n < p /\ n \in Nat
      BY <1>2, <1>5, <1>11, <2>1 DEF Delivered
    <3>2. ASSUME NEW k \in DOMAIN ui, k > n, Carries(ui[k], ui[n].acct.id) PROVE Current(n)'
      BY <1>5, <3>1, <3>2 DEF Current, Carries, Wary
    <3>3. CASE ui[n].acct.id = c
      BY <1>3, <1>5, <3>1, <3>3 DEF Current, Carries, Wary
    <3>4. ASSUME NEW k \in DOMAIN ui, k <= n, Doom(ui[k]) PROVE Current(n)'
      BY <1>5, <1>9, <3>4, <2>1
    <3> QED BY <1>2, <1>6, <3>1, <3>2, <3>3, <3>4 DEF Current
  <2>2. CASE n = p
    <3>1. Fresh(s0)
      BY <1>2, <1>3, <1>5, <1>11, <2>2 DEF Delivered
    <3>2. CASE checking[s0].token = server[c]
      BY <1>1, <1>2, <1>3, <1>5, <2>2, <3>2 DEF Current
    <3>3. ASSUME NEW r \in Sessions, r < s0, Bears(r, c) PROVE Current(n)'
      <4>1. r # s0
        BY <3>3, LaunchAssumption DEF Sessions
      <4>2. Coming(c)'
        BY <1>0, <3>3, <4>1 DEF Coming
      <4> QED BY <1>1, <1>3, <1>5, <2>2, <4>2 DEF Current
    <3>4. CASE Doomed(s0)
      <4>1. Doom(x)'
        BY <1>10, <3>4
      <4> QED BY <1>5, <2>2, <4>1 DEF Current
    <3>5. ASSUME NEW k \in DOMAIN ui, Doom(ui[k]) PROVE Current(n)'
      BY <1>5, <1>9, <2>2, <3>5
    <3> QED BY <1>1, <3>1, <3>2, <3>3, <3>4, <3>5 DEF Fresh
  <2> QED BY <1>5, <2>1, <2>2
<1>12. ASSUME NEW s \in Sessions, Refreshed(s)', checking'[s].id \notin Excepted' PROVE Fresh(s)'
  <2>1. Refreshed(s) /\ s # s0 /\ Fresh(s)
    BY <1>2, <1>4, <1>12 DEF Delivered
  <2>2. ASSUME NEW r \in Sessions, r < s, Bears(r, checking[s].id) PROVE Fresh(s)'
    <3>1. CASE r = s0
      <4>1. Doom(x)'
        BY <1>10, <2>1, <2>2, <3>1, Opened DEF Doomed
      <4> QED BY <1>5, <4>1 DEF Fresh
    <3>2. CASE r # s0
      <4>1. PICK a : a = checking[s].id
        OBVIOUS
      <4>2. Bears(r, a)'
        BY <1>0, <2>2, <3>2, <4>1
      <4> QED BY <1>2, <2>2, <4>1, <4>2 DEF Fresh
    <3> QED BY <3>1, <3>2
  <2>3. ASSUME NEW k \in DOMAIN ui, Doom(ui[k]) PROVE Fresh(s)'
    <3>1. PICK m : m = ui[k]
      OBVIOUS
    <3>2. k \in DOMAIN ui' /\ ui'[k] = m /\ Doom(m)'
      BY <1>5, <1>7, <2>3, <3>1
    <3> QED BY <3>2 DEF Fresh
  <2> QED BY <1>2, <1>7, <2>1, <2>2, <2>3 DEF Fresh
<1> QED BY <1>8, <1>11, <1>12

\* A log-in thread moves: the others hold what they held.
LEMMA MoveHolds ==
  ASSUME IInv, NEW s0 \in Sessions, NEW k0, NEW from, NEW to,
         LoginMoves(s0, k0, from, to), UNCHANGED asked
  PROVE  /\ \A r \in Sessions : \A j : Holds(r, j) /\ ~(r = s0 /\ j = k0) => Holds(r, j)'
         /\ from # "authenticated" =>
              \A s \in Sessions : \A a : Held(s, a) => Held(s, a)'
         /\ \A s \in Sessions : \A a : Held(s, a) /\ s # s0 => Held(s, a)'
         /\ to = "authenticated" => Held(s0, asked[s0])'
         /\ logins[s0] # <<>> /\ dialog[s0] # "none" /\ ~Refreshed(s0)
<1>1. /\ k0 \in DOMAIN logins[s0] /\ logins[s0][k0] = from
      /\ logins' = [logins EXCEPT ![s0][k0] = to]
  BY DEF LoginMoves
<1>2. /\ \A s \in Sessions : s # s0 => logins'[s] = logins[s]
      /\ DOMAIN logins'[s0] = DOMAIN logins[s0] /\ logins'[s0][k0] = to
      /\ \A j \in DOMAIN logins[s0] : j # k0 => logins'[s0][j] = logins[s0][j]
  BY <1>1 DEF IInv, Shape
<1>3. \A r \in Sessions : \A j : Holds(r, j) /\ ~(r = s0 /\ j = k0) => Holds(r, j)'
  BY <1>2 DEF Holds
<1>4. from # "authenticated" => ~Holds(s0, k0)
  BY <1>1 DEF Holds
<1>5. to = "authenticated" => Holds(s0, k0)'
  BY <1>1, <1>2 DEF Holds
<1>6. logins[s0] # <<>>
  <2>1. IsSeq(logins[s0])
    BY DEF IInv, Shape
  <2>2. Len(logins[s0]) # 0 /\ Len(logins[s0]) \in Nat
    BY <1>1, <2>1, Appended
  <2> QED BY <2>2
<1>7. dialog[s0] # "none" /\ ~Refreshed(s0)
  BY <1>6 DEF IInv, Stages, Stage, Refreshed
<1> QED BY <1>3, <1>4, <1>5, <1>6, <1>7 DEF Held

\* A log-in gets a token of its own: nothing older counts any more.
LEMMA LoginDelivers ==
  ASSUME IInv, TInv, Delivered, NEW s0 \in Sessions, NEW k0, LoginAuthenticates(s0, k0)
  PROVE  Delivered'
<1> SUFFICES ASSUME ~stale' PROVE
       /\ \A a \in Accounts \ Excepted' : Stored(a)'
       /\ \A n \in DOMAIN ui' : Wary(ui'[n]) /\ ui'[n].acct.id \notin Excepted' => Current(n)'
       /\ \A s \in Sessions : Refreshed(s)' /\ checking'[s].id \notin Excepted' => Fresh(s)'
  BY DEF Delivered, Wary
<1>1. PICK c \in Accounts : c = asked[s0]
  BY DEF TInv, Typed
<1>2. /\ UNCHANGED <<ui, accounts, Excepted, stale, dialog, check, checking, asked>>
      /\ server' = [server EXCEPT ![c] = @ + 1]
      /\ LoginMoves(s0, k0, "authenticating", "authenticated")
  BY <1>1 DEF LoginAuthenticates, checkVars, history, Excepted
<1>3. /\ \A a \in Accounts : a # c => server'[a] = server[a]
      /\ \A s : Refreshed(s)' = Refreshed(s)
  BY <1>2 DEF TInv, Typed, Refreshed
<1>4. /\ \A r \in Sessions : \A a : Bears(r, a) => Bears(r, a)'
      /\ Bears(s0, c)' /\ dialog[s0] # "none" /\ ~Refreshed(s0)
  BY <1>1, <1>2, <1>3, MoveHolds DEF Bears
<1>5. /\ \A a : Coming(a) => Coming(a)'
      /\ Coming(c)'
  BY <1>4 DEF Coming
<1>6. ASSUME NEW a \in Accounts \ Excepted' PROVE Stored(a)'
  <2>1. Stored(a)
    BY <1>2, <1>6 DEF Delivered
  <2> QED BY <1>2, <1>3, <1>5, <2>1 DEF Stored, Carries, Wary
<1>7. ASSUME NEW n \in DOMAIN ui', Wary(ui'[n]), ui'[n].acct.id \notin Excepted' PROVE Current(n)'
  <2>1. Current(n) /\ ui[n].acct.id \in Accounts
    BY <1>2, <1>7 DEF Delivered, TInv, Contents, Content, AccountRecs
  <2>2. \A k \in DOMAIN ui : Doom(ui[k]) => Doom(ui[k])'
    BY <1>2 DEF Doom, Doomed, Wary
  <2>3. CASE ui[n].acct.id = c
    BY <1>2, <1>5, <2>3 DEF Current
  <2>4. CASE ui[n].acct.id # c
    BY <1>2, <1>3, <1>5, <2>1, <2>2, <2>4 DEF Current, Carries, Wary
  <2> QED BY <2>3, <2>4
<1>8. ASSUME NEW s \in Sessions, Refreshed(s)', checking'[s].id \notin Excepted' PROVE Fresh(s)'
  <2>1. Refreshed(s) /\ Fresh(s) /\ checking[s].id \in Accounts
    BY <1>2, <1>3, <1>8 DEF Delivered, TInv, Typed, AccountRecs
  <2>2. s # s0 /\ (s0 > s \/ s0 < s)
    BY <1>4, <2>1, LaunchAssumption DEF Sessions
  <2>3. CASE checking[s].id = c
    BY <1>2, <1>4, <2>2, <2>3 DEF Fresh, Doomed
  <2>4. CASE checking[s].id # c
    <3>1. \A k \in DOMAIN ui : Doom(ui[k]) => Doom(ui[k])'
      BY <1>2 DEF Doom, Doomed, Wary
    <3>2. PICK a : a = checking[s].id
      OBVIOUS
    <3>3. (\A r \in Sessions : Bears(r, a) => Bears(r, a)') /\ (Doomed(s) => Doomed(s)')
      BY <1>2, <1>4 DEF Doomed
    <3>4. server'[a] = server[a]
      BY <1>3, <2>1, <2>4, <3>2
    <3> QED BY <1>2, <2>1, <3>1, <3>2, <3>3, <3>4 DEF Fresh
  <2> QED BY <2>3, <2>4
<1> QED BY <1>6, <1>7, <1>8

\* A log-in posts its token.  It is the newest, or another log-in thread holds
\* the newest one, or its account is excepted from now on.
LEMMA PostDelivers ==
  ASSUME IInv, TInv, Delivered, NEW s0 \in Sessions, NEW k0, LoginPosts(s0, k0)
  PROVE  Delivered'
<1> SUFFICES ASSUME ~stale' PROVE
       /\ \A a \in Accounts \ Excepted' : Stored(a)'
       /\ \A n \in DOMAIN ui' : Wary(ui'[n]) /\ ui'[n].acct.id \notin Excepted' => Current(n)'
       /\ \A s \in Sessions : Refreshed(s)' /\ checking'[s].id \notin Excepted' => Fresh(s)'
  BY DEF Delivered, Wary
<1>1. PICK c, x : /\ c = asked[s0] /\ c \in Accounts
                  /\ x = OnRelogin(s0, [id |-> c, token |-> given[s0][k0]])
  BY DEF TInv, Typed
<1>2. /\ UNCHANGED <<accounts, server, stale, dialog, check, checking, asked>>
      /\ Post(x) /\ LoginMoves(s0, k0, "authenticated", "answered")
      /\ Excepted \subseteq Excepted'
  BY <1>1 DEF LoginPosts, checkVars, Excepted
<1>3. /\ Carries(x, c) /\ x.s = s0 /\ x.acct.id = c /\ x.acct.token = given[s0][k0]
  BY <1>1 DEF Carries, Wary, OnRelogin
<1>4. PICK p \in DOMAIN ui' :
        /\ ui'[p] = x /\ p \in Nat
        /\ \A n \in DOMAIN ui : n \in Nat /\ n < p /\ n \in DOMAIN ui' /\ ui'[n] = ui[n]
        /\ \A n \in DOMAIN ui' : n \in DOMAIN ui \/ n = p
  BY <1>2, Grown
<1>5. /\ \A s : Refreshed(s)' = Refreshed(s)
      /\ \A r \in Sessions : \A a : Bears(r, a) => (r = s0 /\ a = c) \/ Bears(r, a)'
      /\ dialog[s0] # "none" /\ ~Refreshed(s0)
  <2>1. \A s : Refreshed(s)' = Refreshed(s)
    BY <1>2 DEF Refreshed
  <2>2. \A a : Held(s0, a) => a = c
    BY <1>1 DEF Held
  <2> QED BY <1>2, <2>1, <2>2, MoveHolds DEF Bears
<1>6. \A a : Coming(a) => a = c \/ Coming(a)'
  BY <1>5 DEF Coming
<1>7. /\ \A s : Doomed(s) => Doomed(s)'
      /\ \A m : Doom(m) => Doom(m)'
  BY <1>2, DoomStays
<1>8. given[s0][k0] = server[c] \/ Coming(c)' \/ c \in Excepted'
  <2>1. CASE \E r \in Sessions : \E j \in DOMAIN logins[r] : HoldsNewest(r, j, c)
    <3>1. PICK r \in Sessions : \E j \in DOMAIN logins[r] : HoldsNewest(r, j, c)
      BY <2>1
    <3>4. PICK j \in DOMAIN logins[r] : HoldsNewest(r, j, c)
      BY <3>1
    <3>2. CASE r = s0 /\ j = k0
      BY <3>4, <3>2 DEF HoldsNewest
    <3>3. CASE ~(r = s0 /\ j = k0)
      <4>1. Holds(r, j)' /\ asked'[r] = c
        BY <1>2, <3>4, <3>3, MoveHolds DEF HoldsNewest
      <4>2. Held(r, c)'
        BY <4>1 DEF Held
      <4> QED BY <4>2 DEF Coming, Bears
    <3> QED BY <3>2, <3>3
  <2>2. CASE ~ \E r \in Sessions : \E j \in DOMAIN logins[r] : HoldsNewest(r, j, c)
    BY <1>1, <2>2 DEF LoginPosts, Excepted
  <2> QED BY <2>1, <2>2
<1>9. ASSUME NEW a \in Accounts \ Excepted' PROVE Stored(a)'
  <2>1. Stored(a)
    BY <1>2, <1>9 DEF Delivered
  <2>2. ASSUME NEW n \in DOMAIN ui, Carries(ui[n], a) PROVE Stored(a)'
    BY <1>4, <2>2 DEF Stored, Carries, Wary
  <2>3. CASE a = c
    BY <1>3, <1>4, <2>3 DEF Stored, Carries, Wary
  <2> QED BY <1>2, <1>6, <2>1, <2>2, <2>3 DEF Stored
<1>10. ASSUME NEW k \in DOMAIN ui, Doom(ui[k])
       PROVE  k \in DOMAIN ui' /\ \E m : m = ui'[k] /\ Doom(m)'
  <2>1. PICK m : m = ui[k]
    OBVIOUS
  <2>2. k \in DOMAIN ui' /\ ui'[k] = m /\ Doom(m)'
    BY <1>4, <1>7, <1>10, <2>1
  <2> QED BY <2>2
<1>11. ASSUME NEW n \in DOMAIN ui', Wary(ui'[n]), ui'[n].acct.id \notin Excepted' PROVE Current(n)'
  <2>1. CASE n \in DOMAIN ui
    <3>1. Current(n) /\ ui'[n] = ui[n] /\ n < p /\ n \in Nat
      BY <1>2, <1>4, <1>11, <2>1 DEF Delivered
    <3>2. ASSUME NEW k \in DOMAIN ui, k > n, Carries(ui[k], ui[n].acct.id) PROVE Current(n)'
      BY <1>4, <3>1, <3>2 DEF Current, Carries, Wary
    <3>3. CASE ui[n].acct.id = c
      BY <1>3, <1>4, <3>1, <3>3 DEF Current, Carries, Wary
    <3>4. ASSUME NEW k \in DOMAIN ui, k <= n, Doom(ui[k]) PROVE Current(n)'
      BY <1>10, <3>4 DEF Current
    <3> QED BY <1>2, <1>6, <3>1, <3>2, <3>3, <3>4 DEF Current
  <2>2. CASE n = p
    BY <1>2, <1>3, <1>4, <1>8, <1>11, <2>2 DEF Current
  <2> QED BY <1>4, <2>1, <2>2
<1>12. ASSUME NEW s \in Sessions, Refreshed(s)', checking'[s].id \notin Excepted' PROVE Fresh(s)'
  <2>1. Refreshed(s) /\ s # s0 /\ Fresh(s)
    BY <1>2, <1>5, <1>12 DEF Delivered
  <2>2. ASSUME NEW r \in Sessions, r < s, Bears(r, checking[s].id) PROVE Fresh(s)'
    <3>1. CASE r = s0
      <4>1. Doomed(s0)
        BY <2>1, <2>2, <3>1, Opened DEF Doomed
      <4>2. Doom(x)'
        BY <1>3, <1>7, <4>1 DEF Doom, Carries, Wary
      <4> QED BY <1>4, <4>2 DEF Fresh
    <3>2. CASE r # s0
      <4>1. PICK a : a = checking[s].id
        OBVIOUS
      <4>2. Bears(r, a)'
        BY <1>5, <2>2, <3>2, <4>1
      <4> QED BY <1>2, <2>2, <4>1, <4>2 DEF Fresh
    <3> QED BY <3>1, <3>2
  <2>3. ASSUME NEW k \in DOMAIN ui, Doom(ui[k]) PROVE Fresh(s)'
    BY <1>10, <2>3 DEF Fresh
  <2> QED BY <1>2, <1>7, <2>1, <2>2, <2>3 DEF Fresh
<1> QED BY <1>9, <1>11, <1>12

\* The UI thread takes a message that brings an account and puts it in the list.
Handled ==
  LET m == Head(ui) IN
  /\ ui # <<>> /\ ui' = Tail(ui) /\ Wary(m)
  /\ UNCHANGED <<server, Excepted, dialog, check, checking, asked, logins, selected>>
  /\ stale' = (stale \/ Overtaken(m.s, m.acct))
  /\ \/ accounts' = Replaced(m.acct.id, m.acct)
     \/ accounts' = Replaced(account.id, m.acct)
  /\ account' = m.acct

LEMMA HandledDelivers ==
  ASSUME IInv, TInv, AInv, Handled PROVE AInv'
<1> SUFFICES ASSUME ~stale' PROVE
       /\ (\A i \in Accounts : accounts'[i].id = i) /\ account' = accounts'[selected']
       /\ \A a \in Accounts \ Excepted' : Stored(a)'
       /\ \A n \in DOMAIN ui' : Wary(ui'[n]) /\ ui'[n].acct.id \notin Excepted' => Current(n)'
       /\ \A s \in Sessions : Refreshed(s)' /\ checking'[s].id \notin Excepted' => Fresh(s)'
  BY DEF AInv, InPlace, Delivered, Wary
<1>1. PICK m : m = Head(ui)
  OBVIOUS
<1>2. /\ ui # <<>> /\ ui' = Tail(ui) /\ Wary(m)
      /\ UNCHANGED <<server, Excepted, dialog, check, checking, asked, logins, selected>>
      /\ ~stale /\ m.acct.id = selected /\ ~Doomed(m.s)
      /\ \/ accounts' = Replaced(m.acct.id, m.acct)
         \/ accounts' = Replaced(account.id, m.acct)
      /\ account' = m.acct
  BY <1>1 DEF Handled, Overtaken, Doomed
<1>3. /\ \A i \in Accounts : accounts[i].id = i
      /\ account = accounts[selected] /\ selected \in Accounts
  BY <1>2 DEF AInv, InPlace, TInv, Typed
<1>4. accounts' = [accounts EXCEPT ![selected] = m.acct]
  <2>1. accounts' = Replaced(selected, m.acct) /\ accounts = [i \in Accounts |-> accounts[i]]
    BY <1>2, <1>3 DEF TInv, Typed
  <2>2. \A i \in Accounts : \A j \in 1..(i - 1) : j \in Accounts /\ j # i
    BY LaunchAssumption DEF Accounts
  <2>3. Replaced(selected, m.acct) = [i \in Accounts |-> IF i = selected THEN m.acct ELSE accounts[i]]
    BY <1>3, <2>2 DEF Replaced
  <2> QED BY <2>1, <2>3
<1>5. /\ accounts'[selected] = m.acct
      /\ \A i \in Accounts : i # selected => accounts'[i] = accounts[i]
  BY <1>3, <1>4 DEF TInv, Typed
<1>6. /\ \A n \in DOMAIN ui' : n \in Nat \ {0} /\ n + 1 \in DOMAIN ui /\ ui'[n] = ui[n + 1]
      /\ \A k \in DOMAIN ui : k \in Nat \ {0} /\ (k # 1 => k - 1 \in DOMAIN ui' /\ ui'[k - 1] = ui[k])
      /\ ui[1] = m /\ 1 \in DOMAIN ui
  <2>1. PICK S : ui \in Seq(S)
    BY DEF IInv, Shape, IsSeq
  <2> QED BY <1>1, <1>2, <2>1
<1>7. /\ \A a : Coming(a)' = Coming(a)
      /\ \A s : Refreshed(s)' = Refreshed(s)
      /\ \A s : Doomed(s) => Doomed(s)'
      /\ \A k : Doom(k) => Doom(k)'
      /\ \A s \in Sessions : \A a : Bears(s, a)' = Bears(s, a)
  BY <1>2, DoomStays, StillHeld DEF Coming, Refreshed, Bears
<1>8. ~Doom(ui[1]) /\ ui[1].acct.id = selected
  BY <1>2, <1>6 DEF Doom
<1>9. ASSUME NEW a, NEW k \in DOMAIN ui, k # 1, Carries(ui[k], a)
      PROVE  k - 1 \in DOMAIN ui' /\ Carries(ui'[k - 1], a)
  BY <1>6, <1>9 DEF Carries
<1>10. ASSUME NEW a \in Accounts \ Excepted' PROVE Stored(a)'
  <2>1. Stored(a)
    BY <1>2, <1>10 DEF AInv, Delivered
  <2>2. ASSUME NEW k \in DOMAIN ui, k # 1, Carries(ui[k], a) PROVE Stored(a)'
    BY <1>9, <2>2 DEF Stored, Carries, Wary
  <2>3. CASE a = selected
    <3>1. Current(1)
      BY <1>2, <1>6, <1>8, <1>10, <2>3 DEF AInv, Delivered
    <3>2. CASE \E k \in DOMAIN ui : k > 1 /\ Carries(ui[k], a)
      BY <1>6, <2>2, <3>2
    <3>3. ~ \E k \in DOMAIN ui : k <= 1 /\ Doom(ui[k])
      BY <1>6, <1>8
    <3> QED BY <1>2, <1>5, <1>6, <1>7, <1>8, <2>3, <3>1, <3>2, <3>3 DEF Current, Stored
  <2>4. CASE a # selected
    <3>1. \A k \in DOMAIN ui : Carries(ui[k], a) => k # 1
      BY <1>8, <2>4 DEF Carries
    <3> QED BY <1>2, <1>5, <1>7, <2>1, <2>2, <2>4, <3>1 DEF Stored
  <2> QED BY <2>3, <2>4
<1>11. ASSUME NEW k \in DOMAIN ui, Doom(ui[k])
       PROVE  \E j \in DOMAIN ui' : j = k - 1 /\ (\E x : x = ui'[j] /\ Doom(x)')
  BY <1>6, <1>7, <1>8, <1>11
<1>12. ASSUME NEW n \in DOMAIN ui', Wary(ui'[n]), ui'[n].acct.id \notin Excepted' PROVE Current(n)'
  <2>1. n + 1 \in DOMAIN ui /\ ui'[n] = ui[n + 1] /\ n \in Nat \ {0}
    BY <1>6
  <2>2. PICK a : a = ui'[n].acct.id
    OBVIOUS
  <2>3. Current(n + 1)
    BY <1>2, <1>12, <2>1 DEF AInv, Delivered
  <2>4. ASSUME NEW k \in DOMAIN ui, k > n + 1, Carries(ui[k], a) PROVE Current(n)'
    <3>1. k - 1 \in DOMAIN ui' /\ k - 1 > n /\ Carries(ui'[k - 1], a)
      BY <1>6, <1>9, <2>1, <2>4
    <3> QED BY <2>2, <3>1 DEF Current, Carries, Wary
  <2>5. ASSUME NEW k \in DOMAIN ui, k <= n + 1, Doom(ui[k]) PROVE Current(n)'
    <3>1. PICK j \in DOMAIN ui' : j = k - 1 /\ (\E x : x = ui'[j] /\ Doom(x)')
      BY <1>11, <2>5
    <3>2. j <= n
      BY <1>6, <2>1, <2>5, <3>1
    <3> QED BY <3>1, <3>2 DEF Current
  <2> QED BY <1>2, <1>7, <2>1, <2>2, <2>3, <2>4, <2>5 DEF Current
<1>13. ASSUME NEW s \in Sessions, Refreshed(s)', checking'[s].id \notin Excepted' PROVE Fresh(s)'
  <2>1. Fresh(s)
    BY <1>2, <1>7, <1>13 DEF AInv, Delivered
  <2>2. ASSUME NEW k \in DOMAIN ui, Doom(ui[k]) PROVE Fresh(s)'
    BY <1>11, <2>2 DEF Fresh
  <2>3. PICK a : a = checking[s].id
    OBVIOUS
  <2>4. \A r \in Sessions : Bears(r, a) => Bears(r, a)'
    BY <1>7
  <2> QED BY <1>2, <1>7, <2>1, <2>2, <2>3, <2>4 DEF Fresh
<1>14. (\A i \in Accounts : accounts'[i].id = i) /\ account' = accounts'[selected']
  BY <1>2, <1>3, <1>5
<1> QED BY <1>10, <1>12, <1>13, <1>14

\* Every other step is quiet and leaves the selected account where it is.
Rests == Quiet /\ UNCHANGED <<account, selected>>

LEMMA RestsKeep == ASSUME IInv, IInv', TInv', AInv, Rests PROVE AInv'
<1>1. Delivered'
  BY QuietDelivers DEF AInv, Rests
<1>2. InPlace'
  BY DEF AInv, Rests, Quiet, InPlace
<1> QED BY <1>1, <1>2 DEF AInv

\* A step that leaves the checks of accounts and the messages about them alone.
LEMMA StillRests ==
  ASSUME IInv, UNCHANGED <<account, selected, accounts, server, Excepted, stale, checking>>,
         \A s \in Sessions : \A a : Held(s, a) => Held(s, a)',
         \A s \in Sessions : dialog[s] # "none" => dialog'[s] # "none",
         \A s \in Sessions : Refreshed(s)' = Refreshed(s),
         \E d \in {0, 1} : Shifted(d)
  PROVE  Rests
BY DEF Rests, Quiet

LEMMA Dismissed ==
  ASSUME IInv, UNCHANGED dialog \/ \E s0 : dialog' = [dialog EXCEPT ![s0] = "gone"]
  PROVE  \A s \in Sessions : dialog[s] # "none" => dialog'[s] # "none"
BY DEF IInv, Shape

LEMMA Shifts ==
  ASSUME IInv
  PROVE  /\ UNCHANGED ui => Shifted(0)
         /\ \A x : Post(x) /\ ~Wary(x) => Shifted(0)
         /\ ui # <<>> /\ ui' = Tail(ui) /\ ~Wary(Head(ui)) => Shifted(1)
BY SameShift, PostShift, TakeShift

\* A session whose log-in check is not over asked for no password.
LEMMA NotAsked ==
  ASSUME IInv, NEW s \in Sessions
  PROVE  /\ check[s]["login"] # "finished" => relogin[s] = "none"
         /\ relogin[s] = "none" => logins[s] = <<>>
         /\ relogin[s] # "none" => dialog[s] # "none"
         /\ check[s]["login"] # "none" => dialog[s] # "none"
BY NotLogin DEF IInv, Stages, Stage

LEMMA Asks ==
  ASSUME IInv, TInv, onFinish, AskPassword(Head(ui).s), Head(ui).outcome = "relogin"
  PROVE  \A s \in Sessions : logins[s] # <<>> => asked'[s] = asked[s]
<1>1. PICK s0 : s0 = Head(ui).s
  OBVIOUS
<1>2. s0 \in Sessions /\ check[s0]["login"] = "posted"
  <2>1. Taken(s0, Head(ui).check) /\ Head(ui).check = "login"
    BY <1>1, ResultTaken
  <2> QED BY <2>1 DEF Taken
<1>3. logins[s0] = <<>>
  BY <1>2, NotAsked
<1>4. UNCHANGED asked \/ asked' = [asked EXCEPT ![s0] = account.id]
  BY <1>1 DEF AskPassword
<1> QED BY <1>3, <1>4 DEF TInv, Typed

LEMMA AskedStays ==
  ASSUME IInv, TInv, UIThread
  PROVE  \A s \in Sessions : logins[s] # <<>> => asked'[s] = asked[s]
<1> USE DEF loginVars
<1>1. CASE onFinish /\ AskPassword(Head(ui).s) /\ Head(ui).outcome = "relogin"
  BY <1>1, Asks
<1>2. CASE UNCHANGED asked
  BY <1>2
<1> QED BY <1>1, <1>2 DEF UIThread, onFinish, saveAccount, onRelogin, setButtons,
           startGame, Passes, throwException

LEMMA HandlerKeepsTokens ==
  ASSUME IInv, IInv', TInv, TInv', AInv, UIThread PROVE AInv'
<1> USE DEF checkVars, loginVars, history
<1>1. CASE saveAccount
  <2>1. Handled
    BY <1>1 DEF saveAccount, Handled, Message, Wary, Excepted
  <2> QED BY <2>1, HandledDelivers
<1>2. CASE onRelogin
  <2>1. Handled
    BY <1>2 DEF onRelogin, Handled, Message, Wary, Excepted
  <2> QED BY <2>1, HandledDelivers
<1>3. CASE onFinish
  <2>1. PICK s0, c0 : s0 = Head(ui).s /\ c0 = Head(ui).check
    OBVIOUS
  <2>2. /\ ui # <<>> /\ ui' = Tail(ui) /\ ~Wary(Head(ui))
        /\ check' = [check EXCEPT ![s0][c0] = "finished"]
        /\ UNCHANGED <<account, accounts, server, checking, selected, Excepted, stale, logins>>
    BY <1>3, <2>1 DEF onFinish, Message, Wary, Excepted
  <2>3. check[s0][c0] = "posted" /\ s0 \in Sessions /\ c0 \in Checks
    BY <1>3, <2>1, ResultTaken DEF Taken
  <2>4. \A s \in Sessions : Refreshed(s)' = Refreshed(s)
    BY <2>2, <2>3, NotLogin DEF Refreshed, TInv, Typed
  <2>5. UNCHANGED dialog \/ dialog' = [dialog EXCEPT ![s0] = "gone"]
    BY <1>3, <2>1 DEF onFinish, Passes, throwException, exit, AskPassword
  <2>6. \A s \in Sessions : dialog[s] # "none" => dialog'[s] # "none"
    BY <2>5, Dismissed
  <2>7. \E d \in {0, 1} : Shifted(d)
    BY <2>2, Shifts
  <2>9. \A s \in Sessions : \A a : Held(s, a) => Held(s, a)'
    <3>1. \A s \in Sessions : logins[s] # <<>> => asked'[s] = asked[s]
      BY <1>3, AskedStays DEF UIThread
    <3>2. \A s \in Sessions : \A a : Held(s, a) => logins[s] # <<>>
      BY DEF Held, Holds
    <3> QED BY <2>2, <3>1, <3>2, StillHeld
  <2>8. Rests
    BY <2>2, <2>4, <2>6, <2>7, <2>9, StillRests
  <2> QED BY <2>8, RestsKeep
<1>4. CASE setButtons \/ startGame
  <2>1. /\ ui # <<>> /\ ui' = Tail(ui) /\ ~Wary(Head(ui))
        /\ UNCHANGED <<account, accounts, server, check, checking, selected, Excepted, stale>>
        /\ UNCHANGED <<asked, logins>>
    BY <1>4 DEF setButtons, startGame, Message, Wary, Excepted
  <2>2. UNCHANGED dialog \/ \E s0 : dialog' = [dialog EXCEPT ![s0] = "gone"]
    BY <1>4 DEF setButtons, startGame
  <2>3. \A s \in Sessions : Refreshed(s)' = Refreshed(s)
    BY <2>1 DEF Refreshed
  <2>4. \A s \in Sessions : dialog[s] # "none" => dialog'[s] # "none"
    BY <2>2, Dismissed
  <2>5. \E d \in {0, 1} : Shifted(d)
    BY <2>1, Shifts
  <2>6. Rests
    BY <2>1, <2>3, <2>4, <2>5, StillRests, StillHeld
  <2> QED BY <2>6, RestsKeep
<1> QED BY <1>1, <1>2, <1>3, <1>4 DEF UIThread

LEMMA ClickHolds ==
  ASSUME IInv, NEW s0 \in Sessions, ReloginClick(s0)
  PROVE  \A s \in Sessions : \A a : Held(s, a) => Held(s, a)'
<1>1. UNCHANGED asked /\ logins' = [logins EXCEPT ![s0] = Append(@, "new")]
  BY DEF ReloginClick
<1>2. \A s \in Sessions : s # s0 => logins'[s] = logins[s]
  BY <1>1 DEF IInv, Shape
<1>3. \A k \in DOMAIN logins[s0] : k \in DOMAIN logins'[s0] /\ logins'[s0][k] = logins[s0][k]
  <2>1. logins'[s0] = Append(logins[s0], "new")
    BY <1>1 DEF IInv, Shape
  <2>2. /\ DOMAIN logins[s0] = 1..Len(logins[s0]) /\ Len(logins[s0]) \in Nat
        /\ DOMAIN Append(logins[s0], "new") = 1..(Len(logins[s0]) + 1)
        /\ \A n \in DOMAIN logins[s0] : Append(logins[s0], "new")[n] = logins[s0][n]
    BY Appended DEF IInv, Shape
  <2> QED BY <2>1, <2>2
<1> QED BY <1>1, <1>2, <1>3 DEF Held, Holds

LEMMA UserKeepsTokens ==
  ASSUME IInv, IInv', TInv, TInv', AInv, User PROVE AInv'
<1> USE DEF checkVars, loginVars, history
<1>1. ASSUME NEW i \in Accounts, SelectAccount(i) PROVE AInv'
  <2>1. /\ account' = accounts[i] /\ selected' = accounts[i].id
        /\ UNCHANGED <<accounts, server, ui, dialog, check, checking, Excepted, stale>>
        /\ UNCHANGED <<asked, logins>>
    BY <1>1 DEF SelectAccount, Excepted
  <2>2. InPlace'
    BY <2>1 DEF AInv, InPlace
  <2>3. Quiet
    BY <2>1, Shifts, StillHeld DEF Quiet, Refreshed
  <2> QED BY <2>2, <2>3, QuietDelivers DEF AInv
<1>2. ASSUME NEW s0 \in Sessions, startCheckTasks(s0) PROVE AInv'
  <2>1. /\ dialog[s0] = "none" /\ dialog' = [dialog EXCEPT ![s0] = "shown"]
        /\ check' = [check EXCEPT ![s0] = [c \in Checks |-> "running"]]
        /\ checking' = [checking EXCEPT ![s0] = account]
        /\ UNCHANGED <<account, accounts, server, ui, selected, Excepted, stale, asked, logins>>
    BY <1>2 DEF startCheckTasks, Excepted
  <2>2. \A s \in Sessions : /\ Refreshed(s)' = Refreshed(s)
                            /\ Refreshed(s) => checking'[s] = checking[s]
                            /\ dialog[s] # "none" => dialog'[s] # "none"
    <3>1. ~Refreshed(s0)
      BY <2>1, Opened
    <3>2. ~Refreshed(s0)'
      BY <2>1, NotLogin DEF Refreshed, IInv, Shape
    <3>3. \A s \in Sessions : s # s0 => /\ check'[s] = check[s] /\ checking'[s] = checking[s]
                                        /\ dialog'[s] = dialog[s]
      BY <2>1 DEF TInv, Typed
    <3> QED BY <2>1, <3>1, <3>2, <3>3 DEF Refreshed
  <2>3. Rests
    BY <2>1, <2>2, Shifts, StillHeld DEF Rests, Quiet
  <2> QED BY <2>3, RestsKeep
<1>3. ASSUME NEW s0 \in Sessions, CancelClick(s0) \/ ReloginClick(s0) \/ ReloginCancelClick(s0)
      PROVE  AInv'
  <2>1. /\ UNCHANGED <<account, accounts, server, ui, check, checking, selected, Excepted, stale>>
        /\ UNCHANGED dialog \/ dialog' = [dialog EXCEPT ![s0] = "gone"]
    BY <1>3 DEF CancelClick, ReloginClick, ReloginCancelClick, exit, Excepted
  <2>2. \A s \in Sessions : Refreshed(s)' = Refreshed(s)
    BY <2>1 DEF Refreshed
  <2>3. \A s \in Sessions : dialog[s] # "none" => dialog'[s] # "none"
    BY <2>1, Dismissed
  <2>4. \E d \in {0, 1} : Shifted(d)
    BY <2>1, Shifts
  <2>6. \A s \in Sessions : \A a : Held(s, a) => Held(s, a)'
    <3>1. CASE UNCHANGED <<asked, logins>>
      BY <3>1, StillHeld
    <3>2. CASE ReloginClick(s0)
      BY <3>2, ClickHolds
    <3> QED BY <1>3, <3>1, <3>2 DEF CancelClick, ReloginCancelClick
  <2>5. Rests
    BY <2>1, <2>2, <2>3, <2>4, <2>6, StillRests
  <2> QED BY <2>5, RestsKeep
<1> QED BY <1>1, <1>2, <1>3 DEF User

LEMMA BackgroundKeepsTokens ==
  ASSUME IInv, IInv', TInv, TInv', AInv, NEW s0 \in Sessions, Background(s0) PROVE AInv'
<1> USE DEF checkVars, loginVars, history
<1>1. ASSUME NEW c, NEW e, Returns(s0, c, e)
      PROVE  /\ \E d \in {0, 1} : Shifted(d)
             /\ \E v \in {"finished", "posted"} : check' = [check EXCEPT ![s0][c] = v]
  <2>1. UNCHANGED ui \/ Post(Result(s0, c, e))
    BY <1>1 DEF Returns
  <2> QED BY <1>1, <2>1, Shifts, Plain DEF Returns
<1>2. ASSUME NEW c, NEW e, Returns(s0, c, e), check[s0][c] # "refreshed" \/ c # "login",
             UNCHANGED <<account, selected, accounts, server, stale, checking, dialog>>,
             UNCHANGED <<dropped, crossed, asked, logins>>
      PROVE  AInv'
  <2>1. PICK v \in {"finished", "posted"} : check' = [check EXCEPT ![s0][c] = v]
    BY <1>1, <1>2
  <2>2. \A s \in Sessions : check'[s]["login"] =
                             IF s = s0 /\ c = "login" THEN v ELSE check[s]["login"]
    BY <2>1, NotLogin DEF TInv, Typed
  <2>3. \A s \in Sessions : Refreshed(s)' = Refreshed(s)
    BY <1>2, <2>2 DEF Refreshed
  <2>4. Rests
    BY <1>1, <1>2, <2>3, StillRests, StillHeld DEF Excepted
  <2> QED BY <2>4, RestsKeep
<1>3. ASSUME NEW c \in FileChecks, CheckEnds(s0, c) PROVE AInv'
  BY <1>2, <1>3, NotLogin DEF CheckEnds
<1>4. CASE CheckAccount(s0)
  <2>1. CASE TokenRefreshed(s0)
    <3>1. Delivered'
      BY <1>4, <2>1, RefreshDelivers DEF AInv
    <3>2. InPlace'
      BY <1>4 DEF CheckAccount, AInv, InPlace
    <3> QED BY <3>1, <3>2 DEF AInv
  <2>2. CASE OfflineAccount(s0) \/ LoginFails(s0)
    BY <1>2, <1>4, <2>2 DEF CheckAccount, OfflineAccount, LoginFails
  <2> QED BY <1>4, <2>1, <2>2 DEF CheckAccount
<1>5. CASE PostSave(s0)
  <2>1. Delivered'
    BY <1>5, SaveDelivers DEF AInv
  <2>2. InPlace'
    BY <1>5 DEF PostSave, AInv, InPlace
  <2> QED BY <2>1, <2>2 DEF AInv
<1>6. CASE DropToken(s0)
  <2>1. PICK e : Returns(s0, "login", e)
    BY <1>6 DEF DropToken
  <2>2. /\ dropped' = dropped \cup {checking[s0].id} /\ Refreshed(s0)
        /\ UNCHANGED <<account, selected, accounts, server, stale, checking, dialog>>
        /\ UNCHANGED <<crossed, asked, logins>>
    BY <1>6 DEF DropToken, Refreshed
  <2>3. PICK v \in {"finished", "posted"} : check' = [check EXCEPT ![s0]["login"] = v]
    BY <1>1, <2>1
  <2>4. \A s \in Sessions : check'[s]["login"] = IF s = s0 THEN v ELSE check[s]["login"]
    BY <2>3, NotLogin DEF TInv, Typed
  <2>5. \A s \in Sessions : Refreshed(s)' = (Refreshed(s) /\ s # s0)
    BY <2>4 DEF Refreshed
  <2>6. Rests
    BY <1>1, <2>1, <2>2, <2>5, StillHeld DEF Rests, Quiet, Excepted
  <2> QED BY <2>6, RestsKeep
<1>7. CASE CheckAccountReturns(s0)
  BY <1>2, <1>7 DEF CheckAccountReturns
<1>8. ASSUME NEW k, LoginBegins(s0, k) \/ LoginEnds(s0, k) \/ LoginRefused(s0, k) PROVE AInv'
  <2>1. /\ UNCHANGED ui \/ \E x : Post(x) /\ ~Wary(x)
        /\ UNCHANGED <<account, selected, accounts, server, stale, checking, check, dialog>>
        /\ UNCHANGED <<dropped, crossed, asked>>
    BY <1>8, Plain DEF LoginBegins, LoginEnds, LoginRefused
  <2>2. \A s \in Sessions : Refreshed(s)' = Refreshed(s)
    BY <2>1 DEF Refreshed
  <2>3. PICK from, to : LoginMoves(s0, k, from, to) /\ from # "authenticated"
    <3>1. \/ LoginMoves(s0, k, "new", "authenticating")
          \/ LoginMoves(s0, k, "authenticating", "answered")
          \/ LoginMoves(s0, k, "answered", "ended")
      BY <1>8 DEF LoginBegins, LoginEnds, LoginRefused
    <3> QED BY <3>1
  <2>4. \A s \in Sessions : \A a : Held(s, a) => Held(s, a)'
    BY <2>1, <2>3, MoveHolds
  <2>5. Rests
    BY <2>1, <2>2, <2>4, Shifts, StillRests DEF Excepted
  <2> QED BY <2>5, RestsKeep
<1>9. ASSUME NEW k, LoginAuthenticates(s0, k) PROVE AInv'
  <2>1. Delivered'
    BY <1>9, LoginDelivers DEF AInv
  <2>2. InPlace'
    BY <1>9 DEF LoginAuthenticates, AInv, InPlace
  <2> QED BY <2>1, <2>2 DEF AInv
<1>10. ASSUME NEW k, LoginPosts(s0, k) PROVE AInv'
  <2>1. Delivered'
    BY <1>10, PostDelivers DEF AInv
  <2>2. InPlace'
    BY <1>10 DEF LoginPosts, AInv, InPlace
  <2> QED BY <2>1, <2>2 DEF AInv
<1>11. ASSUME NEW k, LoginDrops(s0, k) PROVE AInv'
  <2>1. /\ UNCHANGED <<account, selected, accounts, server, ui, stale, checking, check, dialog>>
        /\ UNCHANGED <<crossed, asked>> /\ dropped' = dropped \cup {asked[s0]}
        /\ LoginMoves(s0, k, "authenticated", "answered")
    BY <1>11 DEF LoginDrops
  <2>2. \A s \in Sessions : Refreshed(s)' = Refreshed(s)
    BY <2>1 DEF Refreshed
  <2>3. \A s \in Sessions : \A a : Held(s, a) /\ a \notin Excepted' => Held(s, a)'
    <3>1. \A a : Held(s0, a) => a \in Excepted'
      BY <2>1 DEF Held, Excepted
    <3> QED BY <2>1, <3>1, MoveHolds
  <2>4. Excepted \subseteq Excepted'
    BY <2>1 DEF Excepted
  <2>5. Rests
    BY <2>1, <2>2, <2>3, <2>4, Shifts DEF Rests, Quiet
  <2> QED BY <2>5, RestsKeep
<1>12. ASSUME NEW k, LaunchTask(s0, k) PROVE AInv'
  <2>1. /\ \E x : Post(x) /\ ~Wary(x)
        /\ UNCHANGED <<account, selected, accounts, server, stale, checking, check, dialog>>
        /\ UNCHANGED <<dropped, crossed, asked, logins>>
    BY <1>12, Plain DEF LaunchTask
  <2>2. \A s \in Sessions : Refreshed(s)' = Refreshed(s)
    BY <2>1 DEF Refreshed
  <2>3. Rests
    BY <2>1, <2>2, Shifts, StillRests, StillHeld DEF Excepted
  <2> QED BY <2>3, RestsKeep
<1> QED BY <1>3, <1>4, <1>5, <1>6, <1>7, <1>8, <1>9, <1>10, <1>11, <1>12
       DEF Background, ReloginThread

LEMMA TokensInductive == IInv /\ TInv /\ AInv /\ [Next]_vars => AInv'
<1> SUFFICES ASSUME IInv, TInv, AInv, [Next]_vars PROVE AInv'
  OBVIOUS
<1>1. IInv' /\ TInv'
  BY Inductive, TypesInductive
<1>2. CASE UNCHANGED vars
  <2>1. /\ UNCHANGED <<account, selected, accounts, server, ui, stale, checking, check, dialog>>
        /\ UNCHANGED <<dropped, crossed, asked, logins>>
    BY <1>2 DEF vars, checkVars, loginVars, history
  <2>2. Rests
    BY <2>1, Shifts, StillRests, StillHeld DEF Refreshed, Excepted
  <2> QED BY <1>1, <2>2, RestsKeep
<1> QED BY <1>1, <1>2, HandlerKeepsTokens, UserKeepsTokens, BackgroundKeepsTokens DEF Next

LEMMA TokensInitially == Init => AInv
<1> SUFFICES ASSUME Init PROVE AInv
  OBVIOUS
<1>1. /\ DOMAIN ui = {} /\ account.id \in Accounts /\ account.token = 0
      /\ account = [id |-> account.id, token |-> 0]
  BY DEF Init
<1>2. \A s \in Sessions : ~Refreshed(s)
  BY NotLogin DEF Init, Refreshed
<1>3. \A a \in Accounts : accounts[a].token = server[a] /\ accounts[a].id = a
  BY DEF Init
<1>4. account = accounts[selected]
  BY <1>1 DEF Init
<1> QED BY <1>1, <1>2, <1>3, <1>4 DEF AInv, InPlace, Delivered, Stored

\* Saving what the checks and the log-ins of several dialogs bring, in any
\* order, replaces no other account of the list and loses no token, unless a
\* session was overtaken, a token thrown away, or an older one posted last.
THEOREM AccountsAreSafe == Spec => []AccountsSafe
<1>1. TInv /\ AInv => AccountsSafe
  <2> SUFFICES ASSUME TInv, AInv PROVE AccountsSafe
    OBVIOUS
  <2>1. CASE stale
    BY <2>1 DEF AccountsSafe, TokenNotLost, AccountsKept
  <2>2. CASE ~stale
    <3>1. /\ \A i \in Accounts : accounts[i].id = i
          /\ account = accounts[selected] /\ selected \in Accounts
      BY <2>2 DEF AInv, InPlace, TInv, Typed
    <3>2. AccountsKept
      BY <3>1 DEF AccountsKept
    <3>3. \A i \in Accounts \ Excepted : Stored(i)
      BY <2>2 DEF AInv, Delivered
    <3>4. \A s \in Sessions : \A a :
            Held(s, a) => asked[s] = a /\ \E k \in DOMAIN logins[s] : Holds(s, k)
      BY DEF Held, Holds
    <3>5. TokenNotLost
      BY <3>1, <3>3, <3>4
         DEF TokenNotLost, Stored, Coming, Bears, Refreshed, Carries, Wary, Excepted
    <3> QED BY <3>2, <3>5 DEF AccountsSafe
  <2> QED BY <2>1, <2>2
<1> QED BY <1>1, Initially, Inductive, TypesInitially, TypesInductive,
           TokensInitially, TokensInductive, PTL DEF Spec

-----------------------------------------------------------------------------
\* Sessions open one after the other, and no token is newer than its server

\* A newer session is only opened when the older ones were ended.
Successive == \A r, s \in Sessions :
  r < s /\ dialog[s] # "none" => dialog[r] = "gone" /\ r \in exited

\* An open dialog checks the account that is selected.
Matching == ~stale => \A s \in Sessions : dialog[s] = "shown" => checking[s].id = selected

Known(A) == A.token <= server[A.id]

\* An account that is somewhere.
Around(A) ==
  \/ A = account
  \/ \E i \in Accounts : A = accounts[i]
  \/ \E s \in Sessions : A = checking[s]
  \/ \E n \in DOMAIN ui : Wary(ui[n]) /\ A = ui[n].acct

\* No token is newer than the one its server accepts.
KnownTokens == \A A : Around(A) => Known(A)

\* A message of accounts is of a session that was opened.
Signed == \A n \in DOMAIN ui : Wary(ui[n]) => dialog[ui[n].s] # "none"

OInv == Successive /\ Matching /\ KnownTokens /\ Signed

\* What every step does.
Onward ==
  /\ dropped \subseteq dropped' /\ (stale => stale') /\ exited \subseteq exited'
  /\ \A a \in Accounts : server'[a] \in Nat /\ server[a] \in Nat /\ server[a] <= server'[a]
  /\ \A s \in Sessions :
       /\ dialog[s] # "none" => dialog'[s] # "none"
       /\ Len(logins[s]) \in Nat /\ Len(logins'[s]) \in Nat /\ Len(logins[s]) <= Len(logins'[s])
       /\ logins[s] # <<>> => logins'[s] # <<>> /\ asked'[s] = asked[s]

LEMMA ServerGrows ==
  ASSUME TInv, NEW c, UNCHANGED server \/ server' = [server EXCEPT ![c] = @ + 1]
  PROVE  \A a \in Accounts : server'[a] \in Nat /\ server[a] \in Nat /\ server[a] <= server'[a]
<1>1. \A a \in Accounts : server[a] \in Nat
  BY LaunchAssumption DEF TInv, Typed
<1>2. \A a \in Accounts : server'[a] = server[a] \/ server'[a] = server[a] + 1
  BY DEF TInv, Typed
<1> QED BY <1>1, <1>2

LEMMA LoginsGrow ==
  ASSUME IInv, NEW s0 \in Sessions,
         \/ UNCHANGED logins
         \/ logins' = [logins EXCEPT ![s0] = Append(@, "new")]
         \/ \E k, from, to : LoginMoves(s0, k, from, to)
  PROVE  \A s \in Sessions :
           /\ Len(logins[s]) \in Nat /\ Len(logins'[s]) \in Nat /\ Len(logins[s]) <= Len(logins'[s])
           /\ logins[s] # <<>> => logins'[s] # <<>>
<1>1. /\ logins = [s \in Sessions |-> logins[s]]
      /\ \A s \in Sessions : IsSeq(logins[s]) /\ Len(logins[s]) \in Nat
  BY Appended DEF IInv, Shape
<1>2. CASE UNCHANGED logins
  BY <1>1, <1>2
<1>3. CASE logins' = [logins EXCEPT ![s0] = Append(@, "new")]
  <2>1. Append(logins[s0], "new") # <<>> /\ Len(Append(logins[s0], "new")) = Len(logins[s0]) + 1
    BY <1>1, Appended
  <2> QED BY <1>1, <1>3, <2>1
<1>4. CASE \E k, from, to : LoginMoves(s0, k, from, to)
  <2>1. PICK k, to : k \in DOMAIN logins[s0] /\ logins' = [logins EXCEPT ![s0][k] = to]
    BY <1>4 DEF LoginMoves
  <2> DEFINE q == [logins[s0] EXCEPT ![k] = to]
  <2>2. q # <<>> /\ Len(q) = Len(logins[s0])
    BY <1>1, <2>1, Updated
  <2>3. logins'[s0] = q /\ \A s \in Sessions \ {s0} : logins'[s] = logins[s]
    BY <1>1, <2>1
  <2> HIDE DEF q
  <2> QED BY <1>1, <2>2, <2>3
<1> QED BY <1>2, <1>3, <1>4

LEMMA Progress == ASSUME IInv, TInv, Next PROVE Onward
<1> USE DEF checkVars, loginVars, history
<1>1. ASSUME /\ dropped \subseteq dropped' /\ (stale => stale') /\ exited \subseteq exited'
             /\ UNCHANGED server \/ \E c : server' = [server EXCEPT ![c] = @ + 1]
             /\ \A s \in Sessions : dialog[s] # "none" => dialog'[s] # "none"
             /\ \/ UNCHANGED logins
                \/ \E s0 \in Sessions : \/ logins' = [logins EXCEPT ![s0] = Append(@, "new")]
                                        \/ \E k, from, to : LoginMoves(s0, k, from, to)
             /\ \A s \in Sessions : logins[s] # <<>> => asked'[s] = asked[s]
      PROVE  Onward
  <2>1. \A a \in Accounts : server'[a] \in Nat /\ server[a] \in Nat /\ server[a] <= server'[a]
    BY <1>1, ServerGrows
  <2>2. \A s \in Sessions :
           /\ Len(logins[s]) \in Nat /\ Len(logins'[s]) \in Nat /\ Len(logins[s]) <= Len(logins'[s])
           /\ logins[s] # <<>> => logins'[s] # <<>>
    BY <1>1, LoginsGrow
  <2> QED BY <1>1, <2>1, <2>2 DEF Onward
<1>2. CASE UIThread
  <2>1. UNCHANGED <<server, logins, dropped>> /\ (stale => stale')
    <3>1. CASE onFinish
      BY <3>1 DEF onFinish
    <3>2. CASE saveAccount
      BY <3>2 DEF saveAccount
    <3>3. CASE onRelogin
      BY <3>3 DEF onRelogin
    <3>4. CASE setButtons \/ startGame
      BY <3>4 DEF setButtons, startGame
    <3> QED BY <1>2, <3>1, <3>2, <3>3, <3>4 DEF UIThread
  <2>2. /\ exited \subseteq exited'
        /\ UNCHANGED dialog \/ \E s0 : dialog' = [dialog EXCEPT ![s0] = "gone"]
    <3>1. CASE onFinish
      <4>1. PICK s0 : s0 = Head(ui).s
        OBVIOUS
      <4>2. UNCHANGED <<dialog, exited>> \/ exit(s0)
        BY <3>1, <4>1 DEF onFinish, Passes, throwException, AskPassword
      <4> QED BY <4>2 DEF exit
    <3>2. CASE saveAccount \/ onRelogin \/ setButtons
      BY <3>2 DEF saveAccount, onRelogin, setButtons
    <3>3. CASE startGame
      BY <3>3 DEF startGame
    <3> QED BY <1>2, <3>1, <3>2, <3>3 DEF UIThread
  <2>3. \A s \in Sessions : logins[s] # <<>> => asked'[s] = asked[s]
    BY <1>2, AskedStays
  <2> QED BY <1>1, <2>1, <2>2, <2>3, Dismissed
<1>3. CASE User
  <2>1. ASSUME NEW s0 \in Sessions, startCheckTasks(s0) PROVE Onward
    <3>1. /\ dialog' = [dialog EXCEPT ![s0] = "shown"]
          /\ UNCHANGED <<server, logins, asked, exited, dropped, stale>>
      BY <2>1 DEF startCheckTasks
    <3>2. \A s \in Sessions : dialog[s] # "none" => dialog'[s] # "none"
      BY <3>1 DEF TInv, Typed
    <3> QED BY <1>1, <3>1, <3>2
  <2>2. ASSUME NEW s0 \in Sessions, ReloginClick(s0) PROVE Onward
    BY <1>1, <2>2 DEF ReloginClick
  <2>3. CASE \/ \E i \in Accounts : SelectAccount(i)
             \/ \E s0 \in Sessions : CancelClick(s0) \/ ReloginCancelClick(s0)
    <3>1. /\ UNCHANGED <<server, logins, asked, dropped, stale>> /\ exited \subseteq exited'
          /\ UNCHANGED dialog \/ \E s0 : dialog' = [dialog EXCEPT ![s0] = "gone"]
      BY <2>3 DEF SelectAccount, CancelClick, ReloginCancelClick, exit
    <3> QED BY <1>1, <3>1, Dismissed
  <2> QED BY <1>3, <2>1, <2>2, <2>3 DEF User
<1>4. ASSUME NEW s0 \in Sessions, Background(s0) PROVE Onward
  <2>1. /\ UNCHANGED <<asked, dialog, exited, stale>> /\ dropped \subseteq dropped'
        /\ UNCHANGED server \/ \E c : server' = [server EXCEPT ![c] = @ + 1]
        /\ UNCHANGED logins \/ \E k, from, to : LoginMoves(s0, k, from, to)
    BY <1>4 DEF Background, CheckEnds, CheckAccount, OfflineAccount, LoginFails, TokenRefreshed,
                PostSave, DropToken, CheckAccountReturns, ReloginThread, LoginBegins,
                LoginAuthenticates, LoginPosts, LoginDrops, LoginRefused, LoginEnds, LaunchTask
  <2> QED BY <1>1, <2>1
<1> QED BY <1>2, <1>3, <1>4 DEF Next

-----------------------------------------------------------------------------
\* The tokens the log-in threads hold

Given(s, k) == [id |-> asked[s], token |-> given[s][k]]

\* What they hold, they held.
HeldStays(s) == \A k \in 1..MaxLogins : Holds(s, k)' => Holds(s, k) /\ Given(s, k)' = Given(s, k)

\* The server knows what they hold.
HInv == \A s \in Sessions : \A k \in 1..MaxLogins : Holds(s, k) => Known(Given(s, k))

LEMMA GivenTyped ==
  ASSUME TInv, NEW s \in Sessions, NEW k \in 1..MaxLogins PROVE Given(s, k) \in AccountRecs
<1>1. asked[s] \in Accounts /\ given[s] \in [1..MaxLogins -> 0..MaxToken]
  BY DEF TInv, Typed
<1>2. given[s][k] \in 0..MaxToken
  BY <1>1
<1> QED BY <1>1, <1>2 DEF Given, AccountRecs

LEMMA HoldsLogin == ASSUME IInv, NEW s \in Sessions, NEW k, Holds(s, k) PROVE logins[s] # <<>>
<1>1. IsSeq(logins[s]) /\ k \in DOMAIN logins[s]
  BY DEF IInv, Shape, Holds
<1>2. DOMAIN logins[s] = 1..Len(logins[s])
  BY <1>1, Appended
<1> QED BY <1>1, <1>2

LEMMA HeldStill ==
  ASSUME IInv, Onward, UNCHANGED <<logins, given>>
  PROVE  \A s \in Sessions : HeldStays(s)
<1> SUFFICES ASSUME NEW s \in Sessions, NEW k \in 1..MaxLogins, Holds(s, k)'
             PROVE  Holds(s, k) /\ Given(s, k)' = Given(s, k)
  BY DEF HeldStays
<1>1. Holds(s, k)
  BY DEF Holds
<1>2. asked'[s] = asked[s]
  BY <1>1, HoldsLogin DEF Onward
<1> QED BY <1>1, <1>2 DEF Given

LEMMA HeldClick ==
  ASSUME IInv, NEW s0 \in Sessions, ReloginClick(s0)
  PROVE  \A s \in Sessions : HeldStays(s)
<1>1. UNCHANGED <<asked, given>> /\ logins' = [logins EXCEPT ![s0] = Append(@, "new")]
  BY DEF ReloginClick
<1> SUFFICES ASSUME NEW s \in Sessions, NEW k \in 1..MaxLogins, Holds(s, k)' PROVE Holds(s, k)
  BY <1>1 DEF HeldStays, Given
<1>2. CASE s # s0
  BY <1>1, <1>2 DEF Holds, IInv, Shape
<1>3. CASE s = s0
  <2>1. logins'[s] = Append(logins[s], "new")
    BY <1>1, <1>3 DEF IInv, Shape
  <2>2. /\ DOMAIN logins[s] = 1..Len(logins[s]) /\ Len(logins[s]) \in Nat
        /\ DOMAIN Append(logins[s], "new") = 1..(Len(logins[s]) + 1)
        /\ Append(logins[s], "new")[Len(logins[s]) + 1] = "new"
        /\ \A n \in DOMAIN logins[s] : Append(logins[s], "new")[n] = logins[s][n]
    BY Appended DEF IInv, Shape
  <2>3. k \in DOMAIN Append(logins[s], "new") /\ Append(logins[s], "new")[k] = "authenticated"
    BY <2>1 DEF Holds
  <2>4. k \in DOMAIN logins[s]
    BY <2>2, <2>3
  <2> QED BY <2>2, <2>3, <2>4 DEF Holds
<1> QED BY <1>2, <1>3

\* A log-in thread moves: only that it was given a token changes what is held.
LEMMA HeldMove ==
  ASSUME IInv, TInv, NEW s0 \in Sessions, NEW k0 \in 1..MaxLogins, NEW from, NEW to, NEW v,
         LoginMoves(s0, k0, from, to), UNCHANGED asked,
         UNCHANGED given \/ given' = [given EXCEPT ![s0][k0] = v]
  PROVE  /\ to # "authenticated" => \A s \in Sessions : HeldStays(s)
         /\ \A s \in Sessions : \A k \in 1..MaxLogins :
              Holds(s, k)' /\ ~(s = s0 /\ k = k0) => Holds(s, k) /\ Given(s, k)' = Given(s, k)
<1>1. /\ k0 \in DOMAIN logins[s0] /\ logins[s0][k0] = from
      /\ logins' = [logins EXCEPT ![s0][k0] = to]
  BY DEF LoginMoves
<1>2. /\ \A s \in Sessions : s # s0 => logins'[s] = logins[s]
      /\ DOMAIN logins'[s0] = DOMAIN logins[s0] /\ logins'[s0][k0] = to
      /\ \A j \in DOMAIN logins[s0] : j # k0 => logins'[s0][j] = logins[s0][j]
  BY <1>1 DEF IInv, Shape
<1>3. \A s \in Sessions : \A k \in 1..MaxLogins :
        ~(s = s0 /\ k = k0) => given'[s][k] = given[s][k]
  <2>1. given = [s \in Sessions |-> given[s]] /\ given[s0] = [k \in 1..MaxLogins |-> given[s0][k]]
    BY DEF TInv, Typed
  <2> QED BY <2>1
<1>4. \A s \in Sessions : \A k \in 1..MaxLogins :
        Holds(s, k)' /\ ~(s = s0 /\ k = k0) => Holds(s, k) /\ Given(s, k)' = Given(s, k)
  BY <1>2, <1>3 DEF Holds, Given
<1>5. Holds(s0, k0)' => to = "authenticated"
  BY <1>2 DEF Holds
<1> QED BY <1>4, <1>5 DEF HeldStays

\* The moves after which a thread holds no token.
LEMMA HeldLeft ==
  ASSUME IInv, TInv, NEW s0 \in Sessions, NEW k0 \in 1..MaxLogins,
         \/ LoginBegins(s0, k0) \/ LoginRefused(s0, k0) \/ LoginPosts(s0, k0)
         \/ LoginDrops(s0, k0) \/ LoginEnds(s0, k0)
  PROVE  \A s \in Sessions : HeldStays(s)
<1>1. /\ UNCHANGED asked /\ (UNCHANGED given \/ given' = [given EXCEPT ![s0][k0] = 0])
      /\ \/ LoginMoves(s0, k0, "new", "authenticating")
         \/ LoginMoves(s0, k0, "authenticating", "answered")
         \/ LoginMoves(s0, k0, "authenticated", "answered")
         \/ LoginMoves(s0, k0, "answered", "ended")
  BY DEF LoginBegins, LoginRefused, LoginPosts, LoginDrops, LoginEnds
<1>2. PICK from, to : LoginMoves(s0, k0, from, to) /\ to # "authenticated"
  BY <1>1
<1>3. PICK v : UNCHANGED given \/ given' = [given EXCEPT ![s0][k0] = v]
  BY <1>1
<1> QED BY <1>1, <1>2, <1>3, HeldMove

LEMMA HeldFetched ==
  ASSUME IInv, TInv, NEW s0 \in Sessions, NEW k0 \in 1..MaxLogins, LoginAuthenticates(s0, k0)
  PROVE  /\ \A s \in Sessions : \A k \in 1..MaxLogins :
              Holds(s, k)' /\ ~(s = s0 /\ k = k0) => Holds(s, k) /\ Given(s, k)' = Given(s, k)
         /\ Given(s0, k0)' = [id |-> asked[s0], token |-> server'[asked[s0]]]
<1>1. /\ UNCHANGED asked /\ LoginMoves(s0, k0, "authenticating", "authenticated")
      /\ given' = [given EXCEPT ![s0][k0] = server'[asked[s0]]]
  BY DEF LoginAuthenticates
<1>2. given'[s0][k0] = server'[asked[s0]]
  BY <1>1 DEF TInv, Typed
<1> QED BY <1>1, <1>2, HeldMove DEF Given

LEMMA KnownStays ==
  ASSUME Onward, NEW A \in AccountRecs, Known(A) PROVE A.token <= server'[A.id]
<1>1. A.id \in Accounts /\ A.token \in Nat
  BY LaunchAssumption DEF AccountRecs
<1>2. server'[A.id] \in Nat /\ server[A.id] \in Nat /\ server[A.id] <= server'[A.id]
  BY <1>1 DEF Onward
<1> QED BY <1>1, <1>2 DEF Known

LEMMA HeldKnown ==
  ASSUME TInv, HInv, Onward, NEW s \in Sessions, NEW k \in 1..MaxLogins, Holds(s, k),
         Given(s, k)' = Given(s, k)
  PROVE  Known(Given(s, k))'
<1>1. PICK A : A = Given(s, k)
  OBVIOUS
<1>2. A.token <= server'[A.id]
  BY <1>1, GivenTyped, KnownStays DEF HInv
<1> QED BY <1>1, <1>2 DEF Known

\* A token that is held was held, or was given in this step.
LEMMA HeldSteps ==
  ASSUME IInv, TInv, Next, NEW s \in Sessions, NEW k \in 1..MaxLogins, Holds(s, k)'
  PROVE  (Holds(s, k) /\ Given(s, k)' = Given(s, k)) \/ LoginAuthenticates(s, k)
<1> USE DEF checkVars, loginVars, history
<1>1. Onward
  BY Progress
<1>2. CASE UNCHANGED <<logins, given>>
  BY <1>1, <1>2, HeldStill DEF HeldStays
<1>3. ASSUME NEW s0 \in Sessions, ReloginClick(s0)
      PROVE  Holds(s, k) /\ Given(s, k)' = Given(s, k)
  BY <1>3, HeldClick DEF HeldStays
<1>4. ASSUME NEW s0 \in Sessions, NEW k0 \in 1..MaxLogins, ReloginThread(s0, k0)
      PROVE  (Holds(s, k) /\ Given(s, k)' = Given(s, k)) \/ LoginAuthenticates(s, k)
  <2>1. CASE LoginAuthenticates(s0, k0)
    BY <2>1, HeldFetched
  <2> QED BY <1>4, <2>1, HeldLeft DEF ReloginThread, HeldStays
<1>5. CASE UIThread
  BY <1>2, <1>5 DEF UIThread, onFinish, saveAccount, onRelogin, setButtons, startGame
<1>6. CASE User
  BY <1>2, <1>3, <1>6 DEF User, SelectAccount, startCheckTasks, CancelClick, ReloginCancelClick
<1>7. ASSUME NEW s0 \in Sessions, Background(s0)
      PROVE  (Holds(s, k) /\ Given(s, k)' = Given(s, k)) \/ LoginAuthenticates(s, k)
  BY <1>2, <1>4, <1>7 DEF Background, CheckEnds, CheckAccount, PostSave, DropToken,
     CheckAccountReturns, LaunchTask
<1> QED BY <1>5, <1>6, <1>7 DEF Next

LEMMA HeldInductive == IInv /\ TInv /\ HInv /\ [Next]_vars => HInv'
<1> SUFFICES ASSUME IInv, TInv, HInv, [Next]_vars PROVE HInv'
  OBVIOUS
<1>1. CASE UNCHANGED vars
  BY <1>1 DEF vars, loginVars, HInv, Holds, Given, Known
<1>2. CASE Next
  <2>1. Onward
    BY <1>2, Progress
  <2>2. ASSUME NEW s \in Sessions, NEW k \in 1..MaxLogins, Holds(s, k)' PROVE Known(Given(s, k))'
    <3>1. CASE Holds(s, k) /\ Given(s, k)' = Given(s, k)
      BY <2>1, <3>1, HeldKnown
    <3>2. CASE LoginAuthenticates(s, k)
      <4>1. PICK c \in Accounts : c = asked[s]
        BY DEF TInv, Typed
      <4>2. Given(s, k)' = [id |-> c, token |-> server'[c]] /\ server'[c] \in Nat
        BY <2>1, <3>2, <4>1, HeldFetched DEF Onward
      <4> QED BY <4>2 DEF Known
    <3> QED BY <1>2, <2>2, <3>1, <3>2, HeldSteps
  <2> QED BY <2>2 DEF HInv
<1> QED BY <1>1, <1>2

LEMMA HeldInitially == Init => HInv
<1> SUFFICES ASSUME Init, NEW s \in Sessions, NEW k, Holds(s, k) PROVE FALSE
  BY DEF HInv
<1> QED BY DEF Init, Holds

-----------------------------------------------------------------------------
LEMMA AroundTyped == ASSUME TInv, NEW A, Around(A) PROVE A \in AccountRecs
BY DEF TInv, Typed, Contents, Content, Around

\* A step brings accounts of old or of a token known.
Supplies ==
  \A A : Around(A)' => Around(A) \/ Known(A)'

Sends == \A n \in DOMAIN ui' : Wary(ui'[n]) =>
           \/ \E k \in DOMAIN ui : ui'[n] = ui[k]
           \/ dialog'[ui'[n].s] # "none"

LEMMA SuppliesKnown ==
  ASSUME TInv, KnownTokens, Onward, Supplies
  PROVE  KnownTokens'
<1> SUFFICES ASSUME NEW A, Around(A)' PROVE Known(A)'
  BY DEF KnownTokens
<1>1. CASE Known(A)'
  BY <1>1
<1>2. CASE Around(A)
  <2>1. Known(A) /\ A \in AccountRecs
    BY <1>2, AroundTyped DEF KnownTokens
  <2> QED BY <2>1, KnownStays DEF Known
<1> QED BY <1>1, <1>2 DEF Supplies

\* No dialog opens.
Closing ==
  \A s \in Sessions :
    /\ dialog'[s] # "none" => dialog[s] # "none"
    /\ dialog[s] = "gone" => dialog'[s] = "gone"
    /\ dialog'[s] = "shown" => dialog[s] = "shown" /\ checking'[s].id = checking[s].id
                               /\ selected' = selected

LEMMA OrderKept ==
  ASSUME IInv, TInv, OInv, Onward, Supplies, Sends, Closing
  PROVE  OInv'
<1>1. KnownTokens'
  BY SuppliesKnown DEF OInv
<1>2. Successive'
  BY DEF OInv, Successive, Onward, Closing
<1>3. Matching'
  BY DEF OInv, Matching, Onward, Closing
<1>4. Signed'
  <2> SUFFICES ASSUME NEW n \in DOMAIN ui', Wary(ui'[n]) PROVE dialog'[ui'[n].s] # "none"
    BY DEF Signed, Wary
  <2>1. ASSUME NEW k \in DOMAIN ui, ui'[n] = ui[k] PROVE dialog'[ui'[n].s] # "none"
    <3>1. ui[k].s \in Sessions /\ dialog[ui[k].s] # "none"
      BY <2>1 DEF IInv, Mail, Fits, Says, OInv, Signed
    <3> QED BY <2>1, <3>1 DEF Onward
  <2> QED BY <2>1 DEF Sends
<1> QED BY <1>1, <1>2, <1>3, <1>4 DEF OInv

\* A step that brings no account and opens no dialog.
LEMMA OrderStill ==
  ASSUME IInv, TInv, OInv, Onward, UNCHANGED <<account, accounts, checking, selected>>,
         \/ UNCHANGED dialog
         \/ \E s0 \in Sessions : dialog[s0] # "none" /\ dialog' = [dialog EXCEPT ![s0] = "gone"],
         \/ UNCHANGED ui
         \/ ui # <<>> /\ ui' = Tail(ui)
         \/ \E x : Post(x) /\ ~Wary(x)
  PROVE  OInv'
<1>1. \A n \in DOMAIN ui' : Wary(ui'[n]) => \E k \in DOMAIN ui : ui'[n] = ui[k]
  <2>1. CASE ui # <<>> /\ ui' = Tail(ui)
    BY <2>1, TailOf DEF IInv, Shape
  <2>2. ASSUME NEW x, Post(x), ~Wary(x)
        PROVE  \A n \in DOMAIN ui' : Wary(ui'[n]) => \E k \in DOMAIN ui : ui'[n] = ui[k]
    <3>1. Shifted(0)
      BY <2>2, PostShift
    <3> QED BY <3>1 DEF Shifted
  <2> QED BY <2>1, <2>2
<1>2. Supplies /\ Sends
  BY <1>1 DEF Supplies, Sends, Around, Wary
<1>3. Closing
  BY DEF Closing, TInv, Typed
<1> QED BY <1>2, <1>3, OrderKept

LEMMA OpenOrdered ==
  ASSUME IInv, TInv, CInv, AInv, OInv, Onward, NEW s0 \in Sessions, startCheckTasks(s0)
  PROVE  OInv'
<1>1. /\ dialog[s0] = "none" /\ \A r \in Sessions : r < s0 => dialog[r] = "gone"
      /\ started = <<>> /\ \A s \in Sessions : dialog[s] # "shown"
      /\ dialog' = [dialog EXCEPT ![s0] = "shown"]
      /\ checking' = [checking EXCEPT ![s0] = account]
      /\ UNCHANGED <<account, accounts, server, ui, selected, exited, stale>>
  BY DEF startCheckTasks, MainScreen, history
<1>2. /\ \A s \in Sessions : s # s0 => dialog'[s] = dialog[s] /\ checking'[s] = checking[s]
      /\ dialog'[s0] = "shown" /\ checking'[s0] = account
  BY <1>1 DEF TInv, Typed
<1>3. KnownTokens'
  <2>1. Supplies
    BY <1>1, <1>2 DEF Supplies, Around, Wary
  <2> QED BY <2>1, SuppliesKnown DEF OInv
<1>4. \A r \in Sessions : dialog[r] = "gone" => r \in exited
  <2>1. \A r \in Sessions : Games(r) = {}
    BY <1>1 DEF Games
  <2> QED BY <2>1 DEF CInv, Ended
<1>5. Successive'
  <2> SUFFICES ASSUME NEW r \in Sessions, NEW s \in Sessions, r < s, dialog'[s] # "none"
               PROVE  dialog'[r] = "gone" /\ r \in exited'
    BY DEF Successive
  <2>1. CASE s = s0
    <3>1. r # s0
      BY <2>1, LaunchAssumption DEF Sessions
    <3> QED BY <1>1, <1>2, <1>4, <2>1, <3>1
  <2>2. CASE s # s0
    <3>1. dialog[s] # "none"
      BY <1>2, <2>2
    <3>2. dialog[r] = "gone"
      BY <3>1 DEF OInv, Successive
    <3>3. r # s0
      BY <1>1, <3>2
    <3> QED BY <1>1, <1>2, <1>4, <3>2, <3>3
  <2> QED BY <2>1, <2>2
<1>6. Matching'
  BY <1>1, <1>2 DEF Matching, CInv, Chosen
<1>7. Signed'
  <2> SUFFICES ASSUME NEW n \in DOMAIN ui, Wary(ui[n]) PROVE dialog'[ui[n].s] # "none"
    BY <1>1 DEF Signed, Wary
  <2>1. ui[n].s \in Sessions /\ dialog[ui[n].s] # "none"
    BY DEF IInv, Mail, Fits, Says, OInv, Signed
  <2> QED BY <2>1 DEF Onward
<1> QED BY <1>3, <1>5, <1>6, <1>7 DEF OInv

LEMMA HandledOrdered ==
  ASSUME IInv, TInv, OInv, Onward, saveAccount \/ onRelogin
  PROVE  OInv'
<1>1. PICK m : m = Head(ui)
  OBVIOUS
<1>2. /\ ui # <<>> /\ ui' = Tail(ui) /\ Wary(m) /\ account' = m.acct
      /\ UNCHANGED <<dialog, checking, selected>>
      /\ \E i : accounts' = Replaced(i, m.acct)
  BY <1>1 DEF saveAccount, onRelogin, Message, Wary, checkVars, history
<1>3. /\ 1 \in DOMAIN ui /\ m = ui[1]
      /\ \A n \in DOMAIN ui' : \E k \in DOMAIN ui : ui'[n] = ui[k]
  BY <1>1, <1>2, TailOf DEF IInv, Shape
<1>4. \A i \in Accounts : accounts'[i] = accounts[i] \/ accounts'[i] = m.acct
  BY <1>2 DEF Replaced
<1>5. Supplies /\ Sends
  BY <1>2, <1>3, <1>4 DEF Supplies, Sends, Around, Wary
<1>6. Closing
  BY <1>2 DEF Closing
<1> QED BY <1>5, <1>6, OrderKept

\* A token is refreshed, or a log-in brings one: the server knows it.
LEMMA TokenOrdered ==
  ASSUME IInv, TInv, TInv', OInv, Onward, NEW s0 \in Sessions,
         UNCHANGED <<account, accounts, dialog, selected>>,
         \/ /\ checking' = [checking EXCEPT ![s0].token = server'[checking[s0].id]]
            /\ UNCHANGED ui
         \/ /\ \E x : Post(x) /\ Wary(x) /\ x.s = s0 /\ (Around(x.acct) \/ Known(x.acct)')
            /\ UNCHANGED checking /\ dialog[s0] # "none"
  PROVE  OInv'
<1>1. CASE /\ checking' = [checking EXCEPT ![s0].token = server'[checking[s0].id]]
           /\ UNCHANGED ui
  <2>1. /\ \A s \in Sessions : s # s0 => checking'[s] = checking[s]
        /\ checking'[s0].id = checking[s0].id
        /\ checking'[s0].token = server'[checking[s0].id]
        /\ checking[s0].id \in Accounts
    BY <1>1 DEF TInv, Typed, AccountRecs
  <2>2. Known(checking[s0])'
    <3>1. server'[checking[s0].id] \in Nat
      BY <2>1 DEF Onward
    <3> QED BY <2>1, <3>1 DEF Known
  <2>3. Supplies
    <3> SUFFICES ASSUME NEW A, Around(A)' PROVE Around(A) \/ Known(A)'
      BY DEF Supplies
    <3>1. CASE A = checking'[s0]
      BY <2>2, <3>1 DEF Known
    <3>2. CASE A # checking'[s0]
      BY <1>1, <2>1, <3>2 DEF Around, Wary
    <3> QED BY <3>1, <3>2
  <2>4. Sends
    BY <1>1 DEF Sends
  <2>5. Closing
    BY <2>1 DEF Closing
  <2> QED BY <2>3, <2>4, <2>5, OrderKept
<1>2. ASSUME NEW x, Post(x), Wary(x), x.s = s0, Around(x.acct) \/ Known(x.acct)',
             UNCHANGED checking, dialog[s0] # "none"
      PROVE  OInv'
  <2>1. \A n \in DOMAIN ui' : ui'[n] = x \/ \E k \in DOMAIN ui : ui'[n] = ui[k]
    BY <1>2, Grown
  <2>2. Supplies
    <3> SUFFICES ASSUME NEW A, Around(A)' PROVE Around(A) \/ Known(A)'
      BY DEF Supplies
    <3>1. CASE A = x.acct
      BY <1>2, <3>1 DEF Known
    <3>2. CASE A # x.acct
      BY <1>2, <2>1, <3>2 DEF Around, Wary
    <3> QED BY <3>1, <3>2
  <2>3. Sends
    BY <1>2, <2>1 DEF Sends
  <2>4. Closing
    BY <1>2 DEF Closing
  <2> QED BY <2>2, <2>3, <2>4, OrderKept
<1> QED BY <1>1, <1>2

LEMMA HandlerOrdered == ASSUME IInv, TInv, OInv, Onward, UIThread PROVE OInv'
<1> USE DEF checkVars, loginVars, history
<1>1. CASE saveAccount \/ onRelogin
  BY <1>1, HandledOrdered
<1>2. CASE onFinish
  <2>1. PICK s0, c0 : s0 = Head(ui).s /\ c0 = Head(ui).check
    OBVIOUS
  <2>2. /\ ui # <<>> /\ ui' = Tail(ui)
        /\ UNCHANGED <<account, accounts, checking, selected>>
    BY <1>2 DEF onFinish, Message
  <2>3. s0 \in Sessions /\ dialog[s0] # "none"
    BY <1>2, <2>1, ResultTaken, Unanswered DEF Taken
  <2>4. UNCHANGED dialog \/ exit(s0)
    BY <1>2, <2>1 DEF onFinish, Passes, throwException, AskPassword
  <2>5. UNCHANGED dialog \/ dialog' = [dialog EXCEPT ![s0] = "gone"]
    BY <2>4 DEF exit
  <2> QED BY <2>2, <2>3, <2>5, OrderStill
<1>3. CASE setButtons
  <2>1. /\ ui # <<>> /\ ui' = Tail(ui)
        /\ UNCHANGED <<account, accounts, checking, selected, dialog>>
    BY <1>3 DEF setButtons, Message
  <2> QED BY <2>1, OrderStill
<1>4. CASE startGame
  <2>1. PICK m, s0 : m = Head(ui) /\ s0 = m.s
    OBVIOUS
  <2>2. /\ ui # <<>> /\ ui' = Tail(ui) /\ UNCHANGED <<account, accounts, checking, selected>>
        /\ m.what = "launched" /\ (UNCHANGED dialog \/ dialog' = [dialog EXCEPT ![s0] = "gone"])
    BY <1>4, <2>1 DEF startGame, Message
  <2>3. s0 \in Sessions /\ m.task \in DOMAIN launch[s0]
    <3>1. 1 \in DOMAIN ui /\ m = ui[1]
      BY <2>1, <2>2, TailOf DEF IInv, Shape
    <3>2. Says(m, check, launch, relogin)
      BY <3>1 DEF IInv, Mail, Fits
    <3> QED BY <2>1, <2>2, <3>2 DEF Says
  <2>4. dialog[s0] # "none"
    <3>1. launch[s0] # <<>>
      <4>1. DOMAIN launch[s0] = 1..Len(launch[s0])
        BY <2>3, Appended DEF IInv, Shape
      <4> QED BY <2>3, <4>1
    <3>2. passed[s0] # {}
      BY <2>3, <3>1, NotLogin DEF IInv, Launches
    <3> QED BY <2>3, <3>2 DEF IInv, Stages, Stage
  <2> QED BY <2>2, <2>3, <2>4, OrderStill
<1> QED BY <1>1, <1>2, <1>3, <1>4 DEF UIThread

LEMMA UserOrdered == ASSUME IInv, TInv, CInv, AInv, OInv, Onward, User PROVE OInv'
<1> USE DEF checkVars, loginVars, history
<1>1. ASSUME NEW i \in Accounts, SelectAccount(i) PROVE OInv'
  <2>1. /\ account' = accounts[i] /\ UNCHANGED <<accounts, ui, dialog, checking>>
        /\ \A s \in Sessions : dialog[s] # "shown"
    BY <1>1 DEF SelectAccount, MainScreen
  <2>2. Supplies /\ Sends
    BY <2>1 DEF Supplies, Sends, Around, Wary
  <2>3. Closing
    BY <2>1 DEF Closing
  <2> QED BY <2>2, <2>3, OrderKept
<1>2. ASSUME NEW s0 \in Sessions, startCheckTasks(s0) PROVE OInv'
  BY <1>2, OpenOrdered
<1>3. ASSUME NEW s0 \in Sessions, CancelClick(s0) \/ ReloginClick(s0) \/ ReloginCancelClick(s0)
      PROVE  OInv'
  <2>1. /\ UNCHANGED <<account, accounts, checking, selected, ui>>
        /\ UNCHANGED dialog \/ dialog' = [dialog EXCEPT ![s0] = "gone"]
        /\ dialog[s0] = "shown" \/ relogin[s0] = "shown"
    BY <1>3 DEF CancelClick, ReloginClick, ReloginCancelClick, exit
  <2>2. dialog[s0] # "none"
    BY <2>1, NotAsked
  <2> QED BY <2>1, <2>2, OrderStill
<1> QED BY <1>1, <1>2, <1>3 DEF User

LEMMA BackgroundOrdered ==
  ASSUME IInv, TInv, TInv', HInv, OInv, Onward, NEW s0 \in Sessions, Background(s0) PROVE OInv'
<1> USE DEF checkVars, loginVars, history
<1>1. ASSUME UNCHANGED <<account, accounts, checking, selected, dialog>>,
             UNCHANGED ui \/ \E x : Post(x) /\ ~Wary(x)
      PROVE  OInv'
  BY <1>1, OrderStill
<1>2. ASSUME UNCHANGED <<account, accounts, checking, selected, dialog>>,
             NEW c, NEW e, Returns(s0, c, e)
      PROVE  OInv'
  BY <1>1, <1>2, Plain DEF Returns
<1>3. ASSUME NEW c \in FileChecks, CheckEnds(s0, c) PROVE OInv'
  BY <1>2, <1>3 DEF CheckEnds
<1>4. CASE CheckAccount(s0)
  <2>1. UNCHANGED <<account, accounts, dialog, selected>>
    BY <1>4 DEF CheckAccount
  <2>2. CASE TokenRefreshed(s0)
    BY <2>1, <2>2, TokenOrdered DEF TokenRefreshed
  <2>3. CASE OfflineAccount(s0) \/ LoginFails(s0)
    BY <1>2, <2>1, <2>3 DEF OfflineAccount, LoginFails
  <2> QED BY <1>4, <2>2, <2>3 DEF CheckAccount
<1>5. CASE PostSave(s0)
  <2>1. PICK A : A = checking[s0]
    OBVIOUS
  <2>2. /\ UNCHANGED <<account, accounts, dialog, selected, checking>> /\ dialog[s0] # "none"
        /\ Post(Save(s0, A))
    BY <1>5, <2>1, NotAsked DEF PostSave
  <2>3. Wary(Save(s0, A)) /\ Save(s0, A).s = s0 /\ Save(s0, A).acct = A
    BY DEF Wary, Save
  <2>4. Around(A)
    BY <2>1 DEF Around
  <2>5. \E x : Post(x) /\ Wary(x) /\ x.s = s0 /\ (Around(x.acct) \/ Known(x.acct)')
    <3>1. PICK x : x = Save(s0, A)
      OBVIOUS
    <3>2. x.acct = A
      BY <2>3, <3>1
    <3>3. Around(x.acct)
      BY <2>4, <3>2
    <3> QED BY <2>2, <2>3, <3>1, <3>3
  <2> QED BY <2>2, <2>5, TokenOrdered
<1>6. CASE DropToken(s0) \/ CheckAccountReturns(s0)
  <2>1. /\ UNCHANGED <<account, accounts, checking, selected, dialog>>
        /\ \E e : Returns(s0, "login", e)
    BY <1>6 DEF DropToken, CheckAccountReturns
  <2> QED BY <1>2, <2>1
<1>7. ASSUME NEW k, \/ LoginBegins(s0, k) \/ LoginAuthenticates(s0, k) \/ LoginRefused(s0, k)
                    \/ LoginDrops(s0, k) \/ LoginEnds(s0, k) \/ LaunchTask(s0, k)
      PROVE  OInv'
  BY <1>1, <1>7, Plain DEF LoginBegins, LoginAuthenticates, LoginRefused, LoginDrops, LoginEnds,
     LaunchTask
<1>8. ASSUME NEW k \in 1..MaxLogins, LoginPosts(s0, k) PROVE OInv'
  <2>1. PICK A : A = Given(s0, k)
    OBVIOUS
  <2>2. /\ UNCHANGED <<account, accounts, dialog, selected, checking>>
        /\ Post(OnRelogin(s0, A)) /\ Holds(s0, k)
    BY <1>8, <2>1 DEF LoginPosts, LoginMoves, Holds, Given
  <2>3. dialog[s0] # "none"
    BY <2>2, HoldsLogin, NotAsked
  <2>4. Known(A)'
    BY <2>1, <2>2, GivenTyped, KnownStays DEF HInv, Known
  <2>5. /\ Wary(OnRelogin(s0, A)) /\ OnRelogin(s0, A).s = s0 /\ OnRelogin(s0, A).acct = A
    BY DEF Wary, OnRelogin
  <2>6. \E x : Post(x) /\ Wary(x) /\ x.s = s0 /\ (Around(x.acct) \/ Known(x.acct)')
    <3>1. PICK x : x = OnRelogin(s0, A)
      OBVIOUS
    <3>2. Known(x.acct)'
      BY <2>4, <2>5, <3>1 DEF Known
    <3> QED BY <2>2, <2>5, <3>1, <3>2
  <2> QED BY <2>2, <2>3, <2>6, TokenOrdered
<1> QED BY <1>3, <1>4, <1>5, <1>6, <1>7, <1>8 DEF Background, ReloginThread

LEMMA OrderInductive == IInv /\ TInv /\ CInv /\ AInv /\ HInv /\ OInv /\ [Next]_vars => OInv'
<1> SUFFICES ASSUME IInv, TInv, CInv, AInv, HInv, OInv, [Next]_vars PROVE OInv'
  OBVIOUS
<1>1. CASE UNCHANGED vars
  BY <1>1 DEF vars, checkVars, history, OInv, Successive, Matching, KnownTokens, Known, Around,
              Signed, Wary
<1>2. TInv'
  BY TypesInductive
<1>3. CASE Next
  <2>1. Onward
    BY <1>3, Progress
  <2> QED BY <1>2, <1>3, <2>1, HandlerOrdered, UserOrdered, BackgroundOrdered DEF Next
<1> QED BY <1>1, <1>3

LEMMA OrderInitially == Init => OInv
<1> SUFFICES ASSUME Init PROVE OInv
  OBVIOUS
<1>1. DOMAIN ui = {} /\ \A s \in Sessions : dialog[s] = "none"
  BY DEF Init
<1>2. \A A : Around(A) => A.token = 0 /\ A.id \in Accounts
  BY <1>1 DEF Init, Around
<1>3. \A a \in Accounts : server[a] = 0
  BY DEF Init
<1>4. KnownTokens
  BY <1>2, <1>3 DEF KnownTokens, Known
<1> QED BY <1>1, <1>4 DEF OInv, Successive, Matching, Signed

-----------------------------------------------------------------------------
\* What keeps a token valid, and the steps that may end it

\* Why the token of account a that session s has need not be the one the server
\* accepts: the provisos of LaunchTokenValid.
Waived(s, a) ==
  \/ LoginType[a] = "offline" \/ a \in dropped \/ stale
  \/ Len(logins[s]) > 1 \/ Doomed(s)
  \/ \E r \in Sessions : r < s /\ logins[r] # <<>> /\ asked[r] = a

Refusal(m, s) == m.what = "result" /\ m.s = s /\ m.outcome = "relogin"

NotRefused(s) == \A n \in DOMAIN ui : ~Refusal(ui[n], s)

\* A log-in thread that gets no other token.
Over == {"authenticated", "answered", "ended"}

\* No log-in of s brings another token: its only one got its own, or its check
\* passed and asks for none.
Settled(s, a) ==
  \/ Len(logins[s]) = 1 /\ logins[s][1] \in Over
  \/ /\ logins[s] = <<>> /\ relogin[s] = "none" /\ checking[s].id = a
     /\ check[s]["login"] \notin {"none", "running"} /\ NotRefused(s)

\* No check up to s has a token the server would still refresh.
Outrun(s, a) ==
  \A r \in Sessions : r <= s /\ check[r]["login"] = "running" /\ checking[r].id = a =>
    checking[r].token # server[a]

Firm(s, a) == dialog[s] # "none" /\ Outrun(s, a) /\ Settled(s, a)

\* The account A that session s has is up to date and stays so.
Valid(s, A) ==
  /\ A \in AccountRecs
  /\ Waived(s, A.id) \/ (A.token = server[A.id] /\ Firm(s, A.id))

LEMMA WaivedStays ==
  ASSUME Onward, NEW s \in Sessions, NEW a, Waived(s, a)
  PROVE  Waived(s, a)'
<1>1. CASE Doomed(s)
  <2>1. Doomed(s)'
    BY <1>1, DoomStays DEF Onward
  <2> QED BY <2>1 DEF Waived
<1>2. CASE Len(logins[s]) > 1
  BY <1>2 DEF Onward, Waived
<1>3. CASE \E r \in Sessions : r < s /\ logins[r] # <<>> /\ asked[r] = a
  BY <1>3 DEF Onward, Waived
<1> QED BY <1>1, <1>2, <1>3 DEF Waived, Onward

\* A step that makes no token of a old, seen from session s.
Eases(s, a) ==
  \/ Waived(s, a)'
  \/ /\ server'[a] = server[a]
     /\ \A r \in Sessions : r <= s /\ check'[r]["login"] = "running" =>
          check[r]["login"] = "running" /\ checking'[r] = checking[r]
     /\ Settled(s, a)'

LEMMA EasesValid ==
  ASSUME Onward, NEW s \in Sessions, NEW A, Valid(s, A), Firm(s, A.id) => Eases(s, A.id)
  PROVE  Valid(s, A)'
<1>1. CASE Waived(s, A.id)
  <2>1. Waived(s, A.id)'
    BY <1>1, WaivedStays
  <2> QED BY <2>1 DEF Valid, Waived, Doomed
<1>2. CASE A.token = server[A.id] /\ Firm(s, A.id)
  <2>1. CASE Waived(s, A.id)'
    BY <2>1 DEF Valid, Waived, Doomed
  <2>2. CASE ~Waived(s, A.id)'
    <3>1. /\ server'[A.id] = server[A.id] /\ Settled(s, A.id)'
          /\ \A r \in Sessions : r <= s /\ check'[r]["login"] = "running" =>
               check[r]["login"] = "running" /\ checking'[r] = checking[r]
      BY <1>2, <2>2 DEF Eases
    <3>2. Outrun(s, A.id)'
      BY <1>2, <3>1 DEF Firm, Outrun
    <3>3. dialog'[s] # "none"
      BY <1>2 DEF Firm, Onward
    <3> QED BY <1>2, <3>1, <3>2, <3>3 DEF Valid, Firm
  <2> QED BY <2>1, <2>2
<1> QED BY <1>1, <1>2 DEF Valid

\* A step that leaves the log-ins and tokens of s alone.
Rested(s) ==
  /\ logins'[s] = logins[s]
  /\ check[s]["login"] \notin {"none", "running"} => check'[s]["login"] \notin {"none", "running"}
  /\ checking'[s].id = checking[s].id
  /\ NotRefused(s) /\ relogin[s] = "none" /\ logins[s] = <<>> =>
       relogin'[s] = "none" /\ NotRefused(s)'

LEMMA RestedEases ==
  ASSUME IInv, NEW s \in Sessions, NEW a, Firm(s, a), Rested(s), server'[a] = server[a],
         \A r \in Sessions : r <= s /\ check'[r]["login"] = "running" =>
           check[r]["login"] = "running" /\ checking'[r] = checking[r]
  PROVE  Eases(s, a)
<1>1. Settled(s, a)
  BY DEF Firm
<1>2. Settled(s, a)'
  BY <1>1 DEF Settled, Rested
<1> QED BY <1>2 DEF Eases

\* No refusal is posted.
LEMMA NotRefusedStays ==
  ASSUME IInv, NEW s, NotRefused(s),
         \/ UNCHANGED ui
         \/ ui # <<>> /\ ui' = Tail(ui)
         \/ \E x : Post(x) /\ ~Refusal(x, s)
  PROVE  NotRefused(s)'
<1>1. \A n \in DOMAIN ui' : (\E k \in DOMAIN ui : ui'[n] = ui[k]) \/ ~Refusal(ui'[n], s)
  <2>1. CASE UNCHANGED ui
    BY <2>1
  <2>2. CASE ui # <<>> /\ ui' = Tail(ui)
    BY <2>2, TailOf DEF IInv, Shape
  <2>3. ASSUME NEW x, Post(x), ~Refusal(x, s)
        PROVE  \A n \in DOMAIN ui' : (\E k \in DOMAIN ui : ui'[n] = ui[k]) \/ ~Refusal(ui'[n], s)
    BY <2>3, Grown
  <2> QED BY <2>1, <2>2, <2>3
<1> QED BY <1>1 DEF NotRefused, Refusal

LEMMA Granted ==
  /\ \A s, r, c, e : Refusal(Result(r, c, e), s) => r = s /\ e = "relogin"
  /\ \A s, r, b : ~Refusal(Buttons(r, b), s)
  /\ \A s, r, k : ~Refusal(Launched(r, k), s)
  /\ \A s, r, a : ~Refusal(Save(r, a), s) /\ ~Refusal(OnRelogin(r, a), s)
BY DEF Refusal, Result, Buttons, Launched, Save, OnRelogin

LEMMA HandlerEases ==
  ASSUME IInv, TInv, UIThread, NEW s \in Sessions, NEW a, Firm(s, a)
  PROVE  Eases(s, a)
<1> USE DEF checkVars, loginVars, history
<1>1. ui # <<>> /\ ui' = Tail(ui) /\ UNCHANGED <<server, logins, checking>>
  <2>1. CASE onFinish
    BY <2>1 DEF onFinish, Message
  <2>2. CASE saveAccount
    BY <2>2 DEF saveAccount, Message
  <2>3. CASE onRelogin
    BY <2>3 DEF onRelogin, Message
  <2>4. CASE setButtons \/ startGame
    BY <2>4 DEF setButtons, startGame, Message
  <2> QED BY <2>1, <2>2, <2>3, <2>4 DEF UIThread
<1>2. NotRefused(s) => NotRefused(s)'
  BY <1>1, NotRefusedStays
<1>3. \A r \in Sessions : \/ check'[r]["login"] = check[r]["login"]
                          \/ check'[r]["login"] = "finished"
  <2>1. CASE onFinish
    <3>1. PICK s0, c0 : s0 = Head(ui).s /\ c0 = Head(ui).check
      OBVIOUS
    <3>2. check' = [check EXCEPT ![s0][c0] = "finished"] /\ s0 \in Sessions /\ c0 \in Checks
      BY <2>1, <3>1, ResultTaken DEF onFinish, Taken
    <3> QED BY <3>2, NotLogin DEF TInv, Typed
  <2>2. CASE saveAccount \/ onRelogin \/ setButtons \/ startGame
    BY <2>2 DEF saveAccount, onRelogin, setButtons, startGame
  <2> QED BY <2>1, <2>2 DEF UIThread
<1>4. NotRefused(s) /\ relogin[s] = "none" => relogin'[s] = "none"
  <2> SUFFICES ASSUME NotRefused(s), relogin[s] = "none" PROVE relogin'[s] = "none"
    OBVIOUS
  <2>1. PICK m, s0 : m = Head(ui) /\ s0 = m.s
    OBVIOUS
  <2>2. m = ui[1] /\ 1 \in DOMAIN ui
    BY <1>1, <2>1, TailOf DEF IInv, Shape
  <2>3. ~Refusal(m, s) /\ (m.what = "onRelogin" => relogin[s0] # "none") /\ s0 \in Sessions
    BY <2>1, <2>2 DEF NotRefused, IInv, Mail, Fits, Says
  <2>4. CASE onFinish
    <3>1. UNCHANGED relogin \/ (m.outcome = "relogin" /\ AskPassword(s0))
      BY <2>1, <2>4 DEF onFinish, Passes, throwException
    <3>2. m.what = "result"
      BY <2>1, <2>4 DEF onFinish, Message
    <3>3. AskPassword(s0) => UNCHANGED relogin \/ relogin' = [relogin EXCEPT ![s0] = "shown"]
      BY DEF AskPassword
    <3>4. relogin[s0] = relogin[s0] /\ DOMAIN relogin = Sessions
      BY DEF TInv, Typed
    <3>5. CASE UNCHANGED relogin
      BY <3>5
    <3>6. CASE m.outcome = "relogin" /\ AskPassword(s0)
      <4>1. s0 # s
        BY <2>1, <2>3, <3>2, <3>6 DEF Refusal
      <4> QED BY <3>3, <3>4, <3>6, <4>1
    <3> QED BY <3>1, <3>5, <3>6
  <2>5. CASE onRelogin
    <3>1. m.what = "onRelogin" /\ relogin' = [relogin EXCEPT ![s0] = "gone"]
      BY <2>1, <2>5 DEF onRelogin, Message
    <3> QED BY <2>3, <3>1
  <2>6. CASE saveAccount \/ setButtons \/ startGame
    BY <2>6 DEF saveAccount, setButtons, startGame
  <2> QED BY <2>4, <2>5, <2>6 DEF UIThread
<1>5. Rested(s)
  BY <1>1, <1>2, <1>3, <1>4 DEF Rested
<1> QED BY <1>1, <1>3, <1>5, RestedEases

LEMMA UserEases ==
  ASSUME IInv, TInv, OInv, User, NEW s \in Sessions, NEW a, Firm(s, a)
  PROVE  Eases(s, a)
<1> USE DEF checkVars, loginVars, history
<1>1. ASSUME NEW i \in Accounts, SelectAccount(i) PROVE Eases(s, a)
  <2>1. UNCHANGED <<ui, server, check, checking, logins, relogin>>
    BY <1>1 DEF SelectAccount
  <2>2. Rested(s)
    BY <2>1, NotRefusedStays DEF Rested
  <2> QED BY <2>1, <2>2, RestedEases
<1>2. ASSUME NEW s0 \in Sessions, startCheckTasks(s0) PROVE Eases(s, a)
  <2>1. /\ dialog[s0] = "none"
        /\ check' = [check EXCEPT ![s0] = [c \in Checks |-> "running"]]
        /\ checking' = [checking EXCEPT ![s0] = account]
        /\ UNCHANGED <<ui, server, logins, relogin>>
    BY <1>2 DEF startCheckTasks
  <2>2. \A r \in Sessions : r # s0 => check'[r] = check[r] /\ checking'[r] = checking[r]
    BY <2>1 DEF TInv, Typed
  <2>3. ~(s0 <= s)
    <3>1. dialog[s] # "none"
      BY DEF Firm
    <3>2. s0 # s /\ (s0 < s => dialog[s0] = "gone")
      BY <2>1, <3>1 DEF OInv, Successive
    <3> QED BY <2>1, <3>2, LaunchAssumption DEF Sessions
  <2>4. s # s0
    BY <2>3, LaunchAssumption DEF Sessions
  <2>5. Rested(s)
    BY <2>1, <2>2, <2>4, NotRefusedStays DEF Rested
  <2> QED BY <2>1, <2>2, <2>3, <2>5, RestedEases
<1>3. ASSUME NEW s0 \in Sessions, CancelClick(s0) \/ ReloginCancelClick(s0) PROVE Eases(s, a)
  <2>1. /\ UNCHANGED <<ui, server, check, checking, logins>>
        /\ \/ UNCHANGED relogin
           \/ relogin[s0] = "shown" /\ relogin' = [relogin EXCEPT ![s0] = "gone"]
    BY <1>3 DEF CancelClick, ReloginCancelClick
  <2>2. relogin[s] = "none" => relogin'[s] = "none"
    BY <2>1 DEF TInv, Typed
  <2>3. Rested(s)
    BY <2>1, <2>2, NotRefusedStays DEF Rested
  <2> QED BY <2>1, <2>3, RestedEases
<1>4. ASSUME NEW s0 \in Sessions, ReloginClick(s0) PROVE Eases(s, a)
  <2>1. /\ UNCHANGED <<ui, server, check, checking, relogin>> /\ relogin[s0] = "shown"
        /\ logins' = [logins EXCEPT ![s0] = Append(@, "new")]
    BY <1>4 DEF ReloginClick
  <2>2. CASE s = s0
    <3>1. Len(logins[s]) = 1
      BY <2>1, <2>2 DEF Firm, Settled
    <3>2. logins'[s] = Append(logins[s], "new") /\ IsSeq(logins[s])
      BY <2>1, <2>2 DEF IInv, Shape
    <3>3. Len(Append(logins[s], "new")) = Len(logins[s]) + 1
      BY <3>2, Appended
    <3>4. Len(logins'[s]) > 1
      BY <3>1, <3>2, <3>3
    <3> QED BY <3>4 DEF Eases, Waived
  <2>3. CASE s # s0
    <3>1. Rested(s)
      BY <2>1, <2>3, NotRefusedStays DEF Rested
    <3> QED BY <2>1, <3>1, RestedEases
  <2> QED BY <2>2, <2>3
<1> QED BY <1>1, <1>2, <1>3, <1>4 DEF User

\* A check of s0 returns.
LEMMA ReturnEases ==
  ASSUME IInv, TInv, NEW s0 \in Sessions, NEW c \in Checks, NEW e, Returns(s0, c, e),
         UNCHANGED <<server, checking, logins, relogin>>,
         NEW s \in Sessions, NEW a, Firm(s, a), s = s0 => e # "relogin"
  PROVE  Eases(s, a)
<1>1. \A r \in Sessions : \/ check'[r]["login"] = check[r]["login"]
                          \/ check'[r]["login"] \in {"finished", "posted"}
  <2>1. \E v \in {"finished", "posted"} : check' = [check EXCEPT ![s0][c] = v]
    BY DEF Returns
  <2> QED BY <2>1, NotLogin DEF TInv, Typed
<1>2. NotRefused(s) => NotRefused(s)'
  <2>1. ~Refusal(Result(s0, c, e), s)
    BY Granted
  <2>2. UNCHANGED ui \/ Post(Result(s0, c, e))
    BY DEF Returns
  <2> QED BY <2>1, <2>2, NotRefusedStays
<1>3. Rested(s)
  BY <1>1, <1>2 DEF Rested
<1> QED BY <1>1, <1>3, RestedEases

\* A log-in thread of s0 moves on, and may bring a token.
LEMMA ThreadEases ==
  ASSUME IInv, TInv, NEW s0 \in Sessions, NEW k, NEW from, NEW to, LoginMoves(s0, k, from, to),
         UNCHANGED <<check, checking, relogin, dialog>>,
         NEW s \in Sessions, NEW a \in Accounts, Firm(s, a), Onward,
         UNCHANGED ui \/ \E x : Post(x) /\ ~Refusal(x, s),
         \/ UNCHANGED server /\ (from \in Over => to \in Over)
         \/ server' = [server EXCEPT ![asked[s0]] = @ + 1] /\ from \notin Over
  PROVE  Eases(s, a)
<1>1. /\ k \in DOMAIN logins[s0] /\ logins[s0][k] = from
      /\ logins' = [logins EXCEPT ![s0][k] = to]
  BY DEF LoginMoves
<1>2. /\ logins[s0] # <<>> /\ IsSeq(logins[s0]) /\ DOMAIN logins[s0] = 1..Len(logins[s0])
      /\ Len(logins[s0]) \in Nat
  <2>1. /\ IsSeq(logins[s0]) /\ DOMAIN logins[s0] = 1..Len(logins[s0]) /\ Len(logins[s0]) \in Nat
    BY Appended DEF IInv, Shape
  <2> QED BY <1>1, <2>1
<1>3. relogin[s0] # "none" /\ dialog[s0] # "none"
  BY <1>2, NotAsked
<1>4. CASE s = s0
  <2>1. Len(logins[s]) = 1 /\ logins[s][1] \in Over
    BY <1>3, <1>4 DEF Firm, Settled
  <2>2. k = 1
    BY <1>1, <1>2, <1>4, <2>1
  <2>3. to \in Over /\ UNCHANGED server
    BY <1>1, <1>4, <2>1, <2>2
  <2> DEFINE q == [logins[s0] EXCEPT ![k] = to]
  <2>4. Len(q) = Len(logins[s0]) /\ q[1] = to
    BY <1>1, <1>2, <2>2, Updated
  <2>5. logins'[s] = q
    BY <1>1, <1>4 DEF IInv, Shape
  <2> HIDE DEF q
  <2>6. Settled(s, a)'
    BY <1>4, <2>1, <2>3, <2>4, <2>5 DEF Settled
  <2> QED BY <2>3, <2>6 DEF Eases
<1>5. CASE s # s0
  <2>1. CASE server'[a] = server[a]
    <3>1. logins'[s] = logins[s]
      BY <1>1, <1>5
    <3>2. Rested(s)
      BY <3>1, NotRefusedStays DEF Rested
    <3> QED BY <2>1, <3>2, RestedEases
  <2>2. CASE asked[s0] = a
    <3>1. CASE s0 < s
      <4>1. logins'[s0] # <<>> /\ asked'[s0] = a
        BY <1>2, <2>2 DEF Onward
      <4> QED BY <3>1, <4>1 DEF Eases, Waived
    <3>2. CASE s < s0
      <4>1. Doomed(s)'
        BY <1>3, <3>2 DEF Doomed
      <4> QED BY <4>1 DEF Eases, Waived
    <3> QED BY <1>5, <3>1, <3>2, LaunchAssumption DEF Sessions
  <2>3. server'[a] = server[a] \/ asked[s0] = a
    <3>1. server = [i \in Accounts |-> server[i]]
      BY DEF TInv, Typed
    <3> QED BY <3>1
  <2> QED BY <2>1, <2>2, <2>3
<1> QED BY <1>4, <1>5

LEMMA CheckEases ==
  ASSUME IInv, TInv, NEW s0 \in Sessions, CheckAccount(s0),
         NEW s \in Sessions, NEW a \in Accounts, Firm(s, a)
  PROVE  Eases(s, a)
<1> USE DEF checkVars, loginVars, history
<1>1. check[s0]["login"] = "running" /\ UNCHANGED <<logins, relogin>>
  BY DEF CheckAccount
<1>2. s # s0 \/ a # checking[s0].id \/ checking[s0].token # server[a]
  BY <1>1, LaunchAssumption DEF Firm, Outrun, Sessions
<1>3. s # s0
  BY <1>1, NotAsked, Appended DEF Firm, Settled, IInv, Shape
<1>4. CASE OfflineAccount(s0)
  BY <1>1, <1>3, <1>4, LoginChecked, ReturnEases DEF OfflineAccount
<1>5. CASE LoginFails(s0)
  <2>1. PICK e : Returns(s0, "login", e) /\ UNCHANGED <<server, checking>>
    BY <1>5 DEF LoginFails
  <2> QED BY <1>1, <1>3, <2>1, LoginChecked, ReturnEases
<1>6. CASE TokenRefreshed(s0)
  <2>1. /\ UNCHANGED ui /\ checking[s0].token = server[checking[s0].id]
        /\ server' = [server EXCEPT ![checking[s0].id] = @ + 1]
        /\ check' = [check EXCEPT ![s0]["login"] = "refreshed"]
        /\ \E t : checking' = [checking EXCEPT ![s0].token = t]
    BY <1>6 DEF TokenRefreshed
  <2>2. \A r \in Sessions : r # s0 => checking'[r] = checking[r]
    BY <2>1 DEF TInv, Typed
  <2>3. /\ \A r \in Sessions : r # s0 => check'[r]["login"] = check[r]["login"]
        /\ check'[s0]["login"] = "refreshed"
    BY <2>1, LoginChecked DEF TInv, Typed
  <2>4. CASE checking[s0].id = a
    <3>1. ~(s0 <= s)
      BY <1>1, <2>1, <2>4 DEF Firm, Outrun
    <3>2. s0 > s /\ dialog[s0] # "none" /\ UNCHANGED dialog
      BY <1>1, <3>1, NotAsked, LaunchAssumption DEF Sessions, CheckAccount
    <3>3. Doomed(s)'
      BY <3>2 DEF Doomed
    <3> QED BY <3>3 DEF Eases, Waived
  <2>5. CASE checking[s0].id # a
    <3>1. server'[a] = server[a]
      BY <2>1, <2>5 DEF TInv, Typed
    <3>2. Rested(s)
      BY <1>1, <1>3, <2>1, <2>2, <2>3, NotRefusedStays DEF Rested
    <3> QED BY <2>2, <2>3, <3>1, <3>2, RestedEases
  <2> QED BY <2>4, <2>5
<1> QED BY <1>4, <1>5, <1>6 DEF CheckAccount

LEMMA BackgroundEases ==
  ASSUME IInv, TInv, Onward, NEW s0 \in Sessions, Background(s0),
         NEW s \in Sessions, NEW a \in Accounts, Firm(s, a)
  PROVE  Eases(s, a)
<1> USE DEF checkVars, loginVars, history
<1>1. ASSUME NEW c \in FileChecks, CheckEnds(s0, c) PROVE Eases(s, a)
  <2>1. PICK e \in {"ok", "error"} : Returns(s0, c, e)
    BY <1>1 DEF CheckEnds
  <2> QED BY <1>1, <2>1, LoginChecked, ReturnEases DEF CheckEnds
<1>2. CASE CheckAccount(s0)
  BY <1>2, CheckEases
<1>3. CASE PostSave(s0)
  <2>1. /\ check' = [check EXCEPT ![s0]["login"] = "saved"]
        /\ Post(Save(s0, checking[s0])) /\ UNCHANGED <<server, checking, logins, relogin>>
    BY <1>3 DEF PostSave
  <2>2. \A r \in Sessions : check'[r]["login"] \in {check[r]["login"], "saved"}
    BY <2>1, LoginChecked DEF TInv, Typed
  <2>3. NotRefused(s) => NotRefused(s)'
    BY <2>1, Granted, NotRefusedStays
  <2>4. Rested(s)
    BY <2>1, <2>2, <2>3 DEF Rested
  <2> QED BY <2>1, <2>2, <2>4, RestedEases
<1>4. CASE DropToken(s0)
  <2>1. /\ check[s0]["login"] = "refreshed" /\ dropped' = dropped \cup {checking[s0].id}
        /\ UNCHANGED <<server, checking, logins, relogin>>
        /\ \E e : Returns(s0, "login", e)
    BY <1>4 DEF DropToken
  <2>2. CASE s # s0
    BY <2>1, <2>2, LoginChecked, ReturnEases
  <2>3. CASE s = s0
    <3>1. checking[s].id = a
      BY <2>1, <2>3, NotAsked, Appended DEF Firm, Settled, IInv, Shape
    <3> QED BY <2>1, <2>3, <3>1 DEF Eases, Waived
  <2> QED BY <2>2, <2>3
<1>5. CASE CheckAccountReturns(s0)
  BY <1>5, LoginChecked, ReturnEases DEF CheckAccountReturns
<1>6. ASSUME NEW k, LoginBegins(s0, k) \/ LoginRefused(s0, k) \/ LoginEnds(s0, k)
      PROVE  Eases(s, a)
  <2>1. /\ \/ LoginMoves(s0, k, "new", "authenticating")
           \/ LoginMoves(s0, k, "authenticating", "answered")
           \/ LoginMoves(s0, k, "answered", "ended")
        /\ UNCHANGED ui \/ \E b : Post(Buttons(s0, b))
        /\ UNCHANGED <<server, check, checking, relogin, dialog>>
    BY <1>6 DEF LoginBegins, LoginRefused, LoginEnds
  <2>2. PICK from, to : LoginMoves(s0, k, from, to) /\ (from \in Over => to \in Over)
    BY <2>1 DEF Over
  <2>3. UNCHANGED ui \/ \E x : Post(x) /\ ~Refusal(x, s)
    BY <2>1, Granted
  <2> QED BY <2>1, <2>2, <2>3, ThreadEases
<1>7. ASSUME NEW k, LoginAuthenticates(s0, k) PROVE Eases(s, a)
  <2>1. /\ LoginMoves(s0, k, "authenticating", "authenticated") /\ UNCHANGED ui
        /\ server' = [server EXCEPT ![asked[s0]] = @ + 1]
        /\ UNCHANGED <<check, checking, relogin, dialog>>
    BY <1>7 DEF LoginAuthenticates
  <2>2. "authenticating" \notin Over
    BY DEF Over
  <2> QED BY <2>1, <2>2, ThreadEases
<1>8. ASSUME NEW k, LoginPosts(s0, k) \/ LoginDrops(s0, k) PROVE Eases(s, a)
  <2>1. /\ LoginMoves(s0, k, "authenticated", "answered")
        /\ UNCHANGED <<server, check, checking, relogin, dialog>>
        /\ UNCHANGED ui \/ \E A : Post(OnRelogin(s0, A))
    BY <1>8 DEF LoginPosts, LoginDrops
  <2>2. UNCHANGED ui \/ \E x : Post(x) /\ ~Refusal(x, s)
    BY <2>1, Granted
  <2>3. "answered" \in Over
    BY DEF Over
  <2> QED BY <2>1, <2>2, <2>3, ThreadEases
<1>9. ASSUME NEW k, LaunchTask(s0, k) PROVE Eases(s, a)
  <2>1. Post(Launched(s0, k)) /\ UNCHANGED <<server, check, checking, logins, relogin>>
    BY <1>9 DEF LaunchTask
  <2>2. NotRefused(s) => NotRefused(s)'
    BY <2>1, Granted, NotRefusedStays
  <2>3. Rested(s)
    BY <2>1, <2>2 DEF Rested
  <2> QED BY <2>1, <2>3, RestedEases
<1> QED BY <1>1, <1>2, <1>3, <1>4, <1>5, <1>6, <1>7, <1>8, <1>9 DEF Background, ReloginThread

\* An account that is up to date for a session stays so.
LEMMA ValidStays ==
  ASSUME IInv, TInv, OInv, Next, NEW s \in Sessions, NEW A, Valid(s, A)
  PROVE  Valid(s, A)'
<1>1. Onward
  BY Progress
<1>2. A.id \in Accounts
  BY DEF Valid, AccountRecs
<1>3. Firm(s, A.id) => Eases(s, A.id)
  BY <1>1, <1>2, HandlerEases, UserEases, BackgroundEases DEF Next
<1> QED BY <1>1, <1>3, EasesValid

-----------------------------------------------------------------------------
\* Every account that a session brings or launches with is valid

\* Session s brings account A, has refreshed it, launches or started a game with
\* it, or is open, past its log-in, with A selected.
Brings(s, A) == \E n \in DOMAIN ui : Wary(ui[n]) /\ ui[n].s = s /\ ui[n].acct = A

Has(s, A) ==
  \/ Brings(s, A)
  \/ Refreshed(s) /\ checking[s] = A
  \/ \E k \in DOMAIN launch[s] : launch[s][k].acct = A
  \/ \E k \in DOMAIN started : started[k].session = s /\ started[k].acct = A
  \/ dialog[s] = "shown" /\ "login" \in passed[s] /\ account = A

\* The account selected is one that s may launch with.
Own(s) == \A A : A = account => Valid(s, A)

Saving(m, s) == m.what = "save" /\ m.s = s

Grants(m, s) == /\ m.what = "result" /\ m.s = s
                /\ m.check = "login" /\ m.outcome = "ok"

\* The save of what a check refreshed comes before its result.
Promise(s) == dialog[s] = "shown" =>
  /\ \A n \in DOMAIN ui : Grants(ui[n], s) =>
       Own(s) \/ \E k \in DOMAIN ui : k < n /\ Saving(ui[k], s)
  /\ check[s]["login"] = "saved" => Own(s) \/ \E k \in DOMAIN ui : Saving(ui[k], s)

VInv == \A s \in Sessions : Promise(s) /\ \A A : Has(s, A) => Valid(s, A)

\* A step that gives s no account.
Still(s) ==
  /\ \A n \in DOMAIN ui' : Wary(ui'[n]) /\ ui'[n].s = s => \E k \in DOMAIN ui : ui'[n] = ui[k]
  /\ Refreshed(s)' => Refreshed(s) /\ checking'[s] = checking[s]
  /\ \A k \in DOMAIN launch'[s] : k \in DOMAIN launch[s] /\ launch'[s][k].acct = launch[s][k].acct
  /\ UNCHANGED started
  /\ dialog'[s] = "shown" /\ "login" \in passed'[s] =>
       dialog[s] = "shown" /\ "login" \in passed[s] /\ UNCHANGED account

LEMMA StillHas == ASSUME NEW s, NEW A, Still(s), Has(s, A)' PROVE Has(s, A)
BY DEF Still, Has, Brings, Wary, Refreshed

LEMMA OwnStays ==
  ASSUME IInv, TInv, OInv, Next, UNCHANGED account, NEW s \in Sessions, Own(s)
  PROVE  Own(s)'
<1> SUFFICES ASSUME NEW A, A = account' PROVE Valid(s, A)'
  BY DEF Own
<1>1. Valid(s, A)
  BY DEF Own
<1> QED BY <1>1, ValidStays

LEMMA Backs ==
  ASSUME IInv, TInv, OInv, VInv, Next,
         \A s \in Sessions : Promise(s)' /\ \A A : Has(s, A)' => Has(s, A) \/ Valid(s, A)'
  PROVE  VInv'
<1> SUFFICES ASSUME NEW s \in Sessions PROVE Promise(s)' /\ \A A : Has(s, A)' => Valid(s, A)'
  BY DEF VInv
<1>1. ASSUME NEW A, Has(s, A)' PROVE Valid(s, A)'
  <2>1. Has(s, A) => Valid(s, A)
    BY DEF VInv
  <2> QED BY <1>1, <2>1, ValidStays
<1> QED BY <1>1

\* The mail of a step that posts no account.
LEMMA SameMail ==
  ASSUME IInv,
         \/ UNCHANGED ui
         \/ ui # <<>> /\ ui' = Tail(ui)
         \/ \E x : Post(x) /\ ~Wary(x)
  PROVE  \A n \in DOMAIN ui' : Wary(ui'[n]) => \E k \in DOMAIN ui : ui'[n] = ui[k]
<1>1. CASE UNCHANGED ui
  BY <1>1
<1>2. CASE ui # <<>> /\ ui' = Tail(ui)
  BY <1>2, TailOf DEF IInv, Shape
<1>3. ASSUME NEW x, Post(x), ~Wary(x)
      PROVE  \A n \in DOMAIN ui' : Wary(ui'[n]) => \E k \in DOMAIN ui : ui'[n] = ui[k]
  BY <1>3, Grown
<1> QED BY <1>1, <1>2, <1>3

LEMMA PromiseStays ==
  ASSUME IInv, TInv, OInv, Next, NEW s \in Sessions, Promise(s), UNCHANGED account,
         dialog'[s] = "shown" => dialog[s] = "shown",
         check'[s]["login"] = "saved" =>
           check[s]["login"] = "saved" \/ \E k \in DOMAIN ui' : Saving(ui'[k], s),
         \/ UNCHANGED ui
         \/ ui # <<>> /\ ui' = Tail(ui) /\ Head(ui).what # "save"
         \/ \E x : /\ Post(x)
                   /\ dialog[s] = "shown" /\ Grants(x, s) =>
                        Own(s) \/ Own(s)' \/ \E k \in DOMAIN ui : Saving(ui[k], s)
  PROVE  Promise(s)'
<1>1. CASE Own(s) \/ Own(s)'
  <2>1. Own(s)'
    BY <1>1, OwnStays
  <2> QED BY <2>1 DEF Promise
<1>2. CASE ~Own(s) /\ ~Own(s)'
  <2> SUFFICES ASSUME dialog'[s] = "shown"
               PROVE  /\ \A n \in DOMAIN ui' : Grants(ui'[n], s) =>
                           \E k \in DOMAIN ui' : k < n /\ Saving(ui'[k], s)
                      /\ check'[s]["login"] = "saved" => \E k \in DOMAIN ui' : Saving(ui'[k], s)
    BY DEF Promise, Grants, Saving
  <2>1. /\ \A n \in DOMAIN ui : Grants(ui[n], s) => \E k \in DOMAIN ui : k < n /\ Saving(ui[k], s)
        /\ check[s]["login"] = "saved" => \E k \in DOMAIN ui : Saving(ui[k], s)
    BY <1>2 DEF Promise
  <2>2. CASE UNCHANGED ui
    BY <2>1, <2>2
  <2>3. CASE ui # <<>> /\ ui' = Tail(ui) /\ Head(ui).what # "save"
    <3>1. ~Wary(Head(ui)) \/ Head(ui).what = "onRelogin"
      BY <2>3 DEF Wary
    <3>2. /\ 1 \in DOMAIN ui /\ Head(ui) = ui[1] /\ Len(ui) \in Nat /\ DOMAIN ui = 1..Len(ui)
          /\ \A n \in DOMAIN ui' : n \in Nat \ {0} /\ n + 1 \in DOMAIN ui /\ ui'[n] = ui[n + 1]
      BY <2>3, TailOf, Appended DEF IInv, Shape
    <3>3. DOMAIN ui' = 1..(Len(ui) - 1)
      <4>1. PICK S : ui \in Seq(S)
        BY DEF IInv, Shape, IsSeq
      <4> QED BY <2>3, <4>1
    <3>4. \A k \in DOMAIN ui : Saving(ui[k], s) =>
            k \in Nat /\ k - 1 \in Nat /\ k - 1 \in DOMAIN ui' /\ Saving(ui'[k - 1], s)
      <4> SUFFICES ASSUME NEW k \in DOMAIN ui, Saving(ui[k], s)
                   PROVE  /\ k \in Nat /\ k - 1 \in Nat /\ k - 1 \in DOMAIN ui'
                          /\ Saving(ui'[k - 1], s)
        OBVIOUS
      <4>1. k # 1
        BY <2>3, <3>2 DEF Saving
      <4>2. k \in Nat /\ k - 1 \in Nat /\ k - 1 \in DOMAIN ui' /\ (k - 1) + 1 = k
        BY <3>2, <3>3, <4>1
      <4> QED BY <3>2, <4>2
    <3>5. ASSUME NEW n \in DOMAIN ui', Grants(ui'[n], s)
          PROVE  \E k \in DOMAIN ui' : k < n /\ Saving(ui'[k], s)
      <4>1. PICK k \in DOMAIN ui : k < n + 1 /\ Saving(ui[k], s)
        BY <2>1, <3>2, <3>5
      <4>2. n \in Nat /\ k \in Nat /\ k - 1 < n
        BY <3>2, <3>4, <4>1
      <4> QED BY <3>4, <4>1, <4>2
    <3> QED BY <2>1, <3>4, <3>5
  <2>4. ASSUME NEW x, Post(x),
               dialog[s] = "shown" /\ Grants(x, s) => \E k \in DOMAIN ui : Saving(ui[k], s)
        PROVE  /\ \A n \in DOMAIN ui' : Grants(ui'[n], s) =>
                    \E k \in DOMAIN ui' : k < n /\ Saving(ui'[k], s)
               /\ check'[s]["login"] = "saved" => \E k \in DOMAIN ui' : Saving(ui'[k], s)
    <3>1. PICK p \in DOMAIN ui' :
            /\ ui'[p] = x /\ p \in Nat
            /\ \A n \in DOMAIN ui : n \in Nat /\ n < p /\ n \in DOMAIN ui' /\ ui'[n] = ui[n]
            /\ \A n \in DOMAIN ui' : n \in DOMAIN ui \/ n = p
      BY <2>4, Grown
    <3>2. ASSUME NEW n \in DOMAIN ui', Grants(ui'[n], s)
          PROVE  \E k \in DOMAIN ui' : k < n /\ Saving(ui'[k], s)
      <4>1. CASE n \in DOMAIN ui
        BY <2>1, <3>1, <3>2, <4>1
      <4>2. CASE n = p
        BY <2>4, <3>1, <3>2, <4>2
      <4> QED BY <3>1, <4>1, <4>2
    <3> QED BY <2>1, <3>1, <3>2
  <2> QED BY <1>2, <2>2, <2>3, <2>4
<1> QED BY <1>1, <1>2

\* A closed dialog shows no result.
LEMMA ResultShown ==
  ASSUME IInv, CInv, onFinish, Head(ui).check \notin cancelled[Head(ui).s]
  PROVE  dialog[Head(ui).s] = "shown"
<1>1. PICK s0, c0 : s0 = Head(ui).s /\ c0 = Head(ui).check
  OBVIOUS
<1>2. s0 \in Sessions /\ c0 \in Checks /\ check[s0][c0] = "posted"
  BY <1>1, ResultTaken DEF Taken
<1>3. dialog[s0] # "none" /\ Games(s0) = {}
  BY <1>2, Unanswered
<1>4. s0 \notin exited
  BY <1>1, <1>2 DEF IInv, Exits, Exit
<1> QED BY <1>1, <1>2, <1>3, <1>4 DEF CInv, Ended

\* What is saved is the account of the only session open, or makes the list stale.
LEMMA OwnBrought ==
  ASSUME IInv, TInv, OInv, VInv, Next, saveAccount \/ onRelogin,
         NEW s \in Sessions, dialog[s] = "shown"
  PROVE  Own(s)'
<1>1. PICK m, s0, A : m = Head(ui) /\ s0 = m.s /\ A = m.acct
  OBVIOUS
<1>2. /\ ui # <<>> /\ Wary(m) /\ account' = A /\ stale' = (stale \/ Overtaken(s0, A))
      /\ UNCHANGED dialog
  BY <1>1 DEF saveAccount, onRelogin, Message, Wary
<1>3. 1 \in DOMAIN ui /\ m = ui[1]
  BY <1>1, <1>2, TailOf DEF IInv, Shape
<1>4. s0 \in Sessions /\ dialog[s0] # "none" /\ A \in AccountRecs
  BY <1>1, <1>2, <1>3 DEF IInv, Mail, Fits, Says, OInv, Signed, TInv, Contents, Content
<1>5. Valid(s, A)'
  <2>1. CASE s = s0
    <3>1. Has(s, A)
      BY <1>1, <1>2, <1>3, <2>1 DEF Has, Brings
    <3>2. Valid(s, A)
      BY <3>1 DEF VInv
    <3> QED BY <3>2, ValidStays
  <2>2. CASE s # s0
    <3>1. ~(s < s0)
      BY <1>4 DEF OInv, Successive
    <3>2. s > s0
      BY <1>4, <2>2, <3>1, LaunchAssumption DEF Sessions
    <3>3. stale'
      BY <1>2, <3>2 DEF Overtaken
    <3> QED BY <1>4, <3>3 DEF Valid, Waived
  <2> QED BY <2>1, <2>2
<1> QED BY <1>2, <1>5 DEF Own

LEMMA BringBacks ==
  ASSUME IInv, TInv, OInv, VInv, Next, saveAccount \/ onRelogin
  PROVE  VInv'
<1> USE DEF checkVars, loginVars, history
<1>1. PICK m, s0, B : m = Head(ui) /\ s0 = m.s /\ B = m.acct
  OBVIOUS
<1>2. /\ ui # <<>> /\ ui' = Tail(ui) /\ Wary(m) /\ account' = B
      /\ UNCHANGED <<dialog, check, checking, started>>
  BY <1>1 DEF saveAccount, onRelogin, Message, Wary
<1>3. 1 \in DOMAIN ui /\ m = ui[1] /\ s0 \in Sessions
  <2>1. 1 \in DOMAIN ui /\ m = ui[1]
    BY <1>1, <1>2, TailOf DEF IInv, Shape
  <2> QED BY <1>1, <2>1 DEF IInv, Mail, Fits, Says
<1>4. Launch(s0, B)
  BY <1>1 DEF saveAccount, onRelogin, checkState, Launch
<1>5. \A s \in Sessions : \A k \in DOMAIN launch'[s] :
        \/ k \in DOMAIN launch[s] /\ launch'[s][k].acct = launch[s][k].acct
        \/ s = s0 /\ launch'[s][k].acct = B
  BY <1>3, <1>4, LaunchAdds
<1>6. Valid(s0, B)
  <2>1. Has(s0, B)
    BY <1>1, <1>2, <1>3 DEF Has, Brings
  <2> QED BY <1>3, <2>1 DEF VInv
<1>7. \A n \in DOMAIN ui' : Wary(ui'[n]) => \E k \in DOMAIN ui : ui'[n] = ui[k]
  BY <1>2, SameMail
<1>8. \A s \in Sessions : dialog'[s] = "shown" => Own(s)'
  BY <1>2, OwnBrought
<1>9. ASSUME NEW s \in Sessions, NEW A, Has(s, A)' PROVE Has(s, A) \/ Valid(s, A)'
  <2>1. CASE Brings(s, A)'
    BY <1>7, <2>1 DEF Has, Brings, Wary
  <2>2. CASE Refreshed(s)' /\ checking'[s] = A
    BY <1>2, <2>2 DEF Has, Refreshed
  <2>3. ASSUME NEW k \in DOMAIN launch'[s], launch'[s][k].acct = A
        PROVE  Has(s, A) \/ Valid(s, A)'
    <3>1. CASE k \in DOMAIN launch[s] /\ launch'[s][k].acct = launch[s][k].acct
      BY <2>3, <3>1 DEF Has
    <3>2. CASE s = s0 /\ A = B
      BY <1>6, <3>2, ValidStays
    <3> QED BY <1>5, <2>3, <3>1, <3>2
  <2>4. CASE \E k \in DOMAIN started' : started'[k].session = s /\ started'[k].acct = A
    BY <1>2, <2>4 DEF Has
  <2>5. CASE dialog'[s] = "shown" /\ account' = A
    BY <1>8, <2>5 DEF Own
  <2> QED BY <1>9, <2>1, <2>2, <2>3, <2>4, <2>5 DEF Has
<1>10. \A s \in Sessions : Promise(s)'
  BY <1>8 DEF Promise
<1> QED BY <1>9, <1>10, Backs

\* A check passes, and with the last of them the game is launched.
LEMMA PassBacks ==
  ASSUME IInv, TInv, CInv, OInv, VInv, Next, onFinish, Passes(Head(ui).s, Head(ui).check),
         Head(ui).check \notin cancelled[Head(ui).s], Head(ui).outcome = "ok"
  PROVE  VInv'
<1>1. PICK m, s0, c0 : m = Head(ui) /\ s0 = m.s /\ c0 = m.check
  OBVIOUS
<1>2. /\ s0 \in Sessions /\ c0 \in Checks /\ dialog[s0] = "shown"
      /\ check'[s0][c0] = "finished"
      /\ \A s \in Sessions, c \in Checks : s # s0 \/ c # c0 => check'[s][c] = check[s][c]
  BY <1>1, ResultTaken, ResultShown DEF Taken
<1>3. /\ ui # <<>> /\ ui' = Tail(ui) /\ m.what = "result"
      /\ UNCHANGED <<dialog, checking, started, account>>
      /\ passed' = [passed EXCEPT ![s0] = @ \cup {c0}]
  BY <1>1 DEF onFinish, Message, Passes
<1>4. launch' # launch => passed'[s0] = Checks /\ Launch(s0, account)
  BY <1>1 DEF Passes, checkState, Launch
<1>5. 1 \in DOMAIN ui /\ m = ui[1] /\ \A n \in DOMAIN ui : n \in Nat \ {0}
  BY <1>1, <1>3, TailOf, Places DEF IInv, Shape
<1>6. /\ passed'[s0] = passed[s0] \cup {c0}
      /\ \A s \in Sessions : s # s0 => passed'[s] = passed[s]
  BY <1>2, <1>3 DEF TInv, Typed
<1>7. "login" \in passed'[s0] => Own(s0)
  <2>1. CASE c0 = "login"
    <3>1. Grants(ui[1], s0)
      BY <1>1, <1>3, <1>5, <2>1 DEF Grants
    <3>2. ~\E k \in DOMAIN ui : k < 1
      BY <1>5
    <3> QED BY <1>2, <1>5, <3>1, <3>2 DEF VInv, Promise
  <2>2. CASE "login" \in passed[s0]
    <3>1. \A A : A = account => Has(s0, A)
      BY <1>2, <2>2 DEF Has
    <3> QED BY <1>2, <3>1 DEF VInv, Own
  <2> QED BY <1>6, <2>1, <2>2
<1>8. "login" \in passed'[s0] => Own(s0)'
  BY <1>2, <1>3, <1>7, OwnStays
<1>9. \A n \in DOMAIN ui' : Wary(ui'[n]) => \E k \in DOMAIN ui : ui'[n] = ui[k]
  BY <1>3, SameMail
<1>10. \A s \in Sessions : check'[s]["login"] \in {check[s]["login"], "finished"}
  BY <1>2, NotLogin
<1>11. ASSUME NEW s \in Sessions, NEW A, Has(s, A)' PROVE Has(s, A) \/ Valid(s, A)'
  <2>1. CASE Brings(s, A)'
    BY <1>9, <2>1 DEF Has, Brings, Wary
  <2>2. CASE Refreshed(s)' /\ checking'[s] = A
    BY <1>3, <1>10, <2>2 DEF Has, Refreshed
  <2>3. ASSUME NEW k \in DOMAIN launch'[s], launch'[s][k].acct = A
        PROVE  Has(s, A) \/ Valid(s, A)'
    <3>1. CASE UNCHANGED launch
      BY <2>3, <3>1 DEF Has
    <3>2. CASE launch' # launch
      <4>1. \/ k \in DOMAIN launch[s] /\ launch'[s][k].acct = launch[s][k].acct
            \/ s = s0 /\ launch'[s][k].acct = account
        BY <1>2, <1>4, <2>3, <3>2, LaunchAdds
      <4>2. CASE k \in DOMAIN launch[s] /\ launch'[s][k].acct = launch[s][k].acct
        BY <2>3, <4>2 DEF Has
      <4>3. CASE s = s0 /\ A = account
        <5>1. Own(s0)'
          BY <1>4, <1>8, <3>2, NotLogin
        <5> QED BY <1>3, <4>3, <5>1 DEF Own
      <4> QED BY <2>3, <4>1, <4>2, <4>3
    <3> QED BY <3>1, <3>2
  <2>4. CASE \E k \in DOMAIN started' : started'[k].session = s /\ started'[k].acct = A
    BY <1>3, <2>4 DEF Has
  <2>5. CASE dialog'[s] = "shown" /\ "login" \in passed'[s] /\ account' = A
    <3>1. CASE s = s0
      BY <1>8, <2>5, <3>1 DEF Own
    <3>2. CASE s # s0
      BY <1>3, <1>6, <2>5, <3>2 DEF Has
    <3> QED BY <3>1, <3>2
  <2> QED BY <1>11, <2>1, <2>2, <2>3, <2>4, <2>5 DEF Has
<1>12. ASSUME NEW s \in Sessions PROVE Promise(s)'
  <2>1. /\ ui # <<>> /\ ui' = Tail(ui) /\ Head(ui).what # "save" /\ UNCHANGED <<account, dialog>>
        /\ check'[s]["login"] = "saved" => check[s]["login"] = "saved"
    BY <1>1, <1>3, <1>10
  <2>2. Promise(s)
    BY DEF VInv
  <2> QED BY <2>1, <2>2, PromiseStays
<1> QED BY <1>11, <1>12, Backs

\* The LaunchTasks of every session keep their accounts.
SameAccounts ==
  \A s \in Sessions : \A k \in DOMAIN launch'[s] :
    k \in DOMAIN launch[s] /\ launch'[s][k].acct = launch[s][k].acct

LEMMA AccountsSame ==
  ASSUME IInv,
         \/ UNCHANGED launch
         \/ \E s0 \in Sessions : exit(s0)
         \/ \E st : \E s0 \in Sessions : \E n \in DOMAIN launch[s0] :
              launch' = [launch EXCEPT ![s0][n].state = st]
  PROVE  SameAccounts
<1>1. CASE UNCHANGED launch
  BY <1>1 DEF SameAccounts
<1>2. CASE \E s0 \in Sessions : exit(s0)
  BY <1>2, ExitCancels DEF SameAccounts, SameTasks
<1>3. ASSUME NEW s0 \in Sessions, NEW st, NEW n \in DOMAIN launch[s0],
             launch' = [launch EXCEPT ![s0][n].state = st]
      PROVE  SameAccounts
  <2>1. TaskMovesTo(s0, n, st)
    BY <1>3, TaskMoves
  <2>2. ASSUME NEW k \in DOMAIN launch'[s0]
        PROVE  k \in DOMAIN launch[s0] /\ launch'[s0][k].acct = launch[s0][k].acct
    BY <2>1, <2>2 DEF TaskMovesTo
  <2> QED BY <2>1, <2>2 DEF TaskMovesTo, SameAccounts
<1> QED BY <1>1, <1>2, <1>3

\* A step that gives no session an account.
LEMMA StillBacks ==
  ASSUME IInv, TInv, OInv, VInv, Next, UNCHANGED <<account, started>>, SameAccounts,
         \A s \in Sessions :
           /\ dialog'[s] = "shown" => dialog[s] = "shown"
           /\ "login" \in passed'[s] => "login" \in passed[s]
           /\ Refreshed(s)' => Refreshed(s) /\ checking'[s] = checking[s]
           /\ check'[s]["login"] = "saved" => check[s]["login"] = "saved",
         \/ UNCHANGED ui
         \/ ui # <<>> /\ ui' = Tail(ui) /\ Head(ui).what # "save"
         \/ \E x : /\ Post(x) /\ ~Wary(x)
                   /\ \A s \in Sessions : dialog[s] = "shown" /\ Grants(x, s) =>
                        Own(s) \/ Own(s)' \/ \E k \in DOMAIN ui : Saving(ui[k], s)
  PROVE  VInv'
<1>1. \A n \in DOMAIN ui' : Wary(ui'[n]) => \E k \in DOMAIN ui : ui'[n] = ui[k]
  BY SameMail
<1>2. \A s \in Sessions : Still(s)
  BY <1>1 DEF Still, SameAccounts
<1>3. \A s \in Sessions : Promise(s)'
  <2> SUFFICES ASSUME NEW s \in Sessions PROVE Promise(s)'
    OBVIOUS
  <2>1. Promise(s)
    BY DEF VInv
  <2>2. \/ UNCHANGED ui
        \/ ui # <<>> /\ ui' = Tail(ui) /\ Head(ui).what # "save"
        \/ \E x : /\ Post(x)
                  /\ dialog[s] = "shown" /\ Grants(x, s) =>
                       Own(s) \/ Own(s)' \/ \E k \in DOMAIN ui : Saving(ui[k], s)
    OBVIOUS
  <2> QED BY <2>1, <2>2, PromiseStays
<1> QED BY <1>2, <1>3, StillHas, Backs

LEMMA GameBacks ==
  ASSUME IInv, TInv, OInv, VInv, Next, startGame
  PROVE  VInv'
<1> USE DEF checkVars, loginVars, history
<1>1. PICK m, s0, k0, B : m = Head(ui) /\ s0 = m.s /\ k0 = m.task /\ B = launch[s0][k0].acct
  OBVIOUS
<1> DEFINE g == [session |-> s0, acct |-> B]
<1>2. /\ ui # <<>> /\ ui' = Tail(ui) /\ m.what = "launched"
      /\ launch' = [launch EXCEPT ![s0][k0].state = "finished"]
      /\ UNCHANGED <<account, check, passed, checking>>
      /\ UNCHANGED dialog \/ dialog' = [dialog EXCEPT ![s0] = "gone"]
      /\ UNCHANGED started \/ started' = Append(started, g)
  BY <1>1 DEF startGame, Message
<1>3. s0 \in Sessions /\ k0 \in DOMAIN launch[s0]
  <2>1. 1 \in DOMAIN ui /\ m = ui[1]
    BY <1>1, <1>2, TailOf DEF IInv, Shape
  <2>2. Says(m, check, launch, relogin)
    BY <2>1 DEF IInv, Mail, Fits
  <2> QED BY <1>1, <1>2, <2>2 DEF Says
<1>4. SameAccounts
  <2>1. launch' = [launch EXCEPT ![s0][k0].state = "finished"]
    BY <1>2
  <2> QED BY <1>3, <2>1, AccountsSame
<1>5. \A s \in Sessions : dialog'[s] = "shown" => dialog[s] = "shown"
  BY <1>2, <1>3 DEF TInv, Typed
<1>6. \A n \in DOMAIN started' :
        \/ n \in DOMAIN started /\ started'[n] = started[n]
        \/ started'[n].session = s0 /\ started'[n].acct = B
  <2>1. CASE UNCHANGED started
    BY <2>1
  <2>2. CASE started' = Append(started, g)
    <3>1. g.session = s0 /\ g.acct = B
      OBVIOUS
    <3> HIDE DEF g
    <3>2. /\ Len(started) \in Nat /\ DOMAIN started = 1..Len(started)
          /\ DOMAIN started' = 1..(Len(started) + 1)
          /\ \A n \in DOMAIN started : started'[n] = started[n]
          /\ started'[Len(started) + 1] = g
      BY <2>2, Appended DEF IInv, Shape
    <3>3. \A n \in DOMAIN started' : n \in DOMAIN started \/ n = Len(started) + 1
      BY <3>2
    <3> QED BY <3>1, <3>2, <3>3
  <2> QED BY <1>2, <2>1, <2>2
<1> HIDE DEF g
<1>7. \A n \in DOMAIN ui' : Wary(ui'[n]) => \E k \in DOMAIN ui : ui'[n] = ui[k]
  BY <1>2, SameMail
<1>8. Has(s0, B)
  BY <1>1, <1>3 DEF Has
<1>9. ASSUME NEW s \in Sessions, NEW A, Has(s, A)' PROVE Has(s, A)
  <2>1. CASE Brings(s, A)'
    BY <1>7, <2>1 DEF Has, Brings, Wary
  <2>2. CASE Refreshed(s)' /\ checking'[s] = A
    BY <1>2, <2>2 DEF Has, Refreshed
  <2>3. CASE \E k \in DOMAIN launch'[s] : launch'[s][k].acct = A
    BY <1>4, <2>3 DEF Has, SameAccounts
  <2>4. ASSUME NEW k \in DOMAIN started', started'[k].session = s, started'[k].acct = A
        PROVE  Has(s, A)
    <3>1. CASE k \in DOMAIN started /\ started'[k] = started[k]
      BY <2>4, <3>1 DEF Has
    <3>2. CASE s = s0 /\ A = B
      BY <1>8, <3>2
    <3> QED BY <1>6, <2>4, <3>1, <3>2
  <2>5. CASE dialog'[s] = "shown" /\ "login" \in passed'[s] /\ account' = A
    BY <1>2, <1>5, <2>5 DEF Has
  <2> QED BY <1>9, <2>1, <2>2, <2>3, <2>4, <2>5 DEF Has
<1>10. ASSUME NEW s \in Sessions PROVE Promise(s)'
  <2>1. Promise(s) /\ Head(ui).what # "save"
    BY <1>1, <1>2 DEF VInv
  <2> QED BY <1>2, <1>5, <2>1, PromiseStays
<1> QED BY <1>9, <1>10, Backs

LEMMA HandlerBacks ==
  ASSUME IInv, TInv, CInv, OInv, VInv, Next, UIThread
  PROVE  VInv'
<1> USE DEF checkVars, loginVars, history
<1>1. CASE saveAccount \/ onRelogin
  BY <1>1, BringBacks
<1>2. CASE startGame
  BY <1>2, GameBacks
<1>3. CASE setButtons
  <2>1. /\ ui # <<>> /\ ui' = Tail(ui) /\ Head(ui).what # "save"
        /\ UNCHANGED <<account, started, launch, dialog, passed, check, checking>>
    BY <1>3 DEF setButtons, Message
  <2>2. SameAccounts
    BY <2>1, AccountsSame
  <2> QED BY <2>1, <2>2, StillBacks DEF Refreshed
<1>4. CASE onFinish
  <2>1. PICK m, s0, c0 : m = Head(ui) /\ s0 = m.s /\ c0 = m.check
    OBVIOUS
  <2>2. CASE Passes(s0, c0) /\ c0 \notin cancelled[s0] /\ m.outcome = "ok"
    BY <1>4, <2>1, <2>2, PassBacks
  <2>3. CASE \/ UNCHANGED <<dialog, cancelled, exited, passed, launch, relogin, asked, crashed>>
             \/ throwException(s0) \/ AskPassword(s0)
    <3>1. /\ ui # <<>> /\ ui' = Tail(ui) /\ Head(ui).what # "save"
          /\ UNCHANGED <<account, started, checking>>
      BY <1>4 DEF onFinish, Message
    <3>2. /\ s0 \in Sessions /\ c0 \in Checks /\ check'[s0][c0] = "finished"
          /\ \A s \in Sessions, c \in Checks : s # s0 \/ c # c0 => check'[s][c] = check[s][c]
      BY <1>4, <2>1, ResultTaken DEF Taken
    <3>3. \A s \in Sessions : check'[s]["login"] \in {check[s]["login"], "finished"}
      BY <3>2, NotLogin
    <3>4. UNCHANGED passed /\ (UNCHANGED <<dialog, launch>> \/ exit(s0))
      BY <2>3 DEF throwException, AskPassword
    <3>5. SameAccounts
      BY <3>2, <3>4, AccountsSame
    <3>6. UNCHANGED dialog \/ dialog' = [dialog EXCEPT ![s0] = "gone"]
      BY <3>4 DEF exit
    <3>7. \A s \in Sessions : dialog'[s] = "shown" => dialog[s] = "shown"
      BY <3>6 DEF TInv, Typed
    <3> QED BY <3>1, <3>3, <3>4, <3>5, <3>7, StillBacks DEF Refreshed
  <2> QED BY <1>4, <2>1, <2>2, <2>3 DEF onFinish
<1> QED BY <1>1, <1>2, <1>3, <1>4 DEF UIThread

LEMMA UserBacks ==
  ASSUME IInv, TInv, OInv, VInv, Next, User
  PROVE  VInv'
<1> USE DEF checkVars, loginVars, history
<1>1. ASSUME NEW i \in Accounts, SelectAccount(i) PROVE VInv'
  <2>1. /\ UNCHANGED <<ui, launch, dialog, passed, check, checking, started>>
        /\ \A s \in Sessions : dialog'[s] # "shown"
    BY <1>1 DEF SelectAccount, MainScreen
  <2>2. \A s \in Sessions : Still(s) /\ Promise(s)'
    BY <2>1 DEF Still, Refreshed, Promise
  <2> QED BY <2>2, StillHas, Backs
<1>2. ASSUME NEW s0 \in Sessions, startCheckTasks(s0) PROVE VInv'
  <2>1. /\ UNCHANGED <<account, ui, launch, passed, started>> /\ dialog[s0] = "none"
        /\ \A s \in Sessions : dialog[s] # "shown"
        /\ dialog' = [dialog EXCEPT ![s0] = "shown"]
        /\ check' = [check EXCEPT ![s0] = [c \in Checks |-> "running"]]
        /\ checking' = [checking EXCEPT ![s0] = account]
    BY <1>2 DEF startCheckTasks, MainScreen
  <2>2. /\ \A s \in Sessions : s # s0 => /\ dialog'[s] = dialog[s] /\ check'[s] = check[s]
                                         /\ checking'[s] = checking[s]
        /\ check'[s0]["login"] = "running"
    BY <2>1, NotLogin DEF TInv, Typed
  <2>3. /\ passed[s0] = {} /\ \A c \in Checks : check[s0][c] = "none"
        /\ \A n \in DOMAIN ui : ~Grants(ui[n], s0)
    <3>1. passed[s0] = {} /\ \A c \in Checks : check[s0][c] = "none"
      BY <2>1 DEF IInv, Stages, Stage
    <3> QED BY <3>1, NotLogin DEF IInv, Mail, Fits, Says, Grants
  <2>4. ASSUME NEW s \in Sessions PROVE Still(s) /\ Promise(s)'
    <3>1. CASE s = s0
      BY <2>1, <2>2, <2>3, <3>1 DEF Still, Refreshed, Promise, Grants
    <3>2. CASE s # s0
      BY <2>1, <2>2, <3>2 DEF Still, Refreshed, Promise
    <3> QED BY <3>1, <3>2
  <2> QED BY <2>4, StillHas, Backs
<1>3. ASSUME NEW s0 \in Sessions, CancelClick(s0) \/ ReloginClick(s0) \/ ReloginCancelClick(s0)
      PROVE  VInv'
  <2>1. /\ UNCHANGED <<account, ui, passed, check, checking, started>>
        /\ UNCHANGED <<dialog, launch>> \/ exit(s0)
    BY <1>3 DEF CancelClick, ReloginClick, ReloginCancelClick
  <2>2. SameAccounts
    BY <2>1, AccountsSame
  <2>3. UNCHANGED dialog \/ dialog' = [dialog EXCEPT ![s0] = "gone"]
    BY <2>1 DEF exit
  <2>4. \A s \in Sessions : dialog'[s] = "shown" => dialog[s] = "shown"
    BY <2>3 DEF TInv, Typed
  <2> QED BY <2>1, <2>2, <2>4, StillBacks DEF Refreshed
<1> QED BY <1>1, <1>2, <1>3 DEF User

\* An open dialog checks the account that is selected.
LEMMA OwnWaived ==
  ASSUME TInv, CInv, OInv, NEW s \in Sessions, dialog[s] = "shown"
  PROVE  stale \/ account.id = checking[s].id
BY DEF CInv, Chosen, OInv, Matching

\* A check of s0 returns.
LEMMA ReturnBacks ==
  ASSUME IInv, TInv, OInv, VInv, Next, NEW s0 \in Sessions, NEW c \in Checks, NEW e,
         Returns(s0, c, e), UNCHANGED <<account, started, launch, dialog, passed, checking>>,
         dialog[s0] = "shown" /\ c = "login" /\ e = "ok" =>
           Own(s0) \/ Own(s0)' \/ \E k \in DOMAIN ui : Saving(ui[k], s0)
  PROVE  VInv'
<1>1. \A r \in Sessions : \/ check'[r]["login"] = check[r]["login"]
                          \/ check'[r]["login"] \in {"finished", "posted"}
  <2>1. \E v \in {"finished", "posted"} : check' = [check EXCEPT ![s0][c] = v]
    BY DEF Returns
  <2> QED BY <2>1, NotLogin DEF TInv, Typed
<1>2. SameAccounts
  BY AccountsSame
<1>3. \/ UNCHANGED ui
      \/ \E x : /\ Post(x) /\ ~Wary(x)
                /\ \A s \in Sessions : dialog[s] = "shown" /\ Grants(x, s) =>
                     Own(s) \/ Own(s)' \/ \E k \in DOMAIN ui : Saving(ui[k], s)
  <2>1. CASE UNCHANGED ui
    BY <2>1
  <2>2. CASE Post(Result(s0, c, e))
    <3>1. PICK x : x = Result(s0, c, e)
      OBVIOUS
    <3>2. ~Wary(x) /\ \A s \in Sessions : Grants(x, s) => s = s0 /\ c = "login" /\ e = "ok"
      BY <3>1 DEF Wary, Grants, Result
    <3>3. \A s \in Sessions : dialog[s] = "shown" /\ Grants(x, s) =>
            Own(s) \/ Own(s)' \/ \E k \in DOMAIN ui : Saving(ui[k], s)
      BY <3>2
    <3> QED BY <2>2, <3>1, <3>2, <3>3
  <2> QED BY <2>1, <2>2 DEF Returns
<1> QED BY <1>1, <1>2, <1>3, StillBacks DEF Refreshed

\* The server gave the token last: no check up to s0 has it.
LEMMA NewestOutruns ==
  ASSUME TInv, OInv, NEW a \in Accounts, server' = [server EXCEPT ![a] = @ + 1],
         NEW s0 \in Sessions,
         \A r \in Sessions : check'[r]["login"] = "running" => checking'[r] = checking[r]
  PROVE  Outrun(s0, a)' /\ server'[a] # server[a]
<1>1. server[a] \in Nat /\ server'[a] = server[a] + 1
  BY LaunchAssumption DEF TInv, Typed
<1>2. \A r \in Sessions : checking[r] \in AccountRecs /\ checking[r].token <= server[checking[r].id]
  BY DEF TInv, Typed, OInv, KnownTokens, Around, Known
<1>3. \A r \in Sessions : checking[r].token \in Nat
  BY <1>2, LaunchAssumption DEF AccountRecs
<1>4. \A r \in Sessions : checking[r].id = a => checking[r].token # server'[a]
  BY <1>1, <1>2, <1>3
<1> QED BY <1>1, <1>4 DEF Outrun

\* The token a check refreshed is valid.
LEMMA RefreshBacks ==
  ASSUME IInv, TInv, TInv', OInv, VInv, Next, NEW s0 \in Sessions,
         CheckAccount(s0), TokenRefreshed(s0)
  PROVE  VInv'
<1> USE DEF checkVars, loginVars, history
<1>1. PICK a : a = checking[s0].id
  OBVIOUS
<1>2. /\ check[s0]["login"] = "running" /\ UNCHANGED ui
      /\ server' = [server EXCEPT ![a] = @ + 1]
      /\ checking' = [checking EXCEPT ![s0].token = server'[a]]
      /\ check' = [check EXCEPT ![s0]["login"] = "refreshed"]
      /\ UNCHANGED <<account, started, launch, dialog, passed, logins, relogin>>
  BY <1>1 DEF CheckAccount, TokenRefreshed
<1>3. /\ a \in Accounts /\ checking'[s0].id = a /\ checking'[s0].token = server'[a]
      /\ \A s \in Sessions : s # s0 => checking'[s] = checking[s]
      /\ \A s \in Sessions : s # s0 => check'[s]["login"] = check[s]["login"]
      /\ check'[s0]["login"] = "refreshed"
  BY <1>1, <1>2, NotLogin DEF TInv, Typed, AccountRecs
<1>4. Settled(s0, a)'
  <2>1. logins[s0] = <<>> /\ relogin[s0] = "none"
    BY <1>2, NotAsked
  <2>2. NotRefused(s0)
    BY <1>2 DEF NotRefused, Refusal, IInv, Mail, Fits, Says
  <2>3. NotRefused(s0)'
    BY <1>2, <2>2, NotRefusedStays
  <2> QED BY <1>2, <1>3, <2>1, <2>3 DEF Settled
<1>5. Outrun(s0, a)'
  BY <1>2, <1>3, NewestOutruns
<1>6. dialog'[s0] # "none"
  BY <1>2, NotAsked
<1>7. ASSUME NEW A, checking'[s0] = A PROVE Valid(s0, A)'
  <2>1. A \in AccountRecs /\ A.id = a /\ A.token = server'[a]
    BY <1>3, <1>7 DEF TInv, Typed
  <2>2. Firm(s0, A.id)'
    BY <1>4, <1>5, <1>6, <2>1 DEF Firm
  <2> QED BY <2>1, <2>2 DEF Valid
<1>8. ASSUME NEW s \in Sessions, NEW A, Has(s, A)' PROVE Has(s, A) \/ Valid(s, A)'
  <2>1. CASE Refreshed(s)' /\ checking'[s] = A
    BY <1>3, <1>7, <2>1 DEF Has, Refreshed
  <2> QED BY <1>2, <1>8, <2>1 DEF Has, Brings, Wary
<1>9. ASSUME NEW s \in Sessions PROVE Promise(s)'
  <2>1. Promise(s)
    BY DEF VInv
  <2> QED BY <1>2, <1>3, <2>1, PromiseStays
<1> QED BY <1>8, <1>9, Backs

\* The token a log-in is given is valid, unless there was another log-in.
LEMMA FetchValid ==
  ASSUME IInv, TInv, TInv', OInv, Next, NEW s0 \in Sessions, NEW k, LoginAuthenticates(s0, k),
         NEW B, B = [id |-> asked[s0], token |-> server'[asked[s0]]]
  PROVE  Valid(s0, B)'
<1> USE DEF checkVars, loginVars, history
<1>1. PICK a \in Accounts : a = asked[s0]
  BY DEF TInv, Typed
<1>2. /\ server' = [server EXCEPT ![a] = @ + 1]
      /\ k \in DOMAIN logins[s0] /\ logins' = [logins EXCEPT ![s0][k] = "authenticated"]
      /\ UNCHANGED <<check, checking, dialog>>
  BY <1>1 DEF LoginAuthenticates, LoginMoves
<1>3. B \in AccountRecs /\ B.id = a /\ B.token = server'[a]
  BY <1>1 DEF TInv, Typed, AccountRecs
<1>4. /\ IsSeq(logins[s0]) /\ DOMAIN logins[s0] = 1..Len(logins[s0]) /\ Len(logins[s0]) \in Nat
  BY Appended DEF IInv, Shape
<1>5. dialog'[s0] # "none"
  <2>1. logins[s0] # <<>>
    BY <1>2, <1>4
  <2> QED BY <1>2, <2>1, NotAsked
<1>6. Outrun(s0, a)'
  BY <1>2, NewestOutruns
<1> DEFINE q == [logins[s0] EXCEPT ![k] = "authenticated"]
<1>7. Len(q) = Len(logins[s0]) /\ q[k] = "authenticated"
  BY <1>2, <1>4, Updated
<1>8. logins'[s0] = q
  BY <1>2 DEF IInv, Shape
<1> HIDE DEF q
<1>9. CASE Len(logins[s0]) > 1
  BY <1>3, <1>7, <1>8, <1>9 DEF Valid, Waived
<1>10. CASE ~(Len(logins[s0]) > 1)
  <2>1. k = 1 /\ Len(logins[s0]) = 1
    <3>1. k \in 1..Len(logins[s0]) /\ Len(logins[s0]) \in Nat
      BY <1>2, <1>4
    <3>2. \A n \in Nat : ~(n > 1) /\ k \in 1..n => k = 1 /\ n = 1
      OBVIOUS
    <3> QED BY <1>10, <3>1, <3>2
  <2>2. Settled(s0, a)'
    BY <1>7, <1>8, <2>1 DEF Settled, Over
  <2>3. Firm(s0, B.id)'
    BY <1>3, <1>5, <1>6, <2>2 DEF Firm
  <2> QED BY <1>3, <2>3 DEF Valid
<1> QED BY <1>9, <1>10

\* The tokens that log-in threads hold are valid.
WInv == \A s \in Sessions : \A k \in 1..MaxLogins : \A A :
          Holds(s, k) /\ A = Given(s, k) => Valid(s, A)

LEMMA HeldValid == IInv /\ TInv /\ OInv /\ WInv /\ [Next]_vars => WInv'
<1> SUFFICES ASSUME IInv, TInv, OInv, WInv, [Next]_vars PROVE WInv'
  OBVIOUS
<1>1. CASE UNCHANGED vars
  BY <1>1 DEF vars, checkVars, loginVars, history, WInv, Holds, Given, Valid, Waived, Doomed, Firm,
              Outrun, Settled, NotRefused, Refusal
<1>2. CASE Next
  <2> SUFFICES ASSUME NEW s \in Sessions, NEW k \in 1..MaxLogins, NEW A,
                      Holds(s, k)', A = Given(s, k)'
               PROVE  Valid(s, A)'
    BY DEF WInv
  <2>1. CASE Holds(s, k) /\ Given(s, k)' = Given(s, k)
    <3>1. Valid(s, A)
      BY <2>1 DEF WInv
    <3> QED BY <1>2, <3>1, ValidStays
  <2>2. CASE LoginAuthenticates(s, k)
    <3>1. A = [id |-> asked[s], token |-> server'[asked[s]]]
      BY <2>2, HeldFetched
    <3>2. TInv'
      BY TypesInductive
    <3> QED BY <1>2, <2>2, <3>1, <3>2, FetchValid
  <2> QED BY <1>2, <2>1, <2>2, HeldSteps
<1> QED BY <1>1, <1>2

LEMMA HeldValidInitially == Init => WInv
<1> SUFFICES ASSUME Init, NEW s \in Sessions, NEW k, Holds(s, k) PROVE FALSE
  BY DEF WInv
<1> QED BY DEF Init, Holds

\* A log-in posts the token that it held.
LEMMA PostBacks ==
  ASSUME IInv, TInv, OInv, VInv, WInv, Next, NEW s0 \in Sessions, NEW k \in 1..MaxLogins,
         LoginPosts(s0, k)
  PROVE  VInv'
<1> USE DEF checkVars, loginVars, history
<1>1. PICK B, x : B = Given(s0, k) /\ x = OnRelogin(s0, B)
  OBVIOUS
<1>2. /\ Post(x) /\ Holds(s0, k)
      /\ UNCHANGED <<account, check, checking, started, launch, dialog, passed>>
  BY <1>1 DEF LoginPosts, LoginMoves, Holds, Given
<1>3. /\ Wary(x) /\ x.s = s0 /\ x.acct = B /\ x.what = "onRelogin"
  BY <1>1 DEF Wary, OnRelogin
<1>4. PICK p \in DOMAIN ui' :
        /\ ui'[p] = x
        /\ \A n \in DOMAIN ui' : (n \in DOMAIN ui /\ ui'[n] = ui[n]) \/ n = p
  BY <1>2, Grown
<1>5. Valid(s0, B)'
  <2>1. Valid(s0, B)
    BY <1>1, <1>2 DEF WInv
  <2> QED BY <2>1, ValidStays
<1>6. ASSUME NEW s \in Sessions, NEW A, Has(s, A)' PROVE Has(s, A) \/ Valid(s, A)'
  <2>1. ASSUME NEW n \in DOMAIN ui', Wary(ui'[n]), ui'[n].s = s, ui'[n].acct = A
        PROVE  Has(s, A) \/ Valid(s, A)'
    <3>1. CASE n \in DOMAIN ui /\ ui'[n] = ui[n]
      BY <2>1, <3>1 DEF Has, Brings
    <3>2. CASE n = p
      <4>1. s = s0 /\ A = B
        BY <1>3, <1>4, <2>1, <3>2
      <4> QED BY <1>5, <4>1
    <3> QED BY <1>4, <3>1, <3>2
  <2>2. CASE Brings(s, A)'
    BY <2>1, <2>2 DEF Brings, Wary
  <2>3. CASE ~Brings(s, A)'
    BY <1>2, <1>6, <2>3 DEF Has, Refreshed
  <2> QED BY <2>2, <2>3
<1>7. ASSUME NEW s \in Sessions PROVE Promise(s)'
  <2>1. Promise(s) /\ ~Grants(x, s)
    BY <1>3 DEF VInv, Grants
  <2> QED BY <1>2, <2>1, PromiseStays
<1> QED BY <1>6, <1>7, Backs

\* The save of a refreshed token is posted.
LEMMA SaveBacks ==
  ASSUME IInv, TInv, OInv, VInv, Next, NEW s0 \in Sessions, PostSave(s0)
  PROVE  VInv'
<1> USE DEF checkVars, loginVars, history
<1>1. PICK B, x : B = checking[s0] /\ x = Save(s0, B)
  OBVIOUS
<1>2. /\ check[s0]["login"] = "refreshed" /\ Post(x)
      /\ check' = [check EXCEPT ![s0]["login"] = "saved"]
      /\ UNCHANGED <<account, checking, started, launch, dialog, passed>>
  BY <1>1 DEF PostSave
<1>3. Wary(x) /\ x.s = s0 /\ x.acct = B /\ Saving(x, s0) /\ x.what = "save"
  BY <1>1 DEF Wary, Save, Saving
<1>4. PICK p \in DOMAIN ui' :
        /\ ui'[p] = x
        /\ \A n \in DOMAIN ui' : (n \in DOMAIN ui /\ ui'[n] = ui[n]) \/ n = p
  BY <1>2, Grown
<1>5. /\ \A s \in Sessions : s # s0 => check'[s]["login"] = check[s]["login"]
      /\ check'[s0]["login"] = "saved"
  BY <1>2, NotLogin DEF TInv, Typed
<1>6. Has(s0, B)
  BY <1>1, <1>2 DEF Has, Refreshed
<1>7. ASSUME NEW s \in Sessions, NEW A, Has(s, A)' PROVE Has(s, A)
  <2>1. ASSUME NEW n \in DOMAIN ui', Wary(ui'[n]), ui'[n].s = s, ui'[n].acct = A
        PROVE  Has(s, A)
    <3>1. CASE n \in DOMAIN ui /\ ui'[n] = ui[n]
      BY <2>1, <3>1 DEF Has, Brings
    <3>2. CASE n = p
      <4>1. s = s0 /\ A = B
        BY <1>3, <1>4, <2>1, <3>2
      <4> QED BY <1>6, <4>1
    <3> QED BY <1>4, <3>1, <3>2
  <2>2. CASE Brings(s, A)'
    BY <2>1, <2>2 DEF Brings, Wary
  <2>3. CASE ~Brings(s, A)'
    BY <1>2, <1>5, <1>7, <2>3 DEF Has, Refreshed
  <2> QED BY <2>2, <2>3
<1>8. ASSUME NEW s \in Sessions PROVE Promise(s)'
  <2>1. Promise(s) /\ ~Grants(x, s)
    BY <1>3 DEF VInv, Grants
  <2>2. check'[s]["login"] = "saved" =>
          check[s]["login"] = "saved" \/ \E k \in DOMAIN ui' : Saving(ui'[k], s)
    BY <1>3, <1>4, <1>5
  <2> QED BY <1>2, <2>1, <2>2, PromiseStays
<1> QED BY <1>7, <1>8, Backs

LEMMA CheckBacks ==
  ASSUME IInv, TInv, TInv', CInv, OInv, VInv, Next, NEW s0 \in Sessions, CheckAccount(s0)
  PROVE  VInv'
<1> USE DEF checkVars, loginVars, history
<1>1. UNCHANGED <<account, started, launch, dialog, passed>>
  BY DEF CheckAccount
<1>2. CASE TokenRefreshed(s0)
  BY <1>2, RefreshBacks
<1>3. CASE OfflineAccount(s0)
  <2>1. /\ Returns(s0, "login", "ok") /\ UNCHANGED checking
        /\ LoginType[checking[s0].id] = "offline"
    BY <1>3 DEF OfflineAccount, TypeOf
  <2>2. ASSUME dialog[s0] = "shown" PROVE Own(s0)
    <3>1. stale \/ account.id = checking[s0].id
      BY <2>2, OwnWaived
    <3>2. ASSUME NEW A, A = account PROVE Valid(s0, A)
      BY <2>1, <3>1, <3>2 DEF Valid, Waived, TInv, Typed
    <3> QED BY <3>2 DEF Own
  <2> QED BY <1>1, <2>1, <2>2, NotLogin, ReturnBacks
<1>4. CASE LoginFails(s0)
  <2>1. UNCHANGED checking /\ \E e \in {"error", "relogin"} : Returns(s0, "login", e)
    BY <1>4 DEF LoginFails
  <2> QED BY <1>1, <2>1, NotLogin, ReturnBacks
<1> QED BY <1>2, <1>3, <1>4 DEF CheckAccount

LEMMA DropBacks ==
  ASSUME IInv, TInv, TInv', CInv, OInv, VInv, Next, NEW s0 \in Sessions, DropToken(s0)
  PROVE  VInv'
<1> USE DEF checkVars, loginVars, history
<1>1. /\ UNCHANGED <<account, started, launch, dialog, passed, checking, stale>>
      /\ dropped' = dropped \cup {checking[s0].id} /\ \E e : Returns(s0, "login", e)
  BY DEF DropToken
<1>2. ASSUME dialog[s0] = "shown" PROVE Own(s0)'
  <2>1. stale \/ account.id = checking[s0].id
    BY <1>2, OwnWaived
  <2>2. ASSUME NEW A, A = account' PROVE Valid(s0, A)'
    BY <1>1, <2>1, <2>2 DEF Valid, Waived, TInv, Typed
  <2> QED BY <2>2 DEF Own
<1> QED BY <1>1, <1>2, NotLogin, ReturnBacks

LEMMA BackgroundBacks ==
  ASSUME IInv, TInv, TInv', CInv, OInv, VInv, WInv, Next, NEW s0 \in Sessions, Background(s0)
  PROVE  VInv'
<1> USE DEF checkVars, loginVars, history
<1>1. ASSUME NEW c \in FileChecks, CheckEnds(s0, c) PROVE VInv'
  <2>1. /\ UNCHANGED <<account, started, launch, dialog, passed, checking>>
        /\ \E e : Returns(s0, c, e)
    BY <1>1 DEF CheckEnds
  <2> QED BY <2>1, NotLogin, ReturnBacks
<1>2. CASE CheckAccount(s0) \/ DropToken(s0) \/ PostSave(s0)
  BY <1>2, CheckBacks, DropBacks, SaveBacks
<1>3. CASE CheckAccountReturns(s0)
  <2>1. /\ UNCHANGED <<account, started, launch, dialog, passed, checking>>
        /\ check[s0]["login"] = "saved" /\ Returns(s0, "login", "ok")
    BY <1>3 DEF CheckAccountReturns
  <2>2. dialog[s0] = "shown" => Own(s0) \/ \E k \in DOMAIN ui : Saving(ui[k], s0)
    BY <2>1 DEF VInv, Promise
  <2> QED BY <2>1, <2>2, NotLogin, ReturnBacks
<1>4. ASSUME NEW k \in 1..MaxLogins, LoginPosts(s0, k) PROVE VInv'
  BY <1>4, PostBacks
<1>5. ASSUME UNCHANGED <<account, started, dialog, passed, check, checking>>, SameAccounts,
             UNCHANGED ui \/ \E x : Post(x) /\ ~Wary(x) /\ x.what # "result"
      PROVE  VInv'
  <2>1. \/ UNCHANGED ui
        \/ \E x : /\ Post(x) /\ ~Wary(x)
                  /\ \A s \in Sessions : ~Grants(x, s)
    BY <1>5 DEF Grants
  <2> QED BY <1>5, <2>1, StillBacks DEF Refreshed
<1>6. /\ \A s, b : ~Wary(Buttons(s, b)) /\ Buttons(s, b).what # "result"
      /\ \A s, k : ~Wary(Launched(s, k)) /\ Launched(s, k).what # "result"
  BY DEF Wary, Buttons, Launched
<1>7. ASSUME NEW k, \/ LoginBegins(s0, k) \/ LoginAuthenticates(s0, k) \/ LoginRefused(s0, k)
                    \/ LoginDrops(s0, k) \/ LoginEnds(s0, k)
      PROVE  VInv'
  <2>1. /\ UNCHANGED <<account, started, launch, dialog, passed, check, checking>>
        /\ UNCHANGED ui \/ \E b : Post(Buttons(s0, b))
    BY <1>7 DEF LoginBegins, LoginAuthenticates, LoginRefused, LoginDrops, LoginEnds
  <2>2. SameAccounts
    BY <2>1, AccountsSame
  <2>3. UNCHANGED ui \/ \E x : Post(x) /\ ~Wary(x) /\ x.what # "result"
    BY <1>6, <2>1
  <2> QED BY <1>5, <2>1, <2>2, <2>3
<1>8. ASSUME NEW k, LaunchTask(s0, k) PROVE VInv'
  <2>1. /\ UNCHANGED <<account, started, dialog, passed, check, checking>>
        /\ k \in DOMAIN launch[s0] /\ launch' = [launch EXCEPT ![s0][k].state = "posted"]
        /\ Post(Launched(s0, k))
    BY <1>8 DEF LaunchTask
  <2>2. SameAccounts
    BY <2>1, AccountsSame
  <2>3. \E x : Post(x) /\ ~Wary(x) /\ x.what # "result"
    BY <1>6, <2>1
  <2> QED BY <1>5, <2>1, <2>2, <2>3
<1> QED BY <1>1, <1>2, <1>3, <1>4, <1>7, <1>8 DEF Background, ReloginThread

LEMMA ValidInductive == IInv /\ TInv /\ CInv /\ OInv /\ VInv /\ WInv /\ [Next]_vars => VInv'
<1> SUFFICES ASSUME IInv, TInv, CInv, OInv, VInv, WInv, [Next]_vars PROVE VInv'
  OBVIOUS
<1>1. CASE UNCHANGED vars
  BY <1>1 DEF vars, checkVars, loginVars, history, VInv, Promise, Has, Brings, Refreshed, Wary,
              Own, Saving, Grants, Valid, Waived, Doomed, Firm, Outrun, Settled, NotRefused, Refusal
<1>2. CASE Next
  <2>1. TInv'
    BY TypesInductive
  <2> QED BY <1>2, <2>1, HandlerBacks, UserBacks, BackgroundBacks DEF Next
<1> QED BY <1>1, <1>2

LEMMA ValidInitially == Init => VInv
<1> SUFFICES ASSUME Init, NEW s \in Sessions PROVE Promise(s) /\ \A A : ~Has(s, A)
  BY DEF VInv
<1>1. /\ DOMAIN ui = {} /\ DOMAIN launch[s] = {} /\ DOMAIN started = {}
      /\ dialog[s] = "none" /\ check[s]["login"] = "none"
  BY NotLogin DEF Init
<1> QED BY <1>1 DEF Promise, Has, Brings, Refreshed

\* A game starts with the token the login server accepts now, unless a token was
\* thrown away, a session was overtaken, or another log-in of the same account
\* was made.
THEOREM TokenIsValid == Spec => []LaunchTokenValid
<1>1. IInv /\ CInv /\ Budgets /\ OInv /\ VInv => LaunchTokenValid
  <2> SUFFICES ASSUME IInv, CInv, Budgets, OInv, VInv, NEW k \in DOMAIN started
               PROVE  LET s == started[k].session a == started[k].acct.id IN
                        \/ LoginType[a] = "offline"
                        \/ started[k].acct.token = server[a]
                        \/ a \in dropped \/ stale \/ Len(logins[s]) > 1
                        \/ \E r \in Sessions : \/ r < s /\ logins[r] # <<>> /\ asked[r] = a
                                               \/ r > s /\ dialog[r] # "none" /\ s \in late
    BY DEF LaunchTokenValid
  <2>1. PICK s, A : s = started[k].session /\ A = started[k].acct
    OBVIOUS
  <2>2. s \in Sessions /\ Valid(s, A)
    BY <2>1 DEF CInv, Played, VInv, Has
  <2>3. CASE Waived(s, A.id) /\ ~Doomed(s)
    BY <2>1, <2>2, <2>3 DEF Waived
  <2>4. ASSUME NEW r \in Sessions, r > s, dialog[r] # "none"
        PROVE  s \in late \/ Len(logins[s]) > 1
    <3>1. s \in exited
      BY <2>2, <2>4, LaunchAssumption DEF OInv, Successive, Sessions
    <3>2. Games(s) # {}
      BY <2>1 DEF Games
    <3>3. s \in late \/ relogged[s] > 1
      BY <3>1, <3>2 DEF IInv, NoLaunchAfterExit
    <3>4. Budget(s) /\ relogged[s] \in Nat
      BY <2>2 DEF Budgets, IInv, Shape
    <3>5. /\ Cardinality(Answers(s)) \in Nat /\ Cardinality(Open(s)) \in Nat
          /\ Len(logins[s]) \in Nat
      BY <2>2, <3>4, FS_CardinalityType, Appended DEF Budget, IInv, Shape
    <3>6. relogged[s] <= Len(logins[s])
      BY <3>4, <3>5 DEF Budget
    <3> QED BY <3>3, <3>4, <3>5, <3>6
  <2>5. CASE Doomed(s)
    BY <2>1, <2>4, <2>5 DEF Doomed
  <2>6. CASE A.token = server[A.id]
    BY <2>1, <2>6
  <2> QED BY <2>2, <2>3, <2>5, <2>6 DEF Valid
<1> QED BY <1>1, Initially, Inductive, AccountsInitially, AccountsInductive,
           TypesInitially, TypesInductive, BudgetsInitially, BudgetsInductive,
           TokensInitially, TokensInductive, OrderInitially, OrderInductive,
           HeldInitially, HeldInductive, HeldValidInitially, HeldValid,
           ValidInitially, ValidInductive, PTL DEF Spec
=============================================================================
