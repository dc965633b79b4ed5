----------------------------- MODULE LaunchCheck -----------------------------
(***************************************************************************)
(* Launching a game: LaunchCheckDialog runs CheckJavaTask, CheckLibTask    *)
(* and CheckAccountTask in parallel on AsyncTask.THREAD_POOL_EXECUTOR and, *)
(* once all three passed, a LaunchTask whose end starts the game activity. *)
(* An account whose login server refuses the stored token is logged in     *)
(* again through ReLoginDialog.                                            *)
(*                                                                         *)
(* A session is one LaunchCheckDialog.  Every handler runs on the UI       *)
(* thread, one message of its FIFO queue at a time; a click is a message   *)
(* of its own that may come between any two.  Cancelling an AsyncTask only *)
(* decides, on the UI thread, that its result is dropped: what the task    *)
(* posted with runOnUiThread still runs.                                   *)
(*                                                                         *)
(* Abstractions.  An account is its identity and a token; a token is the   *)
(* serial number its login server gave it.  The library check is here one  *)
(* outcome: module DownloadPool models its inside.                         *)
(***************************************************************************)
EXTENDS Naturals, Sequences, FiniteSets

CONSTANTS
  NAccounts,   \* entries of the account list
  LoginType,   \* "offline" (types 1, 2), "microsoft" (3) or "yggdrasil" (4, 5)
  FileChecks,  \* "java" and "lib", alike but for their name
  NSessions,   \* bound: LaunchCheckDialogs opened
  MaxLogins,   \* bound: clicks on the log-in button of one ReLoginDialog
  MaxClicks,   \* bound: clicks on the log-in buttons of all of them
  MaxToken     \* bound: tokens a login server gives out

Accounts == 1..NAccounts
Sessions == 1..NSessions

ASSUME LaunchAssumption ==
  /\ "login" \notin FileChecks
  /\ NAccounts \in Nat \ {0} /\ NSessions \in Nat
  /\ LoginType \in [Accounts -> {"offline", "microsoft", "yggdrasil"}]
  /\ MaxLogins \in Nat /\ MaxClicks \in Nat /\ MaxToken \in Nat

VARIABLES
  account,    \* publicGameSetting.account
  accounts,   \* accountUI.accounts: what each entry of the list holds
  server,     \* the token each login server accepts (external)
  ui,         \* messages waiting for the UI thread
  dialog,     \* LaunchCheckDialog of each session: "none", "shown", "gone"
  check,      \* where each check of each session is
  passed,     \* the java, lib and login fields that are true
  cancelled,  \* checks whose task was cancelled
  checking,   \* the account CheckAccountTask works on, with the token it got
  launch,     \* the LaunchTasks of each session, oldest first
  relogin,    \* ReLoginDialog of each session: "none", "shown", "gone"
  asked,      \* the account it asks the password of
  buttons,    \* its buttons react
  logins,     \* its log-in threads
  given,      \* the token each of them got and has not yet posted
  started,    \* games started: session and account
  crashed,    \* an exception reached the UI thread's looper
  selected,   \* history: the account the user chose last
  relogged,   \* history: times onRelogin ran in each session
  exited,     \* history: sessions ended by exit()
  late,       \* history: sessions where onRelogin ran after exit()
  dropped,    \* history: accounts a new token of which was thrown away
  crossed,    \* history: accounts an old token of which a log-in posted last
  stale       \* history: an account was saved for a session already overtaken

checkVars == <<check, passed, cancelled, checking>>
loginVars == <<relogin, asked, buttons, logins, given>>
history == <<selected, relogged, exited, late, dropped, crossed, stale>>
vars == <<account, accounts, server, ui, dialog, checkVars, launch,
          loginVars, started, crashed, history>>

Checks == FileChecks \cup {"login"}
AccountRecs == [id : Accounts, token : 0..MaxToken]

Post(m) == ui' = Append(ui, m)
Result(s, c, e) == [what |-> "result", s |-> s, check |-> c, outcome |-> e]
Save(s, a) == [what |-> "save", s |-> s, acct |-> a]
OnRelogin(s, a) == [what |-> "onRelogin", s |-> s, acct |-> a]
Buttons(s, b) == [what |-> "buttons", s |-> s, on |-> b]
Launched(s, k) == [what |-> "launched", s |-> s, task |-> k]

Init ==
  /\ account \in [id : Accounts, token : {0}]
  /\ accounts = [a \in Accounts |-> [id |-> a, token |-> 0]]
  /\ server = [a \in Accounts |-> 0]
  /\ ui = <<>>
  /\ dialog = [s \in Sessions |-> "none"]
  /\ check = [s \in Sessions |-> [c \in Checks |-> "none"]]
  /\ passed = [s \in Sessions |-> {}]
  /\ cancelled = [s \in Sessions |-> {}]
  /\ checking = [s \in Sessions |-> account]
  /\ launch = [s \in Sessions |-> <<>>]
  /\ relogin = [s \in Sessions |-> "none"]
  /\ asked = [s \in Sessions |-> account.id]
  /\ buttons = [s \in Sessions |-> TRUE]
  /\ logins = [s \in Sessions |-> <<>>]
  /\ given = [s \in Sessions |-> [k \in 1..MaxLogins |-> 0]]
  /\ started = <<>>
  /\ crashed = FALSE
  /\ selected = account.id
  /\ relogged = [s \in Sessions |-> 0]
  /\ exited = {} /\ late = {} /\ dropped = {} /\ crossed = {}
  /\ stale = FALSE

-----------------------------------------------------------------------------
(* The main screen, reachable while no dialog covers it. *)

MainScreen ==
  /\ \A s \in Sessions : dialog[s] # "shown" /\ relogin[s] # "shown"
  /\ started = <<>>                    \* bound: the run ends with the game

SelectAccount(i) ==
  /\ MainScreen
  /\ account' = accounts[i]
  /\ selected' = accounts[i].id
  /\ UNCHANGED <<accounts, server, ui, dialog, checkVars, launch, loginVars,
                 started, crashed, relogged, exited, late, dropped, crossed, stale>>

startCheckTasks(s) ==
  /\ MainScreen
  /\ dialog[s] = "none" /\ \A r \in Sessions : r < s => dialog[r] = "gone"
  /\ dialog' = [dialog EXCEPT ![s] = "shown"]
  /\ check' = [check EXCEPT ![s] = [c \in Checks |-> "running"]]
  /\ checking' = [checking EXCEPT ![s] = account]
  /\ UNCHANGED <<account, accounts, server, ui, passed, cancelled, launch,
                 loginVars, started, crashed, history>>

-----------------------------------------------------------------------------
(* Background threads of the three checks. *)

\* A cancelled task only posts an onCancelled() that does nothing
Returns(s, c, e) ==
  IF c \in cancelled[s]
  THEN /\ check' = [check EXCEPT ![s][c] = "finished"]
       /\ UNCHANGED ui
  ELSE /\ check' = [check EXCEPT ![s][c] = "posted"]
       /\ Post(Result(s, c, e))

CheckEnds(s, c) ==
  /\ check[s][c] = "running"
  /\ c \notin cancelled[s]            \* bound: nothing follows otherwise
  /\ \E e \in {"ok", "error"} : Returns(s, c, e)
  /\ UNCHANGED <<account, accounts, server, dialog, passed, cancelled,
                 checking, launch, loginVars, started, crashed, history>>

TypeOf(s) == LoginType[checking[s].id]

OfflineAccount(s) ==
  /\ TypeOf(s) = "offline"
  /\ Returns(s, "login", "ok")
  /\ UNCHANGED <<server, checking>>

\* Msa and IOException are reported, an AuthenticationException (a server
\* that cannot be reached is one) asks for the password
LoginFails(s) ==
  /\ TypeOf(s) # "offline"
  /\ Returns(s, "login", IF TypeOf(s) = "microsoft" THEN "error" ELSE "relogin")
  /\ UNCHANGED <<server, checking>>

TokenRefreshed(s) ==
  LET a == checking[s].id IN
  /\ TypeOf(s) # "offline"
  /\ checking[s].token = server[a] /\ server[a] < MaxToken
  /\ server' = [server EXCEPT ![a] = @ + 1]
  /\ checking' = [checking EXCEPT ![s].token = server'[a]]
  /\ check' = [check EXCEPT ![s]["login"] = "refreshed"]
  /\ UNCHANGED ui

CheckAccount(s) ==
  /\ check[s]["login"] = "running"
  /\ OfflineAccount(s) \/ LoginFails(s) \/ TokenRefreshed(s)
  /\ UNCHANGED <<account, accounts, dialog, passed, cancelled, launch,
                 loginVars, started, crashed, history>>

\* The skin was fetched: the save is posted, before the result is
PostSave(s) ==
  /\ check[s]["login"] = "refreshed"
  /\ check' = [check EXCEPT ![s]["login"] = "saved"]
  /\ Post(Save(s, checking[s]))
  /\ UNCHANGED <<account, accounts, server, dialog, passed, cancelled,
                 checking, launch, loginVars, started, crashed, history>>

\* The skin could not be fetched, no profile has the account's name, or the
\* user does not own the game: the refreshed token is forgotten
DropToken(s) ==
  /\ check[s]["login"] = "refreshed"
  /\ \E e \in IF TypeOf(s) = "microsoft" THEN {"ok", "error"}
              ELSE {"ok", "error", "relogin"} : Returns(s, "login", e)
  /\ dropped' = dropped \cup {checking[s].id}
  /\ UNCHANGED <<account, accounts, server, dialog, passed, cancelled,
                 checking, launch, loginVars, started, crashed, selected, relogged,
                 exited, late, crossed, stale>>

CheckAccountReturns(s) ==
  /\ check[s]["login"] = "saved"
  /\ Returns(s, "login", "ok")
  /\ UNCHANGED <<account, accounts, server, dialog, passed, cancelled,
                 checking, launch, loginVars, started, crashed, history>>

-----------------------------------------------------------------------------
(* Handlers of the UI thread. *)

Message(what) == /\ ui # <<>> /\ Head(ui).what = what
                 /\ ui' = Tail(ui)

checkState_NoLogin(s, now, acct) ==
  launch' = IF FileChecks \subseteq now
            THEN [launch EXCEPT ![s] =
                    Append(@, [acct |-> acct, state |-> "running", cancelled |-> FALSE])]
            ELSE launch

\* checkState(), with `now` the fields that are true
checkState(s, now, acct) ==
  launch' = IF now = Checks
            THEN [launch EXCEPT ![s] =
                    Append(@, [acct |-> acct, state |-> "running", cancelled |-> FALSE])]
            ELSE launch

exit_OnlyDismiss(s) ==
  /\ dialog' = [dialog EXCEPT ![s] = "gone"]
  /\ exited' = exited \cup {s}
  /\ UNCHANGED <<cancelled, launch>>

\* exit(): only the last LaunchTask is remembered
exit(s) ==
  LET n == Len(launch[s]) IN
  /\ cancelled' = [cancelled EXCEPT ![s] = @ \cup {c \in Checks : check[s][c] # "finished"}]
  /\ launch' = IF n > 0 /\ launch[s][n].state # "finished"
               THEN [launch EXCEPT ![s][n].cancelled = TRUE] ELSE launch
  /\ dialog' = [dialog EXCEPT ![s] = "gone"]
  /\ exited' = exited \cup {s}

Passes(s, c) ==
  /\ passed' = [passed EXCEPT ![s] = @ \cup {c}]
  /\ checkState(s, passed'[s], account)
  /\ UNCHANGED <<dialog, cancelled, exited, relogin, asked, crashed>>

throwException(s) ==
  /\ exit(s)
  /\ UNCHANGED <<passed, relogin, asked, crashed>>

\* getServerFromUrl(account.loginServer) finds no server for an account
\* that has none, and requireNonNull throws
AskPassword(s) ==
  /\ IF LoginType[account.id] = "yggdrasil"
     THEN /\ relogin' = [relogin EXCEPT ![s] = "shown"]
          /\ asked' = [asked EXCEPT ![s] = account.id]
          /\ UNCHANGED crashed
     ELSE /\ crashed' = TRUE
          /\ UNCHANGED <<relogin, asked>>
  /\ UNCHANGED <<dialog, cancelled, exited, passed, launch>>

\* AsyncTask.finish: onCancelled (empty) or onPostExecute
onFinish ==
  LET m == Head(ui) s == m.s IN
  /\ Message("result")
  /\ check' = [check EXCEPT ![s][m.check] = "finished"]
  /\ IF m.check \in cancelled[s]
     THEN UNCHANGED <<dialog, cancelled, exited, passed, launch, relogin, asked, crashed>>
     ELSE \/ m.outcome = "ok" /\ Passes(s, m.check)
          \/ m.outcome = "error" /\ throwException(s)
          \/ m.outcome = "relogin" /\ AskPassword(s)
  /\ UNCHANGED <<account, accounts, server, checking, buttons, logins, given,
                 started, selected, relogged, late, dropped, crossed, stale>>

\* The first list entry whose account is `id` becomes `a`
Replaced(id, a) ==
  [i \in Accounts |->
     IF accounts[i].id = id /\ \A j \in 1..(i - 1) : accounts[j].id # id
     THEN a ELSE accounts[i]]

Overtaken(s, a) == a.id # selected \/ \E r \in Sessions : r > s /\ dialog[r] # "none"

saveAccount_ListOnly ==
  LET m == Head(ui) IN
  /\ Message("save")
  /\ accounts' = Replaced(m.acct.id, m.acct)
  /\ stale' = (stale \/ Overtaken(m.s, m.acct))
  /\ UNCHANGED <<account, server, dialog, checkVars, launch, loginVars, started,
                 crashed, selected, relogged, exited, late, dropped, crossed>>

saveAccount_IfOpen ==
  LET m == Head(ui) open == dialog[m.s] = "shown" IN
  /\ Message("save")
  /\ accounts' = IF open THEN Replaced(m.acct.id, m.acct) ELSE accounts
  /\ account' = IF open THEN m.acct ELSE account
  /\ stale' = (stale \/ Overtaken(m.s, m.acct))
  /\ UNCHANGED <<server, dialog, checkVars, launch, loginVars, started, crashed,
                 selected, relogged, exited, late, dropped, crossed>>

saveAccount ==
  LET m == Head(ui) IN
  /\ Message("save")
  /\ accounts' = Replaced(m.acct.id, m.acct)
  /\ account' = m.acct
  /\ stale' = (stale \/ Overtaken(m.s, m.acct))
  /\ UNCHANGED <<server, dialog, checkVars, launch, loginVars, started, crashed,
                 selected, relogged, exited, late, dropped, crossed>>

onRelogin ==
  LET m == Head(ui) s == m.s IN
  /\ Message("onRelogin")
  /\ accounts' = Replaced(account.id, m.acct)
  /\ account' = m.acct
  /\ passed' = [passed EXCEPT ![s] = @ \cup {"login"}]
  /\ checkState(s, passed'[s], m.acct)
  /\ relogin' = [relogin EXCEPT ![s] = "gone"]
  /\ relogged' = [relogged EXCEPT ![s] = @ + 1]
  /\ late' = IF s \in exited THEN late \cup {s} ELSE late
  /\ stale' = (stale \/ Overtaken(s, m.acct))
  /\ UNCHANGED <<server, dialog, check, cancelled, checking, asked, buttons,
                 logins, given, started, crashed, selected, exited, dropped, crossed>>

setButtons ==
  LET m == Head(ui) IN
  /\ Message("buttons")
  /\ buttons' = [buttons EXCEPT ![m.s] = m.on]
  /\ UNCHANGED <<account, accounts, server, dialog, checkVars, launch, relogin,
                 asked, logins, given, started, crashed, history>>

\* LaunchTask.onPostExecute: the game's activity is started
startGame ==
  LET m == Head(ui) s == m.s t == launch[m.s][m.task] IN
  /\ Message("launched")
  /\ launch' = [launch EXCEPT ![s][m.task].state = "finished"]
  /\ IF t.cancelled
     THEN UNCHANGED <<dialog, started>>
     ELSE /\ dialog' = [dialog EXCEPT ![s] = "gone"]
          /\ started' = Append(started, [session |-> s, acct |-> t.acct])
  /\ UNCHANGED <<account, accounts, server, checkVars, loginVars, crashed, history>>

-----------------------------------------------------------------------------
(* Clicks.  A click on the check dialog's cancel button may have been      *)
(* posted just before another dialog covered it.                           *)

CancelClick(s) ==
  /\ dialog[s] = "shown"
  /\ exit(s)
  /\ UNCHANGED <<account, accounts, server, ui, check, passed, checking, loginVars,
                 started, crashed, selected, relogged, late, dropped, crossed, stale>>

LoginClicks == {c \in Sessions \X (1..MaxLogins) : c[2] \in DOMAIN logins[c[1]]}

ReloginClick(s) ==
  /\ relogin[s] = "shown" /\ buttons[s]
  /\ Len(logins[s]) < MaxLogins /\ Cardinality(LoginClicks) < MaxClicks
  /\ logins' = [logins EXCEPT ![s] = Append(@, "new")]
  /\ UNCHANGED <<account, accounts, server, ui, dialog, checkVars, launch,
                 relogin, asked, buttons, given, started, crashed, history>>

ReloginCancelClick(s) ==
  /\ relogin[s] = "shown" /\ buttons[s]
  /\ exit(s)
  /\ relogin' = [relogin EXCEPT ![s] = "gone"]
  /\ UNCHANGED <<account, accounts, server, ui, check, passed, checking, asked,
                 buttons, logins, given, started, crashed, selected, relogged, late,
                 dropped, crossed, stale>>

-----------------------------------------------------------------------------
(* The log-in threads and LaunchTask. *)

LoginMoves(s, k, from, to) ==
  /\ k \in DOMAIN logins[s] /\ logins[s][k] = from
  /\ logins' = [logins EXCEPT ![s][k] = to]

LoginBegins(s, k) ==
  /\ LoginMoves(s, k, "new", "authenticating")
  /\ Post(Buttons(s, FALSE))
  /\ UNCHANGED <<account, accounts, server, dialog, checkVars, launch, relogin,
                 asked, buttons, given, started, crashed, history>>

\* authenticate(): the server gives a token and forgets the one before
LoginAuthenticates(s, k) ==
  LET a == asked[s] IN
  /\ server[a] < MaxToken
  /\ LoginMoves(s, k, "authenticating", "authenticated")
  /\ server' = [server EXCEPT ![a] = @ + 1]
  /\ given' = [given EXCEPT ![s][k] = server'[a]]
  /\ UNCHANGED <<account, accounts, ui, dialog, checkVars, launch, relogin,
                 asked, buttons, started, crashed, history>>

Holds(s, k) == k \in DOMAIN logins[s] /\ logins[s][k] = "authenticated"

\* A log-in thread that has not posted it holds the newest token of account a.
HoldsNewest(s, k, a) == Holds(s, k) /\ asked[s] = a /\ given[s][k] = server[a]

\* The skin was fetched: the new account is posted
LoginPosts(s, k) ==
  LET a == asked[s] IN
  /\ LoginMoves(s, k, "authenticated", "answered")
  /\ Post(OnRelogin(s, [id |-> a, token |-> given[s][k]]))
  /\ given' = [given EXCEPT ![s][k] = 0]
  /\ crossed' = IF \E r \in Sessions : \E j \in DOMAIN logins[r] : HoldsNewest(r, j, a)
                THEN crossed ELSE crossed \cup {a}
  /\ UNCHANGED <<account, accounts, server, dialog, checkVars, launch, relogin, asked,
                 buttons, started, crashed, selected, relogged, exited, late, dropped,
                 stale>>

\* The skin or the profile was missing
LoginDrops(s, k) ==
  /\ LoginMoves(s, k, "authenticated", "answered")
  /\ given' = [given EXCEPT ![s][k] = 0]
  /\ dropped' = dropped \cup {asked[s]}
  /\ UNCHANGED <<account, accounts, server, ui, dialog, checkVars, launch, relogin,
                 asked, buttons, started, crashed, selected, relogged, exited, late,
                 crossed, stale>>

LoginRefused(s, k) ==
  /\ LoginMoves(s, k, "authenticating", "answered")
  /\ UNCHANGED <<account, accounts, server, ui, dialog, checkVars, launch, relogin,
                 asked, buttons, given, started, crashed, history>>

LoginEnds_Retries(s, k) ==
  /\ LoginMoves(s, k, "answered", "authenticating")
  /\ Post(Buttons(s, TRUE))
  /\ UNCHANGED <<account, accounts, server, dialog, checkVars, launch, relogin,
                 asked, buttons, given, started, crashed, history>>

LoginEnds_Silent(s, k) ==
  /\ LoginMoves(s, k, "answered", "ended")
  /\ UNCHANGED <<account, accounts, server, ui, dialog, checkVars, launch, relogin,
                 asked, buttons, given, started, crashed, history>>

LoginEnds(s, k) ==
  /\ LoginMoves(s, k, "answered", "ended")
  /\ Post(Buttons(s, TRUE))
  /\ UNCHANGED <<account, accounts, server, dialog, checkVars, launch, relogin,
                 asked, buttons, given, started, crashed, history>>

\* The thread a click on the log-in button starts
ReloginThread(s, k) ==
  \/ LoginBegins(s, k) \/ LoginAuthenticates(s, k) \/ LoginRefused(s, k)
  \/ LoginPosts(s, k) \/ LoginDrops(s, k) \/ LoginEnds(s, k)

\* AsyncTask.SERIAL_EXECUTOR: one LaunchTask at a time, in order
LaunchTask(s, k) ==
  /\ k \in DOMAIN launch[s] /\ launch[s][k].state = "running"
  /\ \A j \in 1..(k - 1) : launch[s][j].state # "running"
  /\ launch' = [launch EXCEPT ![s][k].state = "posted"]
  /\ Post(Launched(s, k))
  /\ UNCHANGED <<account, accounts, server, dialog, checkVars, loginVars, started,
                 crashed, history>>

UIThread == onFinish \/ saveAccount \/ onRelogin \/ setButtons \/ startGame

Background(s) ==
  \/ \E c \in FileChecks : CheckEnds(s, c)
  \/ CheckAccount(s) \/ PostSave(s) \/ DropToken(s) \/ CheckAccountReturns(s)
  \/ \E k \in 1..MaxLogins : ReloginThread(s, k)
  \/ \E k \in 1..(MaxLogins + 1) : LaunchTask(s, k)

User ==
  \/ \E i \in Accounts : SelectAccount(i)
  \/ \E s \in Sessions : \/ startCheckTasks(s) \/ CancelClick(s)
                         \/ ReloginClick(s) \/ ReloginCancelClick(s)

Next == ~crashed /\ (UIThread \/ User \/ \E s \in Sessions : Background(s))

Spec == Init /\ [][Next]_vars

\* The UI thread and the executors run what they are given.  A network call is
\* assumed to return: NetworkUtils sets a time limit, but the skin is fetched
\* without one, so a server that never answers is outside this assumption.  The
\* user promises nothing.
FairSpec ==
  /\ Spec
  /\ WF_vars(~crashed /\ UIThread)
  /\ \A s \in Sessions : WF_vars(~crashed /\ Background(s))

-----------------------------------------------------------------------------
(* Properties. *)

TypeOK ==
  /\ account \in AccountRecs /\ accounts \in [Accounts -> AccountRecs]
  /\ server \in [Accounts -> 0..MaxToken]
  /\ dialog \in [Sessions -> {"none", "shown", "gone"}]
  /\ check \in [Sessions -> [Checks -> {"none", "running", "refreshed", "saved",
                                       "posted", "finished"}]]
  /\ passed \in [Sessions -> SUBSET Checks]
  /\ cancelled \in [Sessions -> SUBSET Checks]
  /\ checking \in [Sessions -> AccountRecs]
  /\ relogin \in [Sessions -> {"none", "shown", "gone"}]
  /\ asked \in [Sessions -> Accounts]
  /\ buttons \in [Sessions -> BOOLEAN]
  /\ given \in [Sessions -> [1..MaxLogins -> 0..MaxToken]]
  /\ relogged \in [Sessions -> 0..MaxLogins]
  /\ selected \in Accounts /\ exited \subseteq Sessions
  /\ late \subseteq exited /\ dropped \subseteq Accounts /\ crossed \subseteq Accounts
  /\ stale \in BOOLEAN /\ crashed \in BOOLEAN

Games(s) == {k \in DOMAIN started : started[k].session = s}

\* LaunchCheckDialog.checkState: the three checks end in any order on the UI
\* thread, yet a session makes one LaunchTask, and one more only for each time
\* the user logged in again after the first.
LaunchOnce ==
  \A s \in Sessions :
    Len(launch[s]) <= IF relogged[s] > 1 THEN relogged[s] ELSE 1

\* exit(): once the dialog is closed, by the user or by a failed check, no game
\* starts, although tasks, messages and a ReLoginDialog outlive it; only the
\* user answering that ReLoginDialog, or answering it twice, starts one.
NoLaunchAfterExit ==
  \A s \in exited : Games(s) # {} => s \in late \/ relogged[s] > 1

\* CheckAccountTask posts the refreshed account before its result: the game
\* gets the token the login server accepts now, unless a token was thrown away,
\* an older session saved its own, a second log-in was made, the ReLoginDialog
\* of an older session asks for the same account, or this session's was
\* answered after it closed and another one is open.
LaunchTokenValid ==
  \A k \in DOMAIN started :
    LET s == started[k].session a == started[k].acct.id IN
    \/ LoginType[a] = "offline"
    \/ started[k].acct.token = server[a]
    \/ a \in dropped \/ stale \/ Len(logins[s]) > 1
    \/ \E r \in Sessions : \/ r < s /\ logins[r] # <<>> /\ asked[r] = a
                           \/ r > s /\ dialog[r] # "none" /\ s \in late

\* A token that a login server handed out reaches the account list even when
\* the dialog was cancelled meanwhile: it is stored, or on its way to be.  Two
\* log-ins may post their tokens in another order than they got them; only then
\* is the newest one overwritten.
TokenNotLost ==
  \A i \in Accounts :
    LET a == accounts[i].id IN
    \/ accounts[i].token = server[a]
    \/ a \in dropped \cup crossed \/ stale
    \/ \E s \in Sessions : checking[s].id = a /\ check[s]["login"] = "refreshed"
    \/ \E s \in Sessions : asked[s] = a /\ \E k \in DOMAIN logins[s] : Holds(s, k)
    \/ \E n \in DOMAIN ui : ui[n].what \in {"save", "onRelogin"} /\ ui[n].acct.id = a

\* Saving what a check or a log-in brought never replaces another account of
\* the list, nor the one selected, unless its session was overtaken by a newer
\* one or by the user selecting another account.
AccountsKept ==
  ~stale => /\ {accounts[i].id : i \in Accounts} = Accounts
            /\ account.id = selected
            /\ account \in {accounts[i] : i \in Accounts}

\* Neither a token nor an account of the list is lost by what checks save.
AccountsSafe == TokenNotLost /\ AccountsKept

\* The game starts with the account the user selected, whatever the checks of
\* earlier, closed dialogs still do, except where one of them was overtaken, or
\* was answered after it closed or more than once.
SelectedLaunched ==
  ~stale => \A k \in DOMAIN started :
              LET s == started[k].session IN
              started[k].acct.id = selected \/ s \in late \/ relogged[s] > 1

\* A check dialog does not stay: it closes, into the game or after an error,
\* or waits for the user with a ReLoginDialog whose buttons work.
SessionSettles ==
  \A s \in Sessions :
    dialog[s] = "shown" ~> (\/ dialog[s] = "gone" \/ crashed
                            \/ (relogin[s] = "shown" /\ buttons[s]))
=============================================================================
