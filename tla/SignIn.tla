-------------------------------- MODULE SignIn --------------------------------
(***************************************************************************)
(* How a customer gets in (customers/auth_service.py, password_auth.py,    *)
(* sessions.py): with Google, by a link of the e-mail that confirms the    *)
(* account or changes its password, or by the password; and how the        *)
(* sessions end.  A request that hashes a password, or waits for Google,   *)
(* is two steps: what it read before is used after.  One e-mail, one       *)
(* store; a tab is a browser with its cookie.                              *)
(***************************************************************************)
EXTENDS Naturals, FiniteSets, Sequences, SequencesExt

CONSTANTS
    Tabs,
    LINKS_PER_HOUR,     \* the e-mails sent in the hour a behaviour lasts
    MaxFlows,           \* bound: sign-ins with Google
    MaxSessions         \* bound: sessions opened

VARIABLES
    account,     \* the customer and its password in this store (0: none), every change another
    links,       \* e-mail challenges, oldest first
    hits,        \* what the limiter of e-mails counted
    flows,       \* sign-ins with Google, oldest first
    sessions,    \* oldest first; by what they were opened, and in which era
    era,         \* times that all sessions were closed at once
    cookie,      \* each browser's session, 0 when it has none
    visit        \* what each tab's request in flight is doing

signInVars == <<account, links, hits, flows, sessions, era, cookie, visit>>

Idle == [at |-> "idle", id |-> 0]
Open == {i \in DOMAIN sessions : sessions[i].open}

MaySend == Len(links) < LINKS_PER_HOUR /\ hits < LINKS_PER_HOUR
NewLink(purpose) ==
    [purpose |-> purpose, password |-> Len(links) + 1, used |-> FALSE, live |-> TRUE]

\* `signup`: an account that exists is told so by e-mail, without a link.
Signup ==
    /\ MaySend
    /\ hits' = hits + 1
    /\ links' = IF account.password # 0 THEN links ELSE Append(links, NewLink("signup"))
    /\ UNCHANGED <<account, flows, sessions, era, cookie, visit>>

\* `request_reset`: only an account with a password gets a link.
RequestReset ==
    /\ MaySend
    /\ hits' = hits + 1
    /\ links' = IF account.password = 0 THEN links ELSE Append(links, NewLink("reset"))
    /\ UNCHANGED <<account, flows, sessions, era, cookie, visit>>

\* `finish_sign_in`: the browser's session is rotated, a new one opened.
Closed(who, ss) == [i \in DOMAIN ss |-> IF i \in who THEN [ss[i] EXCEPT !.open = FALSE] ELSE ss[i]]
Opens(t, by, ss, now) ==
    /\ Len(ss) < MaxSessions
    /\ sessions' = Append(ss, [by |-> by, open |-> TRUE, era |-> now])
    /\ cookie' = [cookie EXCEPT ![t] = Len(ss) + 1]
SignsIn(t, by) == Opens(t, by, Closed({cookie[t]}, sessions), era)

\* `_challenge`: the link is good when it is looked at.
ClicksLink(t, i) ==
    /\ visit[t] = Idle
    /\ ~links[i].used /\ links[i].live
    /\ visit' = [visit EXCEPT ![t] = [at |-> "link", id |-> i]]
    /\ UNCHANGED <<account, links, hits, flows, sessions, era, cookie>>

\* `_consume`: the UPDATE finds the link unspent, or the request is refused.
Spendable_Looked(i) == TRUE      \* mutant: what was looked at still holds
Spendable(i) == ~links[i].used

Confirms(t) ==
    LET i == visit[t].id
    IN  /\ visit[t].at = "link" /\ Spendable(i) /\ links[i].purpose = "signup"
        /\ links' = [links EXCEPT ![i].used = TRUE]
        /\ account' = [account EXCEPT !.known = TRUE, !.password = links[i].password]
        /\ SignsIn(t, <<"link", i>>)
        /\ visit' = [visit EXCEPT ![t] = Idle]
        /\ UNCHANGED <<hits, flows, era>>

\* `confirm_reset`: all sessions of this store end, and the browser gets a new one.
Resets(t) ==
    LET i == visit[t].id
    IN  /\ visit[t].at = "link" /\ Spendable(i) /\ links[i].purpose = "reset"
        /\ links' = [links EXCEPT ![i].used = TRUE]
        /\ account' = [account EXCEPT !.password = links[i].password]
        /\ era' = era + 1
        /\ Opens(t, <<"link", i>>, Closed(Open, sessions), era + 1)
        /\ visit' = [visit EXCEPT ![t] = Idle]
        /\ UNCHANGED <<hits, flows>>

RefusesLink(t) ==
    /\ visit[t].at = "link" /\ ~Spendable(visit[t].id)
    /\ visit' = [visit EXCEPT ![t] = Idle]
    /\ UNCHANGED <<account, links, hits, flows, sessions, era, cookie>>

\* `login`: the stored hash is read, compared in a thread, and the session opened.
TypesPassword(t) ==
    /\ visit[t] = Idle /\ account.password # 0
    /\ visit' = [visit EXCEPT ![t] = [at |-> "login", id |-> account.password]]
    /\ UNCHANGED <<account, links, hits, flows, sessions, era, cookie>>
Logs(t) ==
    /\ visit[t].at = "login"
    /\ SignsIn(t, <<"password", Len(sessions) + 1>>)
    /\ visit' = [visit EXCEPT ![t] = Idle]
    /\ UNCHANGED <<account, links, hits, flows, era>>

-----------------------------------------------------------------------------
\* `start`: the flow is bound to the browser that asked.
StartGoogle(t) ==
    /\ Len(flows) < MaxFlows
    /\ flows' = Append(flows, [tab |-> t, state |-> "started"])
    /\ UNCHANGED <<account, links, hits, sessions, era, cookie, visit>>

\* `callback`: the state is spent and committed before Google is asked.
CallsBack(f) ==
    /\ flows[f].state = "started"
    /\ flows' = [flows EXCEPT ![f].state = "asking"]
    /\ UNCHANGED <<account, links, hits, sessions, era, cookie, visit>>

\* Google vouches for the e-mail and the customer is linked or created (`_link_google`), or the
\* browser is sent back with an error.
GoogleAnswers(f) ==
    /\ flows[f].state = "asking"
    /\ \/ /\ flows' = [flows EXCEPT ![f].state = "handoff"]
          /\ account' = [account EXCEPT !.known = TRUE, !.google = TRUE]
       \/ /\ flows' = [flows EXCEPT ![f].state = "dead"]
          /\ UNCHANGED account
    /\ UNCHANGED <<links, hits, sessions, era, cookie, visit>>

\* `complete`: one UPDATE finds the handoff unspent, in time, in the browser that started it.
Completes(t, f) ==
    /\ flows[f].state = "handoff" /\ flows[f].tab = t
    /\ flows' = [flows EXCEPT ![f].state = "done"]
    /\ SignsIn(t, <<"google", f>>)
    /\ UNCHANGED <<account, links, hits, era, visit>>

\* Ten minutes of a flow, sixty seconds of its handoff, the life of a link.
TimePasses ==
    /\ \/ \E i \in DOMAIN links : /\ links[i].live
                                  /\ links' = [links EXCEPT ![i].live = FALSE]
                                  /\ UNCHANGED flows
       \/ \E f \in DOMAIN flows : /\ flows[f].state \in {"started", "handoff"}
                                  /\ flows' = [flows EXCEPT ![f].state = "dead"]
                                  /\ UNCHANGED links
    /\ UNCHANGED <<account, hits, sessions, era, cookie, visit>>

-----------------------------------------------------------------------------
\* `logout`: of this browser, or of all of them.
Logout(t) ==
    /\ cookie[t] \in Open
    /\ sessions' = Closed({cookie[t]}, sessions)
    /\ cookie' = [cookie EXCEPT ![t] = 0]
    /\ UNCHANGED <<account, links, hits, flows, era, visit>>
LogoutAll(t) ==
    /\ cookie[t] \in Open
    /\ sessions' = Closed(Open, sessions)
    /\ era' = era + 1
    /\ cookie' = [cookie EXCEPT ![t] = 0]
    /\ UNCHANGED <<account, links, hits, flows, visit>>

\* The store blocks the customer (access_service, `decide`), for the first time.
RevokeAll_Known == {i \in Open : sessions[i].by[1] = "password"}    \* mutant
RevokeAll == Open
Block ==
    /\ account.known /\ ~account.blocked
    /\ account' = [account EXCEPT !.blocked = TRUE]
    /\ sessions' = Closed(RevokeAll, sessions)
    /\ era' = era + 1
    /\ UNCHANGED <<links, hits, flows, cookie, visit>>

SignInInit ==
    /\ account = [known |-> FALSE, password |-> 0, google |-> FALSE, blocked |-> FALSE]
    /\ links = <<>> /\ hits = 0 /\ flows = <<>> /\ sessions = <<>> /\ era = 0
    /\ cookie = [t \in Tabs |-> 0]
    /\ visit = [t \in Tabs |-> Idle]

SignInNext ==
    \/ Signup \/ RequestReset \/ TimePasses \/ Block
    \/ \E t \in Tabs :
         \/ Confirms(t) \/ Resets(t) \/ RefusesLink(t) \/ TypesPassword(t) \/ Logs(t)
         \/ StartGoogle(t) \/ Logout(t) \/ LogoutAll(t)
         \/ \E i \in DOMAIN links : ClicksLink(t, i)
         \/ \E f \in DOMAIN flows : Completes(t, f)
    \/ \E f \in DOMAIN flows : CallsBack(f) \/ GoogleAnswers(f)

-----------------------------------------------------------------------------
\* A link or a handoff opens one session, however many tabs and workers use it at once.
OneSessionEach ==
    \A i, j \in DOMAIN sessions : sessions[i].by = sessions[j].by => i = j

\* When all sessions are closed at once, by the customer, a new password or the store, none of
\* those opened before stays open, in whatever browser it was.
AllAreClosed == \A i \in Open : sessions[i].era = era

SignInHolds == OneSessionEach /\ AllAreClosed
=============================================================================
