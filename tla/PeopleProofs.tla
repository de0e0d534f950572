----------------------------- MODULE PeopleProofs -----------------------------
(***************************************************************************)
(* Proofs about MCPeople: SessionsEnd and OneOfEach, whatever the number   *)
(* of requests that cross, of people, links, sessions, numbers and         *)
(* addresses.                                                              *)
(*                                                                         *)
(* Each of its seven components has an invariant of its own, named for it  *)
(* (SignInInv, PassInv ...), with the same lemmas: its start, its step,    *)
(* its stutter, and what it means for the property.  Most of them hold of  *)
(* the requests that crossed no other (`overtaken`, `disputed`, `muddled`, *)
(* `tangled`), and then say what a request in flight still knows: what it  *)
(* read is what is stored.                                                 *)
(***************************************************************************)
EXTENDS MCPeople, SequenceTheorems, FiniteSetTheorems, WellFoundedInduction, TLAPS

-----------------------------------------------------------------------------
(* Sequences: their elements, one more at the end, one of them changed; the least of a set *)

LEMMA ElementsOf ==
    ASSUME NEW T, NEW s \in Seq(T)
    PROVE  Len(s) \in Nat /\ DOMAIN s = 1..Len(s) /\ \A i \in 1..Len(s) : s[i] \in T
BY LenProperties, ElementOfSeq

LEMMA SequenceOf ==
    ASSUME NEW T, NEW n \in Nat, NEW s \in [1..n -> T]
    PROVE  s \in Seq(T) /\ Len(s) = n
<1>1. s \in Seq(T)
  BY SeqDef
<1>2. DOMAIN s = 1..n
  OBVIOUS
<1> QED
  BY <1>1, <1>2, LenProperties

LEMMA OneMore ==
    ASSUME NEW T, NEW s \in Seq(T), NEW x \in T
    PROVE  /\ Append(s, x) \in Seq(T) /\ Len(Append(s, x)) = Len(s) + 1
           /\ \A i \in 1..Len(s) : Append(s, x)[i] = s[i]
           /\ Append(s, x)[Len(s) + 1] = x
BY AppendProperties

LEMMA OneChanged ==
    ASSUME NEW T, NEW s \in Seq(T), NEW i \in 1..Len(s), NEW x \in T
    PROVE  /\ [s EXCEPT ![i] = x] \in Seq(T) /\ Len([s EXCEPT ![i] = x]) = Len(s)
           /\ \A j \in 1..Len(s) : [s EXCEPT ![i] = x][j] = IF j = i THEN x ELSE s[j]
BY ExceptSeq, ElementsOf

\* Every set of numbers with a member has a least one.
LEMMA LeastOf ==
    ASSUME NEW T \in SUBSET Nat, T # {}
    PROVE  /\ (CHOOSE x \in T : \A y \in T : x <= y) \in T
           /\ \A y \in T : (CHOOSE x \in T : \A z \in T : x <= z) <= y
<1> DEFINE R == OpToRel(<, Nat)
<1>1. \A x, y \in Nat : y < x => <<y, x>> \in R
  BY DEF OpToRel
<1>2. IsWellFoundedOn(R, Nat)
  BY NatLessThanWellFounded
<1> HIDE DEF R
<1>3. PICK x \in T : \A y \in T : ~(<<y, x>> \in R)
  BY <1>2, WFMin
<1>4. ASSUME NEW y \in T
      PROVE  x <= y
  <2>1. x \in Nat /\ y \in Nat
    BY <1>3
  <2>2. ~(y < x)
    BY <1>1, <1>3, <2>1, Zenon
  <2> QED
    BY <2>1, <2>2
<1>5. \E z \in T : \A y \in T : z <= y
  BY <1>4
<1> QED
  BY <1>5

-----------------------------------------------------------------------------
(* Signing in *)

SessionRows == [by : {"link", "google", "password"} \X Nat, open : BOOLEAN, era : Nat]

LinkRows == [purpose : {"signup", "reset"}, password : Nat, used : BOOLEAN, live : BOOLEAN]

FlowRows == [tab : Browsers, state : {"started", "asking", "handoff", "dead", "done"}]

AccountRows == [known : BOOLEAN, password : Nat, google : BOOLEAN, blocked : BOOLEAN]

SignInTypes ==
    /\ account \in AccountRows
    /\ sessions \in Seq(SessionRows) /\ links \in Seq(LinkRows) /\ flows \in Seq(FlowRows)
    /\ era \in Nat
    /\ visit \in [Browsers -> [at : {"idle", "link", "login"}, id : Nat]]
    /\ \A t \in Browsers : visit[t].at = "link" => visit[t].id \in 1..Len(links)

\* A session was opened by what is spent since: a link, a handoff, or its own opening.
Spent(by, i) ==
    /\ by[1] = "link" => by[2] \in 1..Len(links) /\ links[by[2]].used
    /\ by[1] = "google" => by[2] \in 1..Len(flows) /\ flows[by[2]].state = "done"
    /\ by[1] = "password" => by[2] = i

SessionsInv ==
    /\ \A i \in 1..Len(sessions) : Spent(sessions[i].by, i)
    /\ \A i, j \in 1..Len(sessions) : sessions[i].by = sessions[j].by => i = j
    /\ \A i \in 1..Len(sessions) : sessions[i].open => sessions[i].era = era

SignInInv == SignInTypes /\ SessionsInv

LEMMA SignInFacts ==
    ASSUME SignInInv
    PROVE  /\ Len(sessions) \in Nat /\ DOMAIN sessions = 1..Len(sessions)
           /\ \A i \in 1..Len(sessions) : sessions[i] \in SessionRows
           /\ Len(links) \in Nat /\ DOMAIN links = 1..Len(links)
           /\ \A i \in 1..Len(links) : links[i] \in LinkRows
           /\ Len(flows) \in Nat /\ DOMAIN flows = 1..Len(flows)
           /\ \A i \in 1..Len(flows) : flows[i] \in FlowRows
BY ElementsOf DEF SignInInv, SignInTypes

\* Links and flows may be made; a link that was used and a flow that is done stay so.
Later ==
    /\ links' \in Seq(LinkRows) /\ flows' \in Seq(FlowRows)
    /\ Len(links) <= Len(links') /\ Len(flows) <= Len(flows')
    /\ \A i \in 1..Len(links) : links[i].used => links'[i].used
    /\ \A f \in 1..Len(flows) : flows[f].state = "done" => flows'[f].state = "done"

LEMMA StaysSpent ==
    ASSUME SignInInv, Later, NEW by \in {"link", "google", "password"} \X Nat, NEW i, Spent(by, i)
    PROVE  Spent(by, i)'
<1>1. Len(links') \in Nat /\ Len(flows') \in Nat /\ Len(links) \in Nat /\ Len(flows) \in Nat
  BY SignInFacts, ElementsOf DEF Later
<1> QED
  BY <1>1 DEF Later, Spent

\* Some sessions are closed.
LEMMA ClosedFacts ==
    ASSUME NEW who, NEW ss \in Seq(SessionRows)
    PROVE  /\ S!Closed(who, ss) \in Seq(SessionRows) /\ Len(S!Closed(who, ss)) = Len(ss)
           /\ \A i \in 1..Len(ss) : /\ S!Closed(who, ss)[i].by = ss[i].by
                                    /\ S!Closed(who, ss)[i].era = ss[i].era
                                    /\ S!Closed(who, ss)[i].open <=> ss[i].open /\ i \notin who
<1>1. Len(ss) \in Nat /\ DOMAIN ss = 1..Len(ss) /\ \A i \in 1..Len(ss) : ss[i] \in SessionRows
  BY ElementsOf
<1>2. \A i \in 1..Len(ss) : [ss[i] EXCEPT !.open = FALSE] \in SessionRows
  BY <1>1 DEF SessionRows
<1>3. S!Closed(who, ss) \in [1..Len(ss) -> SessionRows]
  BY <1>1, <1>2 DEF S!Closed
<1>4. \A i \in 1..Len(ss) :
        S!Closed(who, ss)[i] = IF i \in who THEN [ss[i] EXCEPT !.open = FALSE] ELSE ss[i]
  BY <1>1 DEF S!Closed
<1>5. S!Closed(who, ss) \in Seq(SessionRows) /\ Len(S!Closed(who, ss)) = Len(ss)
  BY <1>1, <1>3, SequenceOf
<1>6. ASSUME NEW i \in 1..Len(ss)
      PROVE  /\ S!Closed(who, ss)[i].by = ss[i].by
             /\ S!Closed(who, ss)[i].era = ss[i].era
             /\ S!Closed(who, ss)[i].open <=> ss[i].open /\ i \notin who
  <2>1. ss[i] \in SessionRows
    BY <1>1
  <2>2. CASE i \in who
    BY <1>4, <2>1, <2>2 DEF SessionRows
  <2>3. CASE i \notin who
    BY <1>4, <2>3
  <2> QED
    BY <2>2, <2>3
<1> QED
  BY <1>5, <1>6

\* Sessions close, all of them when the era ends.
LEMMA SessionsClose ==
    ASSUME SignInInv, Later, NEW who, sessions' = S!Closed(who, sessions),
           era' = era \/ (era' = era + 1 /\ S!Open \subseteq who)
    PROVE  SessionsInv' /\ sessions' \in Seq(SessionRows) /\ era' \in Nat
<1>1. /\ sessions' \in Seq(SessionRows) /\ Len(sessions') = Len(sessions)
      /\ \A i \in 1..Len(sessions) : /\ sessions'[i].by = sessions[i].by
                                     /\ sessions'[i].era = sessions[i].era
                                     /\ sessions'[i].open <=> sessions[i].open /\ i \notin who
  BY ClosedFacts DEF SignInInv, SignInTypes
<1>2. \A i \in 1..Len(sessions) : sessions'[i].open => sessions'[i].era = era'
  BY <1>1, SignInFacts DEF SignInInv, SessionsInv, S!Open
<1>3. \A i \in 1..Len(sessions) : Spent(sessions[i].by, i)'
  BY <1>1, SignInFacts, StaysSpent DEF SignInInv, SessionsInv, SessionRows
<1>4. era \in Nat /\ era' \in Nat
  BY DEF SignInInv, SignInTypes
<1>5. \A i, j \in 1..Len(sessions) : sessions'[i].by = sessions'[j].by => i = j
  BY <1>1 DEF SignInInv, SessionsInv
<1> QED
  BY <1>1, <1>2, <1>3, <1>4, <1>5 DEF SessionsInv

\* A session is opened by what is spent just then, by no session before.
LEMMA SessionOpens ==
    ASSUME SignInInv, Later, NEW t \in Browsers, NEW by \in {"link", "google", "password"} \X Nat,
           NEW who, NEW now, S!Opens(t, by, S!Closed(who, sessions), now), era' = now,
           now = era \/ (now = era + 1 /\ S!Open \subseteq who),
           \A i \in 1..Len(sessions) : sessions[i].by # by,
           NEW n, n = Len(sessions) + 1, Spent(by, n)'
    PROVE  SessionsInv' /\ sessions' \in Seq(SessionRows) /\ era' \in Nat
<1> DEFINE ss == S!Closed(who, sessions)
<1>1. PICK row : row = [by |-> by, open |-> TRUE, era |-> now]
  OBVIOUS
<1>2. /\ ss \in Seq(SessionRows) /\ Len(ss) = Len(sessions)
      /\ \A i \in 1..Len(sessions) : /\ ss[i].by = sessions[i].by
                                     /\ ss[i].era = sessions[i].era
                                     /\ ss[i].open <=> sessions[i].open /\ i \notin who
  BY ClosedFacts DEF SignInInv, SignInTypes
<1>3. now \in Nat
  BY DEF SignInInv, SignInTypes
<1>4. row \in SessionRows
  BY <1>1, <1>3 DEF SessionRows
<1>5. sessions' = Append(ss, row)
  BY <1>1 DEF S!Opens
<1> HIDE DEF ss
<1>6. /\ sessions' \in Seq(SessionRows) /\ Len(sessions') = Len(sessions) + 1
      /\ \A i \in 1..Len(sessions) : sessions'[i] = ss[i]
      /\ sessions'[Len(sessions) + 1] = row
  BY <1>2, <1>4, <1>5, OneMore
<1>7. ASSUME NEW i \in 1..Len(sessions)
      PROVE  Spent(sessions[i].by, i)'
  <2>1. PICK b \in {"link", "google", "password"} \X Nat : b = sessions[i].by
    BY SignInFacts DEF SessionRows
  <2>2. Spent(b, i)'
    BY <2>1, StaysSpent DEF SignInInv, SessionsInv
  <2>3. sessions'[i].by = b
    BY <1>2, <1>6, <2>1
  <2> QED
    BY <2>2, <2>3 DEF Spent
<1>8. \A i \in 1..Len(sessions) : sessions'[i].open => sessions'[i].era = era'
  BY <1>2, <1>6, SignInFacts DEF SignInInv, SessionsInv, S!Open
<1>9. Len(sessions) \in Nat
  BY SignInFacts
<1>10. \A i \in 1..Len(sessions') : i \in 1..Len(sessions) \/ i = Len(sessions) + 1
  BY <1>6, <1>9
<1>11. row.by = by /\ row.era = now
  BY <1>1
<1>12. ASSUME NEW i \in 1..Len(sessions')
       PROVE  Spent(sessions[i].by, i)'
  <2>1. CASE i \in 1..Len(sessions)
    BY <1>7, <2>1
  <2>2. CASE i = Len(sessions) + 1
    <3>1. sessions'[i].by = by
      BY <1>6, <1>11, <2>2
    <3> QED
      BY <2>2, <3>1 DEF Spent
  <2> QED
    BY <1>10, <2>1, <2>2
<1>13. \A i, j \in 1..Len(sessions') : sessions'[i].by = sessions'[j].by => i = j
  BY <1>2, <1>6, <1>9, <1>10, <1>11 DEF SignInInv, SessionsInv
<1>14. \A i \in 1..Len(sessions') : sessions'[i].open => sessions'[i].era = era'
  BY <1>6, <1>8, <1>10, <1>11
<1> QED
  BY <1>3, <1>6, <1>12, <1>13, <1>14 DEF SessionsInv

LEMMA SignInSame ==
    ASSUME SignInInv, Later, UNCHANGED <<sessions, era>>
    PROVE  SessionsInv' /\ sessions' \in Seq(SessionRows) /\ era' \in Nat
<1>1. ASSUME NEW i \in 1..Len(sessions)
      PROVE  Spent(sessions[i].by, i)'
  <2>1. PICK b \in {"link", "google", "password"} \X Nat : b = sessions[i].by
    BY SignInFacts DEF SessionRows
  <2>2. Spent(b, i)'
    BY <2>1, StaysSpent DEF SignInInv, SessionsInv
  <2> QED
    BY <2>1, <2>2 DEF Spent
<1> QED
  BY <1>1 DEF SignInInv, SignInTypes, SessionsInv

LEMMA LaterSame ==
    ASSUME SignInInv, UNCHANGED <<links, flows>>
    PROVE  Later
BY SignInFacts DEF Later, SignInInv, SignInTypes

\* A link is made, or changes without being unspent.
LEMMA LinkMade ==
    ASSUME SignInInv, NEW purpose \in {"signup", "reset"},
           links' = Append(links, S!NewLink(purpose)), UNCHANGED flows
    PROVE  Later
<1>1. S!NewLink(purpose) \in LinkRows
  BY SignInFacts DEF S!NewLink, LinkRows
<1>2. /\ links' \in Seq(LinkRows) /\ Len(links') = Len(links) + 1
      /\ \A i \in 1..Len(links) : links'[i] = links[i]
  BY <1>1, OneMore DEF SignInInv, SignInTypes
<1> QED
  BY <1>2, SignInFacts DEF Later, SignInInv, SignInTypes

LEMMA LinkChanged ==
    ASSUME SignInInv, NEW i \in 1..Len(links), NEW row \in LinkRows,
           links' = [links EXCEPT ![i] = row], links[i].used => row.used, UNCHANGED flows
    PROVE  Later /\ Len(links') = Len(links) /\ links'[i] = row
<1>1. /\ links' \in Seq(LinkRows) /\ Len(links') = Len(links)
      /\ \A j \in 1..Len(links) : links'[j] = IF j = i THEN row ELSE links[j]
  BY OneChanged DEF SignInInv, SignInTypes
<1> QED
  BY <1>1, SignInFacts DEF Later, SignInInv, SignInTypes

LEMMA FlowChanged ==
    ASSUME SignInInv, NEW f \in 1..Len(flows), NEW state \in {"asking", "handoff", "dead", "done"},
           flows' = [flows EXCEPT ![f].state = state], flows[f].state # "done", UNCHANGED links
    PROVE  Later /\ Len(flows') = Len(flows) /\ flows'[f].state = state
<1>1. PICK row \in FlowRows : row = [flows[f] EXCEPT !.state = state]
  BY SignInFacts DEF FlowRows
<1>2. flows' = [flows EXCEPT ![f] = row]
  BY <1>1
<1>3. /\ flows' \in Seq(FlowRows) /\ Len(flows') = Len(flows)
      /\ \A j \in 1..Len(flows) : flows'[j] = IF j = f THEN row ELSE flows[j]
  <2>1. flows \in Seq(FlowRows)
    BY DEF SignInInv, SignInTypes
  <2> QED
    BY <1>2, <2>1, OneChanged
<1>4. row.state = state
  BY <1>1, SignInFacts DEF FlowRows
<1> QED
  BY <1>3, <1>4, SignInFacts DEF Later, SignInInv, SignInTypes

\* What a request in flight looked at: the link it is about is there.
VisitsOK(vs, n) ==
    /\ vs \in [Browsers -> [at : {"idle", "link", "login"}, id : Nat]]
    /\ \A t \in Browsers : vs[t].at = "link" => vs[t].id \in 1..n

LEMMA VisitChanged ==
    ASSUME SignInInv, Later, NEW t \in Browsers, NEW row \in [at : {"idle", "link", "login"}, id : Nat],
           visit' = [visit EXCEPT ![t] = row], row.at = "link" => row.id \in 1..Len(links)
    PROVE  VisitsOK(visit', Len(links'))
<1>1. Len(links') \in Nat /\ Len(links) \in Nat /\ Len(links) <= Len(links')
  BY ElementsOf, SignInFacts DEF Later
<1> QED
  BY <1>1 DEF VisitsOK, SignInInv, SignInTypes

LEMMA VisitSame ==
    ASSUME SignInInv, Later, UNCHANGED visit
    PROVE  VisitsOK(visit', Len(links'))
<1>1. Len(links') \in Nat /\ Len(links) \in Nat /\ Len(links) <= Len(links')
  BY ElementsOf, SignInFacts DEF Later
<1> QED
  BY <1>1 DEF VisitsOK, SignInInv, SignInTypes

LEMMA SignInKept ==
    ASSUME SignInInv, Later, VisitsOK(visit', Len(links')),
           account' \in AccountRows, SessionsInv', sessions' \in Seq(SessionRows), era' \in Nat
    PROVE  SignInInv'
BY DEF SignInInv, SignInTypes, VisitsOK, Later

LEMMA AccountKept ==
    ASSUME SignInInv, S!SignInNext
    PROVE  account' \in AccountRows
<1>1. account \in AccountRows
  BY DEF SignInInv, SignInTypes
<1>2. ASSUME NEW t \in Browsers, S!Confirms(t) \/ S!Resets(t)
      PROVE  account' \in AccountRows
  <2>1. visit[t].id \in 1..Len(links)
    BY <1>2 DEF S!Confirms, S!Resets, SignInInv, SignInTypes
  <2>2. links[visit[t].id].password \in Nat
    BY <2>1, SignInFacts DEF LinkRows
  <2> QED
    BY <1>1, <1>2, <2>2 DEF S!Confirms, S!Resets, AccountRows
<1>3. CASE S!Block \/ \E f \in DOMAIN flows : S!GoogleAnswers(f)
  BY <1>1, <1>3 DEF S!Block, S!GoogleAnswers, AccountRows
<1> QED
  BY <1>1, <1>2, <1>3 DEF S!SignInNext, S!Signup, S!RequestReset, S!TimePasses, S!RefusesLink,
     S!TypesPassword, S!Logs, S!StartGoogle, S!Logout, S!LogoutAll, S!ClicksLink, S!Completes,
     S!CallsBack

LEMMA EmailKeeps ==
    ASSUME SignInInv, S!SignInNext, S!Signup \/ S!RequestReset
    PROVE  SignInInv'
<1>1. UNCHANGED <<flows, sessions, era, visit>>
  BY DEF S!Signup, S!RequestReset
<1>2. Later
  BY <1>1, LinkMade, LaterSame DEF S!Signup, S!RequestReset
<1> QED
  BY <1>1, <1>2, SignInSame, VisitSame, AccountKept, SignInKept

LEMMA ClicksKeeps ==
    ASSUME SignInInv, S!SignInNext, NEW t \in Browsers, NEW i \in DOMAIN links, S!ClicksLink(t, i)
    PROVE  SignInInv'
<1>1. i \in 1..Len(links)
  BY SignInFacts
<1>2. Later
  BY LaterSame DEF S!ClicksLink
<1>3. PICK row : row = [at |-> "link", id |-> i]
  OBVIOUS
<1>4. VisitsOK(visit', Len(links'))
  <2>1. i \in Nat
    BY <1>1, SignInFacts
  <2>2. row \in [at : {"idle", "link", "login"}, id : Nat] /\ row.id = i
    BY <1>3, <2>1
  <2>3. visit' = [visit EXCEPT ![t] = row]
    BY <1>3 DEF S!ClicksLink
  <2> QED
    BY <1>1, <1>2, <2>2, <2>3, VisitChanged
<1> QED
  BY <1>2, <1>4, SignInSame, AccountKept, SignInKept DEF S!ClicksLink

LEMMA LinkSpends ==
    ASSUME SignInInv, S!SignInNext, NEW t \in Browsers, S!Confirms(t) \/ S!Resets(t)
    PROVE  SignInInv'
<1>1. PICK i : i = visit[t].id
  OBVIOUS
<1>2. i \in 1..Len(links) /\ ~links[i].used
  BY <1>1 DEF S!Confirms, S!Resets, S!Spendable, SignInInv, SignInTypes
<1>3. links' = [links EXCEPT ![i].used = TRUE] /\ UNCHANGED flows
      /\ visit' = [visit EXCEPT ![t] = S!Idle]
  BY <1>1 DEF S!Confirms, S!Resets
<1>4. PICK row \in LinkRows : row = [links[i] EXCEPT !.used = TRUE]
  BY <1>2, SignInFacts DEF LinkRows
<1>5. row.used
  BY <1>2, <1>4, SignInFacts DEF LinkRows
<1>6. Later /\ Len(links') = Len(links) /\ links'[i].used
  BY <1>2, <1>3, <1>4, <1>5, LinkChanged
<1>7. VisitsOK(visit', Len(links'))
  BY <1>3, <1>6, VisitChanged DEF S!Idle
<1>8. PICK by \in {"link", "google", "password"} \X Nat : by = <<"link", i>>
  <2>1. i \in Nat
    BY <1>2, SignInFacts
  <2> QED
    BY <2>1
<1>9. \A j \in 1..Len(sessions) : sessions[j].by # by
  BY <1>2, <1>8 DEF SignInInv, SessionsInv, Spent
<1>10. PICK n : n = Len(sessions) + 1
  OBVIOUS
<1>11. Spent(by, n)'
  BY <1>2, <1>6, <1>8 DEF Spent
<1>12. SessionsInv' /\ sessions' \in Seq(SessionRows) /\ era' \in Nat
  <2>1. CASE S!Confirms(t)
    BY <1>1, <1>6, <1>8, <1>9, <1>10, <1>11, <2>1, SessionOpens DEF S!Confirms, S!SignsIn
  <2>2. CASE S!Resets(t)
    BY <1>1, <1>6, <1>8, <1>9, <1>10, <1>11, <2>2, SessionOpens DEF S!Resets
  <2> QED
    BY <2>1, <2>2
<1> QED
  BY <1>6, <1>7, <1>12, AccountKept, SignInKept

LEMMA VisitsKeep ==
    ASSUME SignInInv, S!SignInNext, NEW t \in Browsers, S!RefusesLink(t) \/ S!TypesPassword(t)
    PROVE  SignInInv'
<1>1. Later /\ UNCHANGED <<sessions, era>>
  BY LaterSame DEF S!RefusesLink, S!TypesPassword
<1>2. VisitsOK(visit', Len(links'))
  <2>1. account.password \in Nat
    BY DEF SignInInv, SignInTypes, AccountRows
  <2>2. PICK row \in [at : {"idle", "link", "login"}, id : Nat] :
           visit' = [visit EXCEPT ![t] = row] /\ row.at # "link"
    BY <2>1 DEF S!RefusesLink, S!TypesPassword, S!Idle
  <2> QED
    BY <1>1, <2>2, VisitChanged
<1> QED
  BY <1>1, <1>2, SignInSame, AccountKept, SignInKept

LEMMA LogsKeeps ==
    ASSUME SignInInv, S!SignInNext, NEW t \in Browsers, S!Logs(t)
    PROVE  SignInInv'
<1>1. Later /\ visit' = [visit EXCEPT ![t] = S!Idle] /\ UNCHANGED era
  BY LaterSame DEF S!Logs
<1>2. VisitsOK(visit', Len(links'))
  BY <1>1, VisitChanged DEF S!Idle
<1>3. PICK n : n = Len(sessions) + 1
  OBVIOUS
<1>4. PICK by \in {"link", "google", "password"} \X Nat : by = <<"password", n>>
  <2>1. n \in Nat
    BY <1>3, SignInFacts
  <2> QED
    BY <2>1
<1>5. \A j \in 1..Len(sessions) : sessions[j].by # by
  <2> SUFFICES ASSUME NEW j \in 1..Len(sessions), sessions[j].by = by PROVE FALSE
    OBVIOUS
  <2>1. j = n
    BY <1>4 DEF SignInInv, SessionsInv, Spent
  <2> QED
    BY <1>3, <2>1, SignInFacts
<1>6. Spent(by, n)'
  BY <1>4 DEF Spent
<1>7. SessionsInv' /\ sessions' \in Seq(SessionRows) /\ era' \in Nat
  BY <1>1, <1>3, <1>4, <1>5, <1>6, SessionOpens DEF S!Logs, S!SignsIn
<1> QED
  BY <1>1, <1>2, <1>7, AccountKept, SignInKept

LEMMA CompletesKeeps ==
    ASSUME SignInInv, S!SignInNext, NEW t \in Browsers, NEW f \in DOMAIN flows, S!Completes(t, f)
    PROVE  SignInInv'
<1>1. f \in 1..Len(flows) /\ flows[f].state = "handoff"
  BY SignInFacts DEF S!Completes
<1>2. Later /\ Len(flows') = Len(flows) /\ flows'[f].state = "done"
  BY <1>1, FlowChanged DEF S!Completes
<1>3. PICK n : n = Len(sessions) + 1
  OBVIOUS
<1>4. PICK by \in {"link", "google", "password"} \X Nat : by = <<"google", f>>
  <2>1. f \in Nat
    BY <1>1, SignInFacts
  <2> QED
    BY <2>1
<1>5. \A j \in 1..Len(sessions) : sessions[j].by # by
  BY <1>1, <1>4 DEF SignInInv, SessionsInv, Spent
<1>6. Spent(by, n)'
  BY <1>1, <1>2, <1>4 DEF Spent
<1>7. SessionsInv' /\ sessions' \in Seq(SessionRows) /\ era' \in Nat
  BY <1>2, <1>3, <1>4, <1>5, <1>6, SessionOpens DEF S!Completes, S!SignsIn
<1> QED
  BY <1>2, <1>7, VisitSame, AccountKept, SignInKept DEF S!Completes

LEMMA FlowsKeep ==
    ASSUME SignInInv, S!SignInNext,
           \/ \E t \in Browsers : S!StartGoogle(t)
           \/ \E f \in DOMAIN flows : S!CallsBack(f) \/ S!GoogleAnswers(f)
    PROVE  SignInInv'
<1>1. UNCHANGED <<links, sessions, era, visit>>
  BY DEF S!StartGoogle, S!CallsBack, S!GoogleAnswers
<1>2. CASE \E t \in Browsers : S!StartGoogle(t)
  <2>1. PICK t \in Browsers : S!StartGoogle(t)
    BY <1>2
  <2>2. PICK row \in FlowRows : row = [tab |-> t, state |-> "started"]
    BY DEF FlowRows
  <2>3. /\ flows' \in Seq(FlowRows) /\ Len(flows') = Len(flows) + 1
        /\ \A f \in 1..Len(flows) : flows'[f] = flows[f]
    BY <2>1, <2>2, OneMore DEF S!StartGoogle, SignInInv, SignInTypes
  <2>4. Later
    <3>1. links \in Seq(LinkRows) /\ Len(links) \in Nat /\ Len(flows) \in Nat
      BY SignInFacts DEF SignInInv, SignInTypes
    <3>2. \A f \in 1..Len(flows) : flows[f].state = "done" => flows'[f].state = "done"
      BY <2>3
    <3> QED
      BY <1>1, <2>3, <3>1, <3>2 DEF Later
  <2> QED
    BY <1>1, <2>4, SignInSame, VisitSame, AccountKept, SignInKept
<1>3. CASE \E f \in DOMAIN flows : S!CallsBack(f) \/ S!GoogleAnswers(f)
  <2>1. PICK f \in 1..Len(flows), state \in {"asking", "handoff", "dead"} :
           flows' = [flows EXCEPT ![f].state = state] /\ flows[f].state # "done"
    BY <1>3, SignInFacts DEF S!CallsBack, S!GoogleAnswers
  <2>2. Later
    BY <1>1, <2>1, FlowChanged
  <2> QED
    BY <1>1, <2>2, SignInSame, VisitSame, AccountKept, SignInKept
<1> QED
  BY <1>2, <1>3

LEMMA TimeKeeps ==
    ASSUME SignInInv, S!SignInNext, S!TimePasses
    PROVE  SignInInv'
<1>1. UNCHANGED <<sessions, era, visit>>
  BY DEF S!TimePasses
<1>2. Later
  <2>1. CASE \E i \in DOMAIN links : links' = [links EXCEPT ![i].live = FALSE] /\ UNCHANGED flows
    <3>1. PICK i \in 1..Len(links) : links' = [links EXCEPT ![i].live = FALSE] /\ UNCHANGED flows
      BY <2>1, SignInFacts
    <3>2. PICK row \in LinkRows : row = [links[i] EXCEPT !.live = FALSE]
      BY SignInFacts DEF LinkRows
    <3>3. links[i].used => row.used
      BY <3>2, SignInFacts DEF LinkRows
    <3> QED
      BY <3>1, <3>2, <3>3, LinkChanged
  <2>2. CASE \E f \in DOMAIN flows : /\ flows[f].state \in {"started", "handoff"}
                                     /\ flows' = [flows EXCEPT ![f].state = "dead"]
                                     /\ UNCHANGED links
    <3>1. PICK f \in 1..Len(flows) : /\ flows[f].state # "done"
                                     /\ flows' = [flows EXCEPT ![f].state = "dead"]
                                     /\ UNCHANGED links
      BY <2>2, SignInFacts
    <3> QED
      BY <3>1, FlowChanged
  <2> QED
    BY <2>1, <2>2 DEF S!TimePasses
<1> QED
  BY <1>1, <1>2, SignInSame, VisitSame, AccountKept, SignInKept

LEMMA ClosingKeeps ==
    ASSUME SignInInv, S!SignInNext, S!Block \/ \E t \in Browsers : S!Logout(t) \/ S!LogoutAll(t)
    PROVE  SignInInv'
<1>1. UNCHANGED <<links, flows, visit>>
  BY DEF S!Block, S!Logout, S!LogoutAll
<1>2. Later
  BY <1>1, LaterSame
<1>3. \E who : /\ sessions' = S!Closed(who, sessions)
               /\ era' = era \/ (era' = era + 1 /\ S!Open \subseteq who)
  BY DEF S!Block, S!RevokeAll, S!Logout, S!LogoutAll
<1> QED
  BY <1>1, <1>2, <1>3, SessionsClose, VisitSame, AccountKept, SignInKept

LEMMA SignInStep ==
    ASSUME SignInInv, S!SignInNext
    PROVE  SignInInv'
BY EmailKeeps, ClicksKeeps, LinkSpends, VisitsKeep, LogsKeeps, CompletesKeeps, FlowsKeep, TimeKeeps,
   ClosingKeeps DEF S!SignInNext

LEMMA SignInStutter ==
    ASSUME SignInInv, UNCHANGED signInVars
    PROVE  SignInInv'
<1>1. Later
  BY LaterSame DEF signInVars
<1> QED
  BY <1>1, SignInSame, VisitSame, SignInKept DEF signInVars, SignInInv, SignInTypes

LEMMA SignInStart ==
    ASSUME S!SignInInit
    PROVE  SignInInv
BY DEF S!SignInInit, S!Idle, SignInInv, SignInTypes, SessionsInv, AccountRows

LEMMA SignInIsHeld ==
    ASSUME SignInInv
    PROVE  S!SignInHolds
BY SignInFacts DEF SignInInv, SessionsInv, S!SignInHolds, S!OneSessionEach, S!AllAreClosed, S!Open

-----------------------------------------------------------------------------
(* A closed store *)

Savings == C!AccessMode \cup {"set", "remove"}

SettingRows == [mode : C!AccessMode, protected : BOOLEAN, version : Nat]

PassRows == [version : Nat, typed : Nat]

VisitorRows == [status : C!Statuses, pass : PassRows]

ClerkRows == [does : Savings, id : Nat, read : SettingRows, late : BOOLEAN]

PassTypes ==
    /\ setting \in SettingRows /\ secret \in Nat /\ saves \in Nat
    /\ cache = C!NoCache \/ cache \in SettingRows
    /\ visitor \in [Visitors -> VisitorRows]
    /\ clerk \in [Crossing -> ClerkRows \cup {C!Resting}]
    /\ overtaken \in BOOLEAN

\* As long as no saving was overtaken: what the storefront knows is what is stored or older, a pass
\* of the version of now was given for the password of now, and who is about to write read what is
\* stored, unless another wrote since.
PassOK(pass) ==
    /\ pass.version <= setting.version
    /\ pass.version = setting.version /\ pass.typed # 0 => pass.typed = secret

ClerkOK(c) == clerk[c] # C!Resting /\ ~clerk[c].late => clerk[c].read = setting

PassInv ==
    /\ PassTypes
    /\ ~overtaken => /\ cache # C!NoCache => cache.version <= setting.version
                     /\ \A v \in Visitors : PassOK(visitor[v].pass)
                     /\ \A c \in Crossing : ClerkOK(c)

LEMMA RestingIsNone ==
    /\ C!Resting.does = "nothing" /\ C!Resting \notin ClerkRows
    /\ \A k \in ClerkRows : k.does # "nothing" /\ k # C!Resting
    /\ \A s \in SettingRows : s # C!NoCache
BY DEF C!Resting, C!NoCache, ClerkRows, Savings, SettingRows, C!AccessMode

LEMMA PassReads ==
    ASSUME PassInv, NEW c \in Crossing, NEW does \in Savings, C!Reads(c, does)
    PROVE  PassInv'
<1>1. PICK k \in ClerkRows : /\ k = [does |-> does, id |-> saves + 1, read |-> setting, late |-> FALSE]
                             /\ k.read = setting
  <2>1. PICK k : k = [does |-> does, id |-> saves + 1, read |-> setting, late |-> FALSE]
    OBVIOUS
  <2>2. saves + 1 \in Nat /\ setting \in SettingRows
    BY DEF PassInv, PassTypes
  <2>3. k \in ClerkRows /\ k.read = setting
    BY <2>1, <2>2 DEF ClerkRows
  <2> QED
    BY <2>1, <2>3
<1>2. clerk' = [clerk EXCEPT ![c] = k] /\ saves' = saves + 1
      /\ UNCHANGED <<setting, secret, cache, visitor, overtaken>>
  BY <1>1 DEF C!Reads
<1>3. PassTypes'
  BY <1>2 DEF PassInv, PassTypes
<1>4. ASSUME ~overtaken, NEW d \in Crossing
      PROVE  ClerkOK(d)'
  BY <1>1, <1>2, <1>4 DEF PassInv, PassTypes, ClerkOK
<1> QED
  BY <1>2, <1>3, <1>4 DEF PassInv, PassOK

LEMMA PassForgets ==
    ASSUME PassInv, UNCHANGED <<setting, secret, visitor, clerk, saves, overtaken>>,
           cache' \in {cache, setting, C!NoCache}
    PROVE  PassInv'
<1>1. PassTypes'
  BY DEF PassInv, PassTypes
<1>2. ~overtaken => (cache' # C!NoCache => cache'.version <= setting.version)
  BY DEF PassInv, PassTypes, SettingRows
<1> QED
  BY <1>1, <1>2 DEF PassInv, PassOK, ClerkOK

LEMMA PassCommits ==
    ASSUME PassInv, NEW c \in Crossing, C!Commits(c)
    PROVE  PassInv'
<1>1. PICK k \in ClerkRows : k = clerk[c]
  BY RestingIsNone DEF C!Commits, PassInv, PassTypes
<1>2. /\ setting' = IF k.does \in C!AccessMode THEN [k.read EXCEPT !.mode = k.does]
                    ELSE [k.read EXCEPT !.protected = (k.does = "set"), !.version = k.read.version + 1]
      /\ secret' = CASE k.does = "set"    -> k.id
                     [] k.does = "remove" -> 0
                     [] OTHER             -> secret
      /\ overtaken' = (overtaken \/ k.late)
      /\ UNCHANGED <<cache, visitor, saves>>
  BY <1>1 DEF C!Commits, C!Bumped
<1>3. /\ k.does \in Savings /\ k.id \in Nat /\ k.read \in SettingRows /\ k.late \in BOOLEAN
      /\ k.read.version \in Nat
  BY DEF ClerkRows, SettingRows
<1>4. /\ setting' \in SettingRows
      /\ setting'.version = IF k.does \in C!AccessMode THEN k.read.version ELSE k.read.version + 1
  <2>1. CASE k.does \in C!AccessMode
    BY <1>2, <1>3, <2>1 DEF SettingRows
  <2>2. CASE k.does \notin C!AccessMode
    <3>1. PICK set \in BOOLEAN : set = (k.does = "set")
      OBVIOUS
    <3>2. PICK n \in Nat : n = k.read.version + 1
      BY <1>3
    <3>3. setting' = [k.read EXCEPT !.protected = set, !.version = n]
      BY <1>2, <2>2, <3>1, <3>2
    <3>4. setting' = [mode |-> k.read.mode, protected |-> set, version |-> n]
      BY <1>3, <3>3 DEF SettingRows
    <3> QED
      BY <1>3, <2>2, <3>2, <3>4 DEF SettingRows
  <2> QED
    BY <2>1, <2>2
<1>5. secret' \in Nat /\ (k.does \in C!AccessMode => secret' = secret)
  BY <1>2, <1>3 DEF PassInv, PassTypes, Savings, C!AccessMode
<1>6. \A d \in Crossing : /\ clerk'[d] \in ClerkRows \cup {C!Resting}
                          /\ clerk'[d] # C!Resting => clerk'[d].late
  <2>1. clerk' = [d \in Crossing |-> IF d = c THEN C!Resting
                                     ELSE IF clerk[d] = C!Resting THEN C!Resting
                                     ELSE [clerk[d] EXCEPT !.late = TRUE]]
    BY DEF C!Commits
  <2>2. ASSUME NEW d \in Crossing, clerk[d] # C!Resting
        PROVE  [clerk[d] EXCEPT !.late = TRUE] \in ClerkRows /\ [clerk[d] EXCEPT !.late = TRUE].late
    <3>1. clerk[d] \in ClerkRows
      BY <2>2 DEF PassInv, PassTypes
    <3> QED
      BY <3>1 DEF ClerkRows
  <2> QED
    BY <2>1, <2>2
<1>7. PassTypes'
  <2>1. DOMAIN clerk' = Crossing /\ clerk' = [d \in Crossing |-> clerk'[d]]
    BY DEF C!Commits
  <2>2. clerk' \in [Crossing -> ClerkRows \cup {C!Resting}]
    BY <1>6, <2>1
  <2> QED
    BY <1>2, <1>3, <1>4, <1>5, <2>2 DEF PassInv, PassTypes
<1>8. ASSUME ~overtaken'
      PROVE  /\ cache' # C!NoCache => cache'.version <= setting'.version
             /\ \A v \in Visitors : PassOK(visitor[v].pass)'
             /\ \A d \in Crossing : ClerkOK(d)'
  <2>1. k.read = setting /\ ~overtaken
    BY <1>1, <1>2, <1>8, RestingIsNone DEF PassInv, ClerkOK
  <2>2. setting.version \in Nat
    BY DEF PassInv, PassTypes, SettingRows
  <2>3. cache # C!NoCache => cache.version \in Nat /\ cache.version <= setting.version
    BY <2>1 DEF PassInv, PassTypes, SettingRows
  <2>4. ASSUME NEW v \in Visitors
        PROVE  PassOK(visitor[v].pass)'
    <3>1. visitor[v].pass.version \in Nat /\ PassOK(visitor[v].pass)
      BY <2>1 DEF PassInv, PassTypes, VisitorRows, PassRows
    <3> QED
      BY <1>2, <1>4, <1>5, <2>1, <2>2, <3>1 DEF PassOK
  <2>5. \A d \in Crossing : ClerkOK(d)'
    BY <1>6 DEF ClerkOK
  <2> QED
    BY <1>2, <1>4, <2>1, <2>2, <2>3, <2>4, <2>5
<1> QED
  BY <1>7, <1>8 DEF PassInv

LEMMA PassEnters ==
    ASSUME PassInv, NEW v \in Visitors, C!Enters(v)
    PROVE  PassInv'
<1>1. UNCHANGED <<setting, secret, cache, clerk, saves, overtaken>>
  BY DEF C!Enters
<1>2. C!Known \in SettingRows /\ C!Known.version \in Nat
  BY DEF C!Known, PassInv, PassTypes, SettingRows
<1>3. PICK pass \in PassRows : /\ pass = [version |-> C!Known.version, typed |-> secret]
                               /\ pass.version = C!Known.version /\ pass.typed = secret
  <2>1. PICK n \in Nat : n = C!Known.version
    BY <1>2
  <2>2. secret \in Nat
    BY DEF PassInv, PassTypes
  <2>3. PICK pass : pass = [version |-> n, typed |-> secret]
    OBVIOUS
  <2> QED
    BY <2>1, <2>2, <2>3 DEF PassRows
<1>4. visitor' = [visitor EXCEPT ![v].pass = pass]
  BY <1>3 DEF C!Enters
<1>5. /\ visitor' \in [Visitors -> VisitorRows]
      /\ \A w \in Visitors : visitor'[w].pass = IF w = v THEN pass ELSE visitor[w].pass
  BY <1>4 DEF PassInv, PassTypes, VisitorRows
<1>6. ASSUME ~overtaken
      PROVE  PassOK(pass)
  BY <1>2, <1>3, <1>6 DEF PassOK, C!Known, PassInv, PassTypes, SettingRows
<1>7. ASSUME ~overtaken, NEW w \in Visitors
      PROVE  PassOK(visitor[w].pass)'
  BY <1>1, <1>5, <1>6, <1>7 DEF PassOK, PassInv
<1>8. PassTypes'
  BY <1>1, <1>5 DEF PassInv, PassTypes
<1> QED
  BY <1>1, <1>7, <1>8 DEF PassInv, ClerkOK

LEMMA PassBecomes ==
    ASSUME PassInv, NEW v \in Visitors, NEW status \in C!Statuses, C!Becomes(v, status)
    PROVE  PassInv'
<1>1. UNCHANGED <<setting, secret, cache, clerk, saves, overtaken>>
  BY DEF C!Becomes
<1>2. /\ visitor' \in [Visitors -> VisitorRows]
      /\ \A w \in Visitors : visitor'[w].pass = visitor[w].pass
  BY DEF C!Becomes, PassInv, PassTypes, VisitorRows
<1>3. PassTypes'
  BY <1>1, <1>2 DEF PassInv, PassTypes
<1> QED
  BY <1>1, <1>2, <1>3 DEF PassInv, ClerkOK, PassOK

LEMMA PassStutter ==
    ASSUME PassInv, UNCHANGED passVars
    PROVE  PassInv'
BY PassForgets DEF passVars

LEMMA PassStep ==
    ASSUME PassInv, C!PassNext
    PROVE  PassInv'
<1>1. ASSUME NEW c \in Crossing, C!Forgets(c) PROVE PassInv'
  BY <1>1, PassForgets DEF C!Forgets
<1>2. CASE C!Caches \/ C!Expires
  BY <1>2, PassForgets DEF C!Caches, C!Expires
<1> QED
  BY <1>1, <1>2, PassReads, PassCommits, PassEnters, PassBecomes DEF C!PassNext, Savings

LEMMA PassStart ==
    ASSUME C!PassInit
    PROVE  PassInv
<1>1. C!NoPass \in PassRows /\ C!NoPass.version = 0 /\ C!NoPass.typed = 0
  BY DEF C!NoPass, PassRows
<1>2. setting \in SettingRows /\ setting.version = 0
  BY DEF C!PassInit, SettingRows, C!AccessMode
<1>3. visitor \in [Visitors -> VisitorRows] /\ \A v \in Visitors : visitor[v].pass = C!NoPass
  BY <1>1 DEF C!PassInit, VisitorRows, C!Statuses
<1>4. PassTypes
  BY <1>2, <1>3 DEF C!PassInit, PassTypes
<1>5. (\A v \in Visitors : PassOK(visitor[v].pass)) /\ \A c \in Crossing : ClerkOK(c)
  BY <1>1, <1>2, <1>3 DEF C!PassInit, PassOK, ClerkOK
<1> QED
  BY <1>4, <1>5 DEF C!PassInit, PassInv

LEMMA StoreIsClosed ==
    ASSUME PassInv
    PROVE  C!ClosedToOthers
<1> SUFFICES ASSUME ~overtaken, C!Known = setting, setting.mode # "public",
                    NEW v \in Visitors, C!Sees(v, setting)
             PROVE  /\ visitor[v].status # "blocked"
                    /\ \/ visitor[v].status = "approved"
                       \/ setting.mode = "login_required" /\ visitor[v].status # "nobody"
                       \/ visitor[v].pass.typed = secret
  BY DEF C!ClosedToOthers
<1>1. PassOK(visitor[v].pass)
  BY DEF PassInv
<1> QED
  BY <1>1 DEF C!Sees, C!PassIsValid, PassOK

-----------------------------------------------------------------------------
(* Refresh tokens *)

TokenRows == [who : SignedIn, sign : Nat, revoked : BOOLEAN, late : BOOLEAN]

RefreshRows == [is : {"read"}, token : Nat, spent : BOOLEAN]

TokenTypes ==
    /\ token \in Seq(TokenRows)
    /\ refresh \in [Crossing -> RefreshRows \cup {M!Idle}]
    /\ \A r \in Crossing : refresh[r] # M!Idle => refresh[r].token \in 1..Len(token)
    /\ replayed \subseteq 1..Len(token)

\* A sign-in is named by its first token and is of one person; what is alive of one that was
\* replayed was rotated by who had read its token before.
SignsAreTokens == \A t \in 1..Len(token) : token[t].sign \in 1..Len(token)

SignIsOfOne ==
    \A t, u \in 1..Len(token) : token[t].sign = token[u].sign => token[t].who = token[u].who

ReplayedAreOver ==
    \A t \in 1..Len(token) : ~token[t].revoked /\ token[t].sign \in replayed => token[t].late

TokenInv == TokenTypes /\ SignsAreTokens /\ SignIsOfOne /\ ReplayedAreOver

LEMMA TokenFacts ==
    ASSUME TokenInv
    PROVE  /\ Len(token) \in Nat /\ DOMAIN token = 1..Len(token)
           /\ \A t \in 1..Len(token) : token[t] \in TokenRows
BY ElementsOf DEF TokenInv, TokenTypes

LEMMA IdleIsNoRefresh == M!Idle \notin RefreshRows
BY DEF M!Idle, RefreshRows

\* What the refreshes have in hand keeps its type.
LEMMA RefreshKept ==
    ASSUME TokenInv, Len(token') \in Nat, Len(token) <= Len(token'),
           \/ UNCHANGED refresh
           \/ \E r \in Crossing, row \in RefreshRows \cup {M!Idle} :
                 /\ refresh' = [refresh EXCEPT ![r] = row]
                 /\ row # M!Idle => row.token \in 1..Len(token')
    PROVE  /\ refresh' \in [Crossing -> RefreshRows \cup {M!Idle}]
           /\ \A r \in Crossing : refresh'[r] # M!Idle => refresh'[r].token \in 1..Len(token')
BY TokenFacts DEF TokenInv, TokenTypes, M!Idle

\* Every token follows one there was.
LEMMA TokensFollow ==
    ASSUME TokenInv, Len(token') \in Nat, Len(token) <= Len(token'),
           \A u \in 1..Len(token') :
               \E v \in 1..Len(token) : token'[u].who = token[v].who /\ token'[u].sign = token[v].sign
    PROVE  SignsAreTokens' /\ SignIsOfOne'
<1>1. \A u \in 1..Len(token) : u \in 1..Len(token')
  BY TokenFacts
<1>2. ASSUME NEW u \in 1..Len(token')
      PROVE  token'[u].sign \in 1..Len(token')
  <2>1. PICK v \in 1..Len(token) : token'[u].sign = token[v].sign
    OBVIOUS
  <2> QED
    BY <1>1, <2>1 DEF TokenInv, SignsAreTokens
<1>3. ASSUME NEW t \in 1..Len(token'), NEW u \in 1..Len(token'), token'[t].sign = token'[u].sign
      PROVE  token'[t].who = token'[u].who
  <2>1. PICK v \in 1..Len(token) : token'[u].who = token[v].who /\ token'[u].sign = token[v].sign
    OBVIOUS
  <2>2. PICK w \in 1..Len(token) : token'[t].who = token[w].who /\ token'[t].sign = token[w].sign
    OBVIOUS
  <2> QED
    BY <1>3, <2>1, <2>2 DEF TokenInv, SignIsOfOne
<1> QED
  BY <1>2, <1>3 DEF SignsAreTokens, SignIsOfOne

LEMMA TokenSignsIn ==
    ASSUME TokenInv, NEW p \in SignedIn, M!SignsIn(p)
    PROVE  TokenInv'
<1>1. PICK n \in Nat : n = Len(token) + 1
  BY TokenFacts
<1>2. PICK row : row = [who |-> p, sign |-> n, revoked |-> FALSE, late |-> FALSE]
  OBVIOUS
<1>3. row \in TokenRows /\ row.sign = n /\ ~row.late
  BY <1>2 DEF TokenRows
<1>4. token' = Append(token, row) /\ UNCHANGED <<refresh, replayed>>
  BY <1>1, <1>2 DEF M!SignsIn, M!Issued
<1>5. /\ token' \in Seq(TokenRows) /\ Len(token') = n
      /\ \A t \in 1..Len(token) : token'[t] = token[t]
      /\ token'[n] = row
  BY <1>1, <1>3, <1>4, OneMore DEF TokenInv, TokenTypes
<1>6. Len(token) \in Nat /\ \A t \in 1..n : t \in 1..Len(token) \/ t = n
  BY <1>1, TokenFacts
<1>8. SignsAreTokens'
  BY <1>1, <1>3, <1>5, <1>6 DEF SignsAreTokens, TokenInv
<1>9. \A t \in 1..Len(token) : token[t].sign # n
  BY <1>1, <1>6 DEF SignsAreTokens, TokenInv
<1>10. SignIsOfOne'
  BY <1>3, <1>5, <1>6, <1>9 DEF SignIsOfOne, TokenInv
<1>11. ReplayedAreOver'
  <2>1. n \notin replayed
    BY <1>1, <1>6 DEF TokenInv, TokenTypes
  <2> QED
    BY <1>3, <1>4, <1>5, <1>6, <2>1 DEF ReplayedAreOver, TokenInv
<1>7. TokenTypes'
  BY <1>1, <1>4, <1>5, TokenFacts, RefreshKept DEF TokenTypes, TokenInv
<1> QED
  BY <1>7, <1>8, <1>10, <1>11 DEF TokenInv

LEMMA TokenPresents ==
    ASSUME TokenInv, NEW r \in Crossing, NEW t \in DOMAIN token, M!Presents(r, t)
    PROVE  TokenInv'
<1>1. t \in 1..Len(token) /\ t \in Nat /\ token[t].revoked \in BOOLEAN
  BY TokenFacts DEF TokenRows
<1>2. PICK row \in RefreshRows : refresh' = [refresh EXCEPT ![r] = row] /\ row.token = t
  <2>1. PICK row : row = [is |-> "read", token |-> t, spent |-> token[t].revoked]
    OBVIOUS
  <2>2. row \in RefreshRows /\ row.token = t
    BY <1>1, <2>1 DEF RefreshRows
  <2> QED
    BY <2>1, <2>2 DEF M!Presents
<1>3. UNCHANGED <<token, replayed>>
  BY DEF M!Presents
<1>4. TokenTypes'
  BY <1>1, <1>2, <1>3, TokenFacts, RefreshKept DEF TokenTypes, TokenInv
<1> QED
  BY <1>3, <1>4 DEF TokenInv, SignsAreTokens, SignIsOfOne, ReplayedAreOver

LEMMA TokenRotates ==
    ASSUME TokenInv, NEW r \in Crossing, M!Rotates(r)
    PROVE  TokenInv'
<1>1. PICK t \in 1..Len(token) : t = refresh[r].token
  BY DEF M!Rotates, TokenInv, TokenTypes
<1>2. token[t] \in TokenRows
  BY TokenFacts
<1>3. PICK late \in BOOLEAN : late = (token[t].sign \in replayed)
  <2>1. (token[t].sign \in replayed) \in BOOLEAN
    OBVIOUS
  <2> QED
    BY <2>1
<1>4. PICK row : row = [who |-> token[t].who, sign |-> token[t].sign, revoked |-> FALSE, late |-> late]
  OBVIOUS
<1>14. /\ row \in TokenRows
       /\ row.who = token[t].who /\ row.sign = token[t].sign /\ row.late = late
  BY <1>2, <1>4 DEF TokenRows
<1>5. PICK old : old = [token[t] EXCEPT !.revoked = TRUE]
  OBVIOUS
<1>15. /\ old \in TokenRows
       /\ old.revoked /\ old.sign = token[t].sign /\ old.who = token[t].who
  BY <1>2, <1>5 DEF TokenRows
<1>6. PICK ts : ts = Append(token, row)
  OBVIOUS
<1>7. /\ ts \in Seq(TokenRows) /\ Len(ts) = Len(token) + 1
      /\ \A u \in 1..Len(token) : ts[u] = token[u]
      /\ ts[Len(token) + 1] = row
  BY <1>6, <1>14, OneMore DEF TokenInv, TokenTypes
<1>8. Len(token) \in Nat /\ t \in 1..Len(ts) /\ t # Len(token) + 1
  BY <1>7, TokenFacts
<1>9. token' = [ts EXCEPT ![t] = old] /\ replayed' = replayed
      /\ refresh' = [refresh EXCEPT ![r] = M!Idle]
  <2>1. token' = [ts EXCEPT ![t].revoked = TRUE]
    BY <1>1, <1>3, <1>4, <1>6 DEF M!Rotates, M!Issued
  <2>2. ts[t] = token[t]
    BY <1>7
  <2> QED
    BY <1>5, <2>1, <2>2 DEF M!Rotates
<1>10. /\ token' \in Seq(TokenRows) /\ Len(token') = Len(token) + 1
       /\ \A u \in 1..Len(ts) : token'[u] = IF u = t THEN old ELSE ts[u]
  BY <1>7, <1>8, <1>9, <1>15, OneChanged
<1>11. ASSUME NEW u \in 1..Len(token')
       PROVE  \E v \in 1..Len(token) : /\ token'[u].who = token[v].who /\ token'[u].sign = token[v].sign
                                   /\ \/ u = v /\ u # t /\ token'[u] = token[u]
                                      \/ token'[u].revoked
                                      \/ token'[u].late = (token'[u].sign \in replayed)
  <2>1. u \in 1..Len(token) \/ u = Len(token) + 1
    BY <1>8, <1>10
  <2>2. u \in 1..Len(ts)
    BY <1>7, <1>10
  <2>3. CASE u = t
    BY <1>10, <1>15, <2>2, <2>3
  <2>4. CASE u \in 1..Len(token) /\ u # t
    BY <1>7, <1>10, <2>2, <2>4
  <2>5. CASE u = Len(token) + 1
    <3>1. token'[u] = row
      BY <1>7, <1>8, <1>10, <2>2, <2>5
    <3> QED
      BY <1>3, <1>14, <3>1
  <2> QED
    BY <2>1, <2>3, <2>4, <2>5
<1>12. SignsAreTokens' /\ SignIsOfOne'
  BY <1>8, <1>10, <1>11, TokensFollow
<1>16. ReplayedAreOver'
  <2> SUFFICES ASSUME NEW u \in 1..Len(token'), ~token'[u].revoked, token'[u].sign \in replayed
               PROVE  token'[u].late
    BY <1>9 DEF ReplayedAreOver
  <2>1. (u \in 1..Len(token) /\ token'[u] = token[u]) \/ token'[u].late = (token'[u].sign \in replayed)
    BY <1>11
  <2> QED
    BY <2>1 DEF TokenInv, ReplayedAreOver
<1>13. TokenTypes'
  BY <1>8, <1>9, <1>10, RefreshKept DEF TokenTypes, TokenInv
<1> QED
  BY <1>12, <1>13, <1>16 DEF TokenInv

LEMMA TokenReplayed ==
    ASSUME TokenInv, NEW r \in Crossing, M!Replayed(r)
    PROVE  TokenInv'
<1>1. PICK t \in 1..Len(token), p \in SignedIn : t = refresh[r].token /\ p = token[t].who
  BY TokenFacts DEF M!Replayed, TokenInv, TokenTypes, TokenRows
<1>2. PICK family \in SUBSET (1..Len(token)) : family = {u \in 1..Len(token) : token[u].who = p}
  OBVIOUS
<1>3. /\ token' = [u \in 1..Len(token) |->
                        [token[u] EXCEPT !.revoked = @ \/ u \in M!RevokeAll(p),
                                         !.late = @ /\ u \notin family]]
      /\ replayed' = replayed \cup {token[u].sign : u \in family}
      /\ refresh' = [refresh EXCEPT ![r] = M!Idle]
  BY <1>1, <1>2, TokenFacts DEF M!Replayed
<1>4. ASSUME NEW u \in 1..Len(token)
      PROVE  /\ token'[u] \in TokenRows
             /\ token'[u].who = token[u].who /\ token'[u].sign = token[u].sign
             /\ u \in family => token'[u].revoked
             /\ u \notin family => token'[u].revoked = token[u].revoked /\ token'[u].late = token[u].late
  <2>1. token[u] \in TokenRows
    BY TokenFacts
  <2>2. PICK revoked \in BOOLEAN : revoked = (token[u].revoked \/ u \in M!RevokeAll(p))
    OBVIOUS
  <2>3. PICK late \in BOOLEAN : late = (token[u].late /\ u \notin family)
    OBVIOUS
  <2>4. token'[u] = [token[u] EXCEPT !.revoked = revoked, !.late = late]
    BY <1>3, <2>2, <2>3
  <2>5. token'[u] = [who |-> token[u].who, sign |-> token[u].sign, revoked |-> revoked, late |-> late]
    BY <2>1, <2>4 DEF TokenRows
  <2>6. token[u].revoked \in BOOLEAN /\ token[u].late \in BOOLEAN
    BY <2>1 DEF TokenRows
  <2>7. u \in family => revoked
    BY <1>2, <2>2, TokenFacts DEF M!RevokeAll, M!Live
  <2>8. u \notin family => revoked = token[u].revoked /\ late = token[u].late
    BY <1>2, <2>2, <2>3, <2>6 DEF M!RevokeAll
  <2> QED
    BY <2>1, <2>2, <2>3, <2>5, <2>7, <2>8 DEF TokenRows
<1>5. token' \in Seq(TokenRows) /\ Len(token') = Len(token)
  <2>1. token' \in [1..Len(token) -> TokenRows]
    BY <1>3, <1>4
  <2> QED
    BY <2>1, TokenFacts, SequenceOf
<1>6. \A u \in 1..Len(token) : u \notin family => token[u].sign \notin {token[v].sign : v \in family}
  BY <1>2 DEF TokenInv, SignIsOfOne
<1>7. SignsAreTokens' /\ SignIsOfOne'
  BY <1>4, <1>5, TokenFacts, TokensFollow
<1>9. ReplayedAreOver'
  <2> SUFFICES ASSUME NEW u \in 1..Len(token'), ~token'[u].revoked, token'[u].sign \in replayed'
               PROVE  token'[u].late
    BY DEF ReplayedAreOver
  <2>1. u \in 1..Len(token) /\ u \notin family
    BY <1>4, <1>5
  <2>2. token[u].sign \in replayed /\ ~token[u].revoked
    <3>1. token[u].sign \notin {token[v].sign : v \in family}
      BY <1>6, <2>1
    <3>2. token[u].sign \in replayed'
      BY <1>4, <2>1
    <3>3. token'[u].revoked = token[u].revoked
      BY <1>4, <2>1
    <3> QED
      BY <1>3, <3>1, <3>2, <3>3
  <2>3. token[u].late
    BY <2>1, <2>2 DEF TokenInv, ReplayedAreOver
  <2> QED
    BY <1>4, <2>1, <2>3
<1>8. TokenTypes'
  <2>1. replayed' \subseteq 1..Len(token)
    BY <1>3 DEF TokenInv, TokenTypes, SignsAreTokens
  <2>2. /\ refresh' \in [Crossing -> RefreshRows \cup {M!Idle}]
        /\ \A q \in Crossing : refresh'[q] # M!Idle => refresh'[q].token \in 1..Len(token')
    <3>1. Len(token') \in Nat /\ Len(token) <= Len(token')
      BY <1>5, TokenFacts
    <3>2. M!Idle \in RefreshRows \cup {M!Idle}
      OBVIOUS
    <3> QED
      BY <1>3, <3>1, <3>2, RefreshKept
  <2> QED
    BY <1>5, <2>1, <2>2 DEF TokenTypes
<1> QED
  BY <1>7, <1>8, <1>9 DEF TokenInv

LEMMA TokenLogout ==
    ASSUME TokenInv, NEW t \in DOMAIN token, M!Logout(t)
    PROVE  TokenInv'
<1>1. t \in 1..Len(token) /\ token[t] \in TokenRows
  BY TokenFacts
<1>2. PICK old : old = [token[t] EXCEPT !.revoked = TRUE]
  OBVIOUS
<1>7. /\ old \in TokenRows
      /\ old.revoked /\ old.sign = token[t].sign /\ old.who = token[t].who
  BY <1>1, <1>2 DEF TokenRows
<1>3. token' = [token EXCEPT ![t] = old] /\ UNCHANGED <<refresh, replayed>>
  BY <1>2 DEF M!Logout
<1>4. /\ token' \in Seq(TokenRows) /\ Len(token') = Len(token)
      /\ \A u \in 1..Len(token) : token'[u] = IF u = t THEN old ELSE token[u]
  BY <1>1, <1>3, <1>7, OneChanged DEF TokenInv, TokenTypes
<1>5. SignsAreTokens' /\ SignIsOfOne'
  BY <1>4, <1>7, TokenFacts, TokensFollow
<1>8. ReplayedAreOver'
  BY <1>3, <1>4, <1>7 DEF TokenInv, ReplayedAreOver
<1>6. TokenTypes'
  BY <1>3, <1>4, TokenFacts, RefreshKept DEF TokenTypes, TokenInv
<1> QED
  BY <1>5, <1>6, <1>8 DEF TokenInv

LEMMA TokenStutter ==
    ASSUME TokenInv, UNCHANGED <<token, refresh, replayed>>
    PROVE  TokenInv'
BY DEF TokenInv, TokenTypes, SignsAreTokens, SignIsOfOne, ReplayedAreOver

LEMMA TokenStep ==
    ASSUME TokenInv, M!TokensNext
    PROVE  TokenInv'
<1>1. CASE M!Expires \/ M!Purge
  BY <1>1, TokenStutter DEF M!Expires, M!Purge
<1> QED
  BY <1>1, TokenSignsIn, TokenPresents, TokenRotates, TokenReplayed, TokenLogout DEF M!TokensNext

LEMMA TokenStart ==
    ASSUME M!TokensInit
    PROVE  TokenInv
<1>1. Len(token) = 0 /\ token \in Seq(TokenRows)
  BY DEF M!TokensInit
<1>2. \A t \in 1..Len(token) : FALSE
  BY <1>1
<1>3. TokenTypes
  BY <1>1 DEF M!TokensInit, TokenTypes
<1> QED
  BY <1>2, <1>3 DEF TokenInv, SignsAreTokens, SignIsOfOne, ReplayedAreOver

LEMMA FamilyIsOver ==
    ASSUME TokenInv
    PROVE  M!FamilyEnds
BY TokenFacts DEF TokenInv, ReplayedAreOver, M!FamilyEnds, M!Live

-----------------------------------------------------------------------------
(* Numbers and links *)

HolderRows == [number : Numbers \cup {N!NoNumber}, verified : BOOLEAN]

ChallengeRows == [person : Customers, number : Numbers, spent : BOOLEAN, live : BOOLEAN]

StartRows == [at : {"start"}, person : Customers, number : Numbers, late : BOOLEAN]

ConfirmRows ==
    {q \in [at : {"confirm"}, person : Customers, number : Numbers, owners : SUBSET Customers,
            late : BOOLEAN] : q.person \notin q.owners}

ClaimRows == {N!Free} \cup StartRows \cup ConfirmRows

PhoneTypes ==
    /\ holder \in [Customers -> HolderRows]
    /\ challenges \in Seq(ChallengeRows)
    /\ claim \in [Crossing -> ClaimRows]
    /\ disputed \in BOOLEAN

\* As long as nothing overlapped: a confirmation knows who has the number, a start found no good link
\* of its customer, unless another wrote since; and the two properties.
Good(c) == c.live /\ ~c.spent

KnowsOwners(q) == q.owners = {p \in Customers \ {q.person} : holder[p].verified /\ holder[p].number = q.number}

NoGoodLink(p) == \A i \in 1..Len(challenges) : challenges[i].person = p => ~Good(challenges[i])

ClaimOK(q) ==
    /\ q.at = "confirm" /\ ~q.late => KnowsOwners(q)
    /\ q.at = "start" /\ ~q.late => NoGoodLink(q.person)

OwnersAreOne ==
    \A p, q \in Customers : holder[p].verified /\ holder[q].verified /\ holder[p].number = holder[q].number
                                => p = q

GoodLinksAreOne ==
    \A i, j \in 1..Len(challenges) : /\ Good(challenges[i]) /\ Good(challenges[j])
                                     /\ challenges[i].person = challenges[j].person
                                     => i = j

PhoneInv ==
    /\ PhoneTypes
    /\ ~disputed => /\ \A r \in Crossing : ClaimOK(claim[r])
                    /\ OwnersAreOne /\ GoodLinksAreOne

LEMMA PhoneFacts ==
    ASSUME PhoneInv
    PROVE  /\ Len(challenges) \in Nat /\ DOMAIN challenges = 1..Len(challenges)
           /\ \A i \in 1..Len(challenges) : challenges[i] \in ChallengeRows
BY ElementsOf DEF PhoneInv, PhoneTypes

\* Links are used and grow old, and none is made.
Older ==
    /\ challenges' \in Seq(ChallengeRows) /\ Len(challenges') = Len(challenges)
    /\ \A i \in 1..Len(challenges) : /\ challenges'[i].person = challenges[i].person
                                     /\ Good(challenges'[i]) => Good(challenges[i])

LEMMA OlderKeeps ==
    ASSUME PhoneInv, Older
    PROVE  /\ \A p \in Customers : NoGoodLink(p) => NoGoodLink(p)'
           /\ GoodLinksAreOne => GoodLinksAreOne'
<1>1. ASSUME NEW p \in Customers, NoGoodLink(p)
      PROVE  NoGoodLink(p)'
  BY <1>1 DEF Older, NoGoodLink
<1>2. ASSUME GoodLinksAreOne
      PROVE  GoodLinksAreOne'
  BY <1>2 DEF Older, GoodLinksAreOne
<1> QED
  BY <1>1, <1>2

\* What a request has read stays true of the same numbers and older links.
LEMMA ClaimStays ==
    ASSUME PhoneInv, UNCHANGED holder, Older, NEW q \in ClaimRows, ClaimOK(q)
    PROVE  ClaimOK(q)'
<1>1. q.at = "start" => q.person \in Customers
  BY DEF ClaimRows, N!Free, StartRows, ConfirmRows
<1> QED
  BY <1>1, OlderKeeps DEF ClaimOK, KnowsOwners

LEMMA SomeLinkOlder ==
    ASSUME PhoneInv, NEW i \in 1..Len(challenges), NEW row \in ChallengeRows,
           challenges' = [challenges EXCEPT ![i] = row],
           row.person = challenges[i].person, Good(row) => Good(challenges[i])
    PROVE  Older
<1>1. /\ challenges' \in Seq(ChallengeRows) /\ Len(challenges') = Len(challenges)
      /\ \A j \in 1..Len(challenges) : challenges'[j] = IF j = i THEN row ELSE challenges[j]
  BY OneChanged DEF PhoneInv, PhoneTypes
<1> QED
  BY <1>1 DEF Older

\* A request takes up what it read, and the others keep what they had.
LEMMA ClaimTaken ==
    ASSUME PhoneInv, UNCHANGED <<holder, disputed>>, Older, NEW r \in Crossing, NEW q \in ClaimRows,
           claim' = [claim EXCEPT ![r] = q], ~disputed => ClaimOK(q)'
    PROVE  PhoneInv'
<1>1. PhoneTypes'
  BY DEF PhoneInv, PhoneTypes, Older
<1>2. ASSUME ~disputed, NEW s \in Crossing
      PROVE  ClaimOK(claim[s])'
  <2>1. PICK c \in ClaimRows : c = claim[s] /\ ClaimOK(c)
    BY <1>2 DEF PhoneInv, PhoneTypes
  <2>2. ClaimOK(c)'
    BY <2>1, ClaimStays
  <2>3. claim'[s] = IF s = r THEN q ELSE c
    BY <2>1 DEF PhoneInv, PhoneTypes
  <2>4. CASE s = r
    BY <1>2, <2>3, <2>4 DEF ClaimOK, KnowsOwners
  <2>5. CASE s # r
    BY <2>2, <2>3, <2>5 DEF ClaimOK, KnowsOwners
  <2> QED
    BY <2>4, <2>5
<1>3. ~disputed => OwnersAreOne' /\ GoodLinksAreOne'
  BY OlderKeeps DEF PhoneInv, OwnersAreOne
<1> QED
  BY <1>1, <1>2, <1>3 DEF PhoneInv

LEMMA PhoneStarts ==
    ASSUME PhoneInv, NEW r \in Crossing, NEW p \in Customers, NEW n \in Numbers, N!Starts(r, p, n)
    PROVE  PhoneInv'
<1>1. PICK q : q = [at |-> "start", person |-> p, number |-> n, late |-> FALSE]
  OBVIOUS
<1>2. q \in StartRows /\ q.at = "start" /\ q.person = p
  BY <1>1 DEF StartRows
<1>3. challenges' = [i \in 1..Len(challenges) |->
          IF i \in N!Mine(p) /\ ~challenges[i].spent THEN [challenges[i] EXCEPT !.live = FALSE]
                                                     ELSE challenges[i]]
  BY PhoneFacts DEF N!Starts
<1>4. ASSUME NEW i \in 1..Len(challenges)
      PROVE  /\ challenges'[i] \in ChallengeRows /\ challenges'[i].person = challenges[i].person
             /\ Good(challenges'[i]) => Good(challenges[i])
             /\ challenges[i].person = p => ~Good(challenges'[i])
  <2>1. challenges[i] \in ChallengeRows
    BY PhoneFacts
  <2>2. i \in N!Mine(p) <=> challenges[i].person = p
    BY PhoneFacts DEF N!Mine
  <2>3. CASE challenges[i].person = p /\ ~challenges[i].spent
    BY <1>3, <2>1, <2>2, <2>3 DEF ChallengeRows, Good
  <2>4. CASE ~(challenges[i].person = p /\ ~challenges[i].spent)
    BY <1>3, <2>1, <2>2, <2>4 DEF ChallengeRows, Good
  <2> QED
    BY <2>3, <2>4
<1>5. challenges' \in Seq(ChallengeRows) /\ Len(challenges') = Len(challenges)
  <2>1. challenges' \in [1..Len(challenges) -> ChallengeRows]
    BY <1>3, <1>4
  <2> QED
    BY <2>1, PhoneFacts, SequenceOf
<1>6. Older
  BY <1>4, <1>5 DEF Older
<1>7. NoGoodLink(p)'
  BY <1>4, <1>5 DEF NoGoodLink
<1>8. ClaimOK(q)'
  BY <1>2, <1>7 DEF ClaimOK
<1>9. claim' = [claim EXCEPT ![r] = q] /\ UNCHANGED <<holder, disputed>>
  BY <1>1 DEF N!Starts
<1> QED
  BY <1>2, <1>6, <1>8, <1>9, ClaimTaken DEF ClaimRows

LEMMA PhoneConfirms ==
    ASSUME PhoneInv, NEW r \in Crossing, NEW i \in DOMAIN challenges, N!Confirms(r, i)
    PROVE  PhoneInv'
<1>1. i \in 1..Len(challenges) /\ challenges[i] \in ChallengeRows
  BY PhoneFacts
<1>2. PICK owners \in SUBSET Customers :
         owners = {p \in Customers \ {challenges[i].person} :
                     holder[p].verified /\ holder[p].number = challenges[i].number}
  OBVIOUS
<1>3. PICK q : q = [at |-> "confirm", person |-> challenges[i].person, number |-> challenges[i].number,
                    owners |-> owners, late |-> FALSE]
  OBVIOUS
<1>4. /\ q \in ConfirmRows /\ q.at = "confirm" /\ q.owners = owners
      /\ q.person = challenges[i].person /\ q.number = challenges[i].number
  BY <1>1, <1>2, <1>3 DEF ConfirmRows, ChallengeRows
<1>5. claim' = [claim EXCEPT ![r] = q] /\ UNCHANGED <<holder, disputed>>
  BY <1>2, <1>3 DEF N!Confirms, N!Owners
<1>6. PICK row : row = [challenges[i] EXCEPT !.spent = TRUE]
  OBVIOUS
<1>7. row \in ChallengeRows /\ row.person = challenges[i].person /\ row.spent
  BY <1>1, <1>6 DEF ChallengeRows
<1>8. challenges' = [challenges EXCEPT ![i] = row]
  BY <1>6 DEF N!Confirms
<1>9. Older
  BY <1>1, <1>7, <1>8, SomeLinkOlder DEF Good
<1>10. ClaimOK(q)'
  BY <1>2, <1>4, <1>5 DEF ClaimOK, KnowsOwners
<1> QED
  BY <1>4, <1>5, <1>9, <1>10, ClaimTaken DEF ClaimRows

LEMMA PhoneAges ==
    ASSUME PhoneInv, NEW i \in DOMAIN challenges, N!Ages(i)
    PROVE  PhoneInv'
<1>1. i \in 1..Len(challenges) /\ challenges[i] \in ChallengeRows
  BY PhoneFacts
<1>2. PICK row : row = [challenges[i] EXCEPT !.live = FALSE]
  OBVIOUS
<1>3. row \in ChallengeRows /\ row.person = challenges[i].person /\ ~row.live
  BY <1>1, <1>2 DEF ChallengeRows
<1>4. challenges' = [challenges EXCEPT ![i] = row] /\ UNCHANGED <<holder, claim, disputed>>
  BY <1>2 DEF N!Ages
<1>5. Older
  BY <1>1, <1>3, <1>4, SomeLinkOlder DEF Good
<1>6. PhoneTypes'
  BY <1>4, <1>5 DEF PhoneInv, PhoneTypes, Older
<1>7. ASSUME ~disputed, NEW s \in Crossing
      PROVE  ClaimOK(claim[s])'
  <2>1. PICK c \in ClaimRows : c = claim[s] /\ ClaimOK(c)
    BY <1>7 DEF PhoneInv, PhoneTypes
  <2>2. ClaimOK(c)'
    BY <1>4, <1>5, <2>1, ClaimStays
  <2> QED
    BY <1>4, <2>1, <2>2 DEF ClaimOK, KnowsOwners
<1>8. ~disputed => OwnersAreOne' /\ GoodLinksAreOne'
  BY <1>4, <1>5, OlderKeeps DEF PhoneInv, OwnersAreOne
<1> QED
  BY <1>4, <1>6, <1>7, <1>8 DEF PhoneInv

\* Who wrote is free again, and who was about to write the same is late.
LEMMA Lates ==
    ASSUME PhoneInv, NEW r \in Crossing, NEW what \in {"start", "confirm"}, claim' = N!Late(r, what)
    PROVE  /\ claim' \in [Crossing -> ClaimRows]
           /\ \A s \in Crossing : claim'[s].at = what => claim'[s].late
           /\ \A s \in Crossing : claim'[s] \in {N!Free, claim[s]} \/ claim'[s].at = what
<1>1. ASSUME NEW s \in Crossing
      PROVE  /\ claim'[s] \in ClaimRows
             /\ claim'[s].at = what => claim'[s].late
             /\ claim'[s] \in {N!Free, claim[s]} \/ claim'[s].at = what
  <2>1. claim'[s] = IF s = r THEN N!Free
                    ELSE IF claim[s].at = what THEN [claim[s] EXCEPT !.late = TRUE] ELSE claim[s]
    BY DEF N!Late
  <2>2. claim[s] \in ClaimRows /\ N!Free \in ClaimRows /\ N!Free.at = "free"
    BY DEF PhoneInv, PhoneTypes, ClaimRows, N!Free
  <2>3. CASE s # r /\ claim[s].at = what
    <3>1. PICK k : k = claim[s]
      OBVIOUS
    <3>2. PICK late : late = [k EXCEPT !.late = TRUE]
      OBVIOUS
    <3>3. k \in StartRows \cup ConfirmRows
      BY <2>2, <2>3, <3>1 DEF ClaimRows
    <3>4. k \in StartRows => late \in StartRows /\ late.at = k.at /\ late.late
      BY <3>2 DEF StartRows
    <3>5. k \in ConfirmRows => late \in ConfirmRows /\ late.at = k.at /\ late.late
      BY <3>2 DEF ConfirmRows
    <3>6. claim'[s] = late
      BY <2>1, <2>3, <3>1, <3>2
    <3> QED
      BY <2>3, <3>1, <3>3, <3>4, <3>5, <3>6 DEF ClaimRows
  <2>4. CASE s = r
    BY <2>1, <2>2, <2>4
  <2>5. CASE s # r /\ claim[s].at # what
    BY <2>1, <2>2, <2>5
  <2> QED
    BY <2>3, <2>4, <2>5
<1>2. claim' \in [Crossing -> ClaimRows]
  BY <1>1 DEF N!Late
<1> QED
  BY <1>1, <1>2

LEMMA PhoneStarted ==
    ASSUME PhoneInv, NEW r \in Crossing, N!Started(r)
    PROVE  PhoneInv'
<1>1. PICK q \in StartRows : q = claim[r]
  BY DEF N!Started, PhoneInv, PhoneTypes, ClaimRows, N!Free, ConfirmRows
<1>2. PICK row : row = [person |-> q.person, number |-> q.number, spent |-> FALSE, live |-> TRUE]
  OBVIOUS
<1>3. row \in ChallengeRows /\ row.person = q.person
  BY <1>2 DEF ChallengeRows, StartRows
<1>4. /\ challenges' = Append(challenges, row) /\ claim' = N!Late(r, "start")
      /\ disputed' = (disputed \/ q.late) /\ UNCHANGED holder
  BY <1>1, <1>2 DEF N!Started
<1>5. /\ challenges' \in Seq(ChallengeRows) /\ Len(challenges') = Len(challenges) + 1
      /\ \A i \in 1..Len(challenges) : challenges'[i] = challenges[i]
      /\ challenges'[Len(challenges) + 1] = row
  BY <1>3, <1>4, OneMore DEF PhoneInv, PhoneTypes
<1>6. /\ claim' \in [Crossing -> ClaimRows]
      /\ \A s \in Crossing : claim'[s].at = "start" => claim'[s].late
      /\ \A s \in Crossing : claim'[s] \in {N!Free, claim[s]} \/ claim'[s].at = "start"
  BY <1>4, Lates
<1>7. PhoneTypes'
  <2>1. disputed' \in BOOLEAN
    BY <1>4
  <2> QED
    BY <1>4, <1>5, <1>6, <2>1 DEF PhoneInv, PhoneTypes
<1>8. ASSUME ~disputed'
      PROVE  (\A s \in Crossing : ClaimOK(claim[s])') /\ OwnersAreOne' /\ GoodLinksAreOne'
  <2>1. ~disputed /\ ~q.late
    BY <1>4, <1>8
  <2>2. OwnersAreOne'
    BY <1>4, <2>1 DEF PhoneInv, OwnersAreOne
  <2>3. NoGoodLink(q.person) /\ GoodLinksAreOne
    BY <1>1, <2>1 DEF PhoneInv, ClaimOK, StartRows
  <2>4. Len(challenges) \in Nat /\ \A i \in 1..Len(challenges') : i \in 1..Len(challenges) \/ i = Len(challenges) + 1
    BY <1>5, PhoneFacts
  <2>5. GoodLinksAreOne'
    BY <1>3, <1>5, <2>3, <2>4 DEF GoodLinksAreOne, NoGoodLink
  <2>6. ASSUME NEW s \in Crossing
        PROVE  ClaimOK(claim[s])'
    <3>1. CASE claim'[s].at = "start"
      BY <1>6, <3>1 DEF ClaimOK
    <3>2. CASE claim'[s] = N!Free
      BY <3>2 DEF ClaimOK, N!Free
    <3>3. CASE claim'[s] = claim[s]
      <4>1. ClaimOK(claim[s])
        BY <2>1 DEF PhoneInv
      <4> QED
        BY <1>4, <1>6, <3>3, <4>1 DEF ClaimOK, KnowsOwners
    <3> QED
      BY <1>6, <3>1, <3>2, <3>3
  <2> QED
    BY <2>2, <2>5, <2>6
<1> QED
  BY <1>7, <1>8 DEF PhoneInv

LEMMA PhoneConfirmed ==
    ASSUME PhoneInv, NEW r \in Crossing, N!Confirmed(r)
    PROVE  PhoneInv'
<1>1. PICK q \in ConfirmRows : q = claim[r]
  BY DEF N!Confirmed, PhoneInv, PhoneTypes, ClaimRows, N!Free, StartRows
<1>2. /\ holder' = [p \in Customers |->
              CASE p = q.person  -> [number |-> q.number, verified |-> TRUE]
                [] p \in q.owners -> [holder[p] EXCEPT !.verified = FALSE]
                [] OTHER          -> holder[p]]
      /\ claim' = N!Late(r, "confirm")
      /\ disputed' = (disputed \/ q.late) /\ UNCHANGED challenges
  BY <1>1 DEF N!Confirmed
<1>3. q.person \in Customers /\ q.number \in Numbers /\ q.owners \subseteq Customers /\ q.at = "confirm"
      /\ q.late \in BOOLEAN /\ q.person \notin q.owners
  BY DEF ConfirmRows
<1>4. ASSUME NEW p \in Customers
      PROVE  /\ holder'[p] \in HolderRows
             /\ p # q.person /\ holder'[p].verified =>
                    p \notin q.owners /\ holder[p].verified /\ holder'[p].number = holder[p].number
             /\ p = q.person => holder'[p].number = q.number
  <2>1. holder[p] \in HolderRows
    BY DEF PhoneInv, PhoneTypes
  <2>2. CASE p = q.person
    <3>1. PICK h : h = [number |-> q.number, verified |-> TRUE]
      OBVIOUS
    <3>2. holder'[p] = h
      <4>1. p \notin q.owners
        BY <1>3, <2>2
      <4> QED
        BY <1>2, <2>2, <3>1, <4>1
    <3>3. h \in HolderRows /\ h.number = q.number
      BY <1>3, <3>1 DEF HolderRows
    <3> QED
      BY <2>2, <3>2, <3>3
  <2>3. CASE p # q.person /\ p \in q.owners
    <3>1. holder'[p] = [holder[p] EXCEPT !.verified = FALSE]
      BY <1>2, <2>3
    <3> QED
      BY <2>1, <2>3, <3>1 DEF HolderRows
  <2>4. CASE p # q.person /\ p \notin q.owners
    <3>1. holder'[p] = holder[p]
      BY <1>2, <2>4
    <3> QED
      BY <2>1, <2>4, <3>1
  <2> QED
    BY <2>2, <2>3, <2>4
<1>5. /\ claim' \in [Crossing -> ClaimRows]
      /\ \A s \in Crossing : claim'[s].at = "confirm" => claim'[s].late
      /\ \A s \in Crossing : claim'[s] \in {N!Free, claim[s]} \/ claim'[s].at = "confirm"
  BY <1>2, Lates
<1>6. PhoneTypes'
  <2>1. holder' \in [Customers -> HolderRows]
    BY <1>2, <1>4
  <2>2. disputed' \in BOOLEAN
    BY <1>2
  <2> QED
    BY <1>2, <1>5, <2>1, <2>2 DEF PhoneInv, PhoneTypes
<1>7. ASSUME ~disputed'
      PROVE  (\A s \in Crossing : ClaimOK(claim[s])') /\ OwnersAreOne' /\ GoodLinksAreOne'
  <2>1. ~disputed /\ ~q.late
    BY <1>2, <1>7
  <2>2. GoodLinksAreOne'
    BY <1>2, <2>1 DEF PhoneInv, GoodLinksAreOne
  <2>3. KnowsOwners(q) /\ OwnersAreOne
    BY <1>1, <1>3, <2>1 DEF PhoneInv, ClaimOK
  <2>4. \A p \in Customers : p # q.person /\ holder'[p].verified => holder'[p].number # q.number
    BY <1>4, <2>3 DEF KnowsOwners
  <2>5. OwnersAreOne'
    BY <1>4, <2>3, <2>4 DEF OwnersAreOne
  <2>6. ASSUME NEW s \in Crossing
        PROVE  ClaimOK(claim[s])'
    <3>1. CASE claim'[s].at = "confirm"
      BY <1>5, <3>1 DEF ClaimOK
    <3>2. CASE claim'[s] = N!Free
      BY <3>2 DEF ClaimOK, N!Free
    <3>3. CASE claim'[s] = claim[s] /\ claim'[s].at # "confirm"
      <4>1. ClaimOK(claim[s])
        BY <2>1 DEF PhoneInv
      <4> QED
        BY <1>2, <3>3, <4>1 DEF ClaimOK, NoGoodLink
    <3> QED
      BY <1>5, <3>1, <3>2, <3>3
  <2> QED
    BY <2>2, <2>5, <2>6
<1> QED
  BY <1>6, <1>7 DEF PhoneInv

LEMMA PhoneStutter ==
    ASSUME PhoneInv, UNCHANGED phoneVars
    PROVE  PhoneInv'
BY DEF phoneVars, PhoneInv, PhoneTypes, ClaimOK, KnowsOwners, NoGoodLink, OwnersAreOne, GoodLinksAreOne

LEMMA PhoneStep ==
    ASSUME PhoneInv, N!PhonesNext
    PROVE  PhoneInv'
BY PhoneStarts, PhoneStarted, PhoneConfirms, PhoneConfirmed, PhoneAges DEF N!PhonesNext

LEMMA PhoneStart ==
    ASSUME N!PhonesInit
    PROVE  PhoneInv
<1>1. Len(challenges) = 0 /\ challenges \in Seq(ChallengeRows)
  BY DEF N!PhonesInit
<1>2. \A i \in 1..Len(challenges) : FALSE
  BY <1>1
<1>3. PhoneTypes
  BY <1>1 DEF N!PhonesInit, PhoneTypes, HolderRows, ClaimRows
<1>4. (\A r \in Crossing : ClaimOK(claim[r])) /\ OwnersAreOne
  BY DEF N!PhonesInit, ClaimOK, N!Free, OwnersAreOne
<1> QED
  BY <1>2, <1>3, <1>4 DEF PhoneInv, GoodLinksAreOne

LEMMA PhonesAreOwned ==
    ASSUME PhoneInv
    PROVE  N!NumberHasOneOwner /\ N!NewestLinkOnly
BY PhoneFacts DEF PhoneInv, N!NumberHasOneOwner, N!NewestLinkOnly, OwnersAreOne, GoodLinksAreOne, Good

-----------------------------------------------------------------------------
(* Who a number is *)

LeadTypes ==
    /\ seen \in [Lines -> Seq(L!People)]
    /\ access \in [L!People -> {"none"} \cup L!AccessStatus]
    /\ turned \subseteq Lines

Releasable(n) == \E p \in L!People : L!Contains(seen[n], p) /\ access[p] # "none"

LeadInv == LeadTypes /\ \A n \in turned : Releasable(n)

LEMMA LeadFacts ==
    ASSUME LeadInv, NEW n \in Lines
    PROVE  /\ seen[n] \in Seq(L!People)
           /\ Len(seen[n]) \in Nat /\ DOMAIN seen[n] = 1..Len(seen[n])
           /\ \A i \in 1..Len(seen[n]) : seen[n][i] \in L!People
<1>1. seen[n] \in Seq(L!People)
  BY DEF LeadInv, LeadTypes
<1> QED
  BY <1>1, ElementsOf

\* Who is put in front is there, and so is everybody who was.
LEMMA InFront ==
    ASSUME NEW P, NEW s \in Seq(P), NEW p \in P
    PROVE  /\ L!ToFront(s, p) \in Seq(P)
           /\ L!Contains(L!ToFront(s, p), p)
           /\ \A q : L!Contains(s, q) => L!Contains(L!ToFront(s, p), q)
<1>1. Len(s) \in Nat /\ DOMAIN s = 1..Len(s) /\ \A i \in 1..Len(s) : s[i] \in P
  BY ElementsOf
<1>2. PICK k : k = L!Place(s, p)
  OBVIOUS
<1>3. /\ k \in 1..Len(s) + 1
      /\ \A j \in 1..Len(s) : j = k => s[j] = p
  <2>1. CASE L!Contains(s, p)
    <3>1. \E i \in DOMAIN s : s[i] = p
      BY <1>1, <2>1 DEF L!Contains
    <3>2. k \in DOMAIN s /\ s[k] = p
      BY <1>2, <2>1, <3>1 DEF L!Place
    <3> QED
      BY <1>1, <3>2
  <2>2. CASE ~L!Contains(s, p)
    BY <1>1, <1>2, <2>2 DEF L!Place
  <2> QED
    BY <2>1, <2>2
<1>4. PICK n \in Nat : /\ 1..Len(s) \cup {k} = 1..n /\ 1 <= n /\ Len(s) <= n /\ k <= n
  <2>1. CASE k \in 1..Len(s)
    BY <1>1, <2>1
  <2>2. CASE k = Len(s) + 1
    <3>1. 1..Len(s) \cup {k} = 1..k
      BY <1>1, <2>2
    <3> QED
      BY <1>1, <2>2, <3>1
  <2> QED
    BY <1>1, <1>3, <2>1, <2>2
<1>5. PICK f : f = L!ToFront(s, p)
  OBVIOUS
<1>6. f = [i \in 1..n |-> IF i = 1 THEN p ELSE IF i <= k THEN s[i - 1] ELSE s[i]]
  BY <1>2, <1>4, <1>5 DEF L!ToFront
<1>7. \A i \in 1..n : i = 1 \/ (i <= k /\ i - 1 \in 1..Len(s)) \/ (i > k /\ i \in 1..Len(s))
  BY <1>1, <1>3, <1>4
<1>8. f \in [1..n -> P]
  <2>1. ASSUME NEW i \in 1..n
        PROVE  f[i] \in P
    BY <1>1, <1>6, <1>7
  <2> QED
    BY <1>6, <2>1
<1>9. f \in Seq(P) /\ Len(f) = n
  BY <1>8, SequenceOf
<1>10. L!Contains(f, p)
  BY <1>4, <1>6, <1>9 DEF L!Contains
<1>11. ASSUME NEW q, L!Contains(s, q)
       PROVE  L!Contains(f, q)
  <2>1. PICK j \in 1..Len(s) : s[j] = q
    BY <1>11 DEF L!Contains
  <2>2. CASE j < k
    <3>1. j + 1 \in 1..n /\ j + 1 # 1 /\ j + 1 <= k /\ (j + 1) - 1 = j
      BY <1>1, <1>3, <1>4, <2>2
    <3>2. f[j + 1] = q
      BY <1>6, <2>1, <3>1
    <3> QED
      BY <1>9, <3>1, <3>2 DEF L!Contains
  <2>3. CASE j = k
    BY <1>3, <1>10, <2>1, <2>3
  <2>4. CASE j > k
    <3>1. j \in 1..n /\ j # 1 /\ ~(j <= k)
      BY <1>1, <1>3, <1>4, <2>4
    <3>2. f[j] = q
      BY <1>6, <2>1, <3>1
    <3> QED
      BY <1>9, <3>1, <3>2 DEF L!Contains
  <2> QED
    BY <1>1, <1>3, <2>2, <2>3, <2>4
<1> QED
  BY <1>5, <1>9, <1>10, <1>11

\* Nobody is forgotten who was seen, or who has a row of access; a number is turned away with somebody
\* to release.
Grows ==
    /\ seen' \in [Lines -> Seq(L!People)] /\ access' \in [L!People -> {"none"} \cup L!AccessStatus]
    /\ \A n \in Lines, p \in L!People : L!Contains(seen[n], p) => L!Contains(seen'[n], p)
    /\ \A p \in L!People : access[p] # "none" => access'[p] # "none"

LEMMA GrowsKeeps ==
    ASSUME LeadInv, Grows, turned' \subseteq Lines, \A n \in turned' : n \in turned \/ Releasable(n)'
    PROVE  LeadInv'
<1>1. LeadTypes'
  BY DEF Grows, LeadTypes
<1>2. ASSUME NEW n \in turned
      PROVE  Releasable(n)'
  BY DEF Grows, LeadInv, LeadTypes, Releasable
<1> QED
  BY <1>1, <1>2 DEF LeadInv

LEMMA SeenGrows ==
    ASSUME LeadInv, NEW p \in L!People, NEW n \in Lines, seen' = L!Seen(p, n)
    PROVE  /\ seen' \in [Lines -> Seq(L!People)]
           /\ \A m \in Lines, q \in L!People : L!Contains(seen[m], q) => L!Contains(seen'[m], q)
           /\ L!Contains(seen'[n], p)
<1>1. PICK f : f = L!ToFront(seen[n], p)
  OBVIOUS
<1>2. seen' = [seen EXCEPT ![n] = f]
  BY <1>1 DEF L!Seen
<1>3. /\ f \in Seq(L!People) /\ L!Contains(f, p)
      /\ \A q : L!Contains(seen[n], q) => L!Contains(f, q)
  BY <1>1, LeadFacts, InFront
<1> QED
  BY <1>2, <1>3 DEF LeadInv, LeadTypes

LEMMA AccessGrows ==
    ASSUME LeadInv, NEW p \in L!People, NEW to \in L!AccessStatus,
           access' \in {access, [access EXCEPT ![p] = to]}
    PROVE  /\ access' \in [L!People -> {"none"} \cup L!AccessStatus]
           /\ \A q \in L!People : access[q] # "none" => access'[q] # "none"
BY DEF LeadInv, LeadTypes, L!AccessStatus

LEMMA LeadSeen ==
    ASSUME LeadInv, NEW p \in L!People, NEW n \in Lines, seen' = L!Seen(p, n), UNCHANGED <<access, turned>>
    PROVE  LeadInv'
<1>1. Grows
  BY SeenGrows DEF Grows, LeadInv, LeadTypes
<1> QED
  BY <1>1, GrowsKeeps DEF LeadInv, LeadTypes

LEMMA LeadAccess ==
    ASSUME LeadInv, NEW p \in L!People, NEW to \in L!AccessStatus, access' = [access EXCEPT ![p] = to],
           UNCHANGED <<seen, turned>>
    PROVE  LeadInv'
<1>1. Grows
  BY AccessGrows DEF Grows, LeadInv, LeadTypes
<1> QED
  BY <1>1, GrowsKeeps DEF LeadInv, LeadTypes

\* Of those seen with a number, one of a status is one of them.
LEMMA LastIsOne ==
    ASSUME LeadInv, NEW n \in Lines, NEW status, L!With(n, status) # {}
    PROVE  L!LastSeen(n, status) \in L!People
<1>1. L!With(n, status) \in SUBSET Nat
  BY LeadFacts DEF L!With
<1>2. L!Min(L!With(n, status)) \in L!With(n, status)
  BY <1>1, LeastOf DEF L!Min
<1> QED
  BY <1>2, LeadFacts DEF L!LastSeen, L!With

LEMMA PickedIsOne ==
    ASSUME LeadInv, NEW n \in Lines, seen[n] # <<>>
    PROVE  L!Picked(n) \in L!People /\ seen[n][1] \in L!People /\ L!Contains(seen[n], seen[n][1])
<1>1. 1 \in 1..Len(seen[n])
  BY LeadFacts, EmptySeq
<1> QED
  BY <1>1, LeadFacts, LastIsOne DEF L!Picked, L!Contains

LEMMA CandidatesAre ==
    ASSUME NEW n
    PROVE  L!Candidates(n) \subseteq L!People
BY DEF L!Candidates, L!People

LEMMA LeadGateKnows ==
    ASSUME LeadInv, NEW n \in Lines, L!GateKnows(n)
    PROVE  LeadInv'
<1>1. CASE L!With(n, "blocked") # {}
  <2>1. turned' = turned \cup {n} /\ UNCHANGED <<seen, access>>
    BY <1>1 DEF L!GateKnows
  <2>2. PICK i \in 1..Len(seen[n]) : access[seen[n][i]] = "blocked"
    BY <1>1, LeadFacts DEF L!With
  <2>3. Releasable(n)'
    BY <2>1, <2>2, LeadFacts DEF Releasable, L!Contains
  <2>4. Grows
    BY <2>1 DEF Grows, LeadInv, LeadTypes
  <2> QED
    BY <2>1, <2>3, <2>4, GrowsKeeps DEF LeadInv, LeadTypes
<1>2. CASE L!With(n, "blocked") = {} /\ L!With(n, "approved") # {}
  BY <1>2, LastIsOne, LeadSeen DEF L!GateKnows
<1>3. CASE L!With(n, "blocked") = {} /\ L!With(n, "approved") = {}
  <2>1. PICK p : p = seen[n][1]
    OBVIOUS
  <2>2. p \in L!People /\ L!Contains(seen[n], p)
    BY <2>1, PickedIsOne DEF L!GateKnows
  <2>3. turned' = turned \cup {n} /\ UNCHANGED seen
        /\ access' = IF access[p] = "none" THEN [access EXCEPT ![p] = "pending"] ELSE access
    BY <1>3, <2>1 DEF L!GateKnows, L!EnsurePending
  <2>4. Grows
    BY <2>2, <2>3, AccessGrows DEF Grows, L!AccessStatus, LeadInv, LeadTypes
  <2>5. Releasable(n)'
    BY <2>2, <2>3 DEF Releasable, LeadInv, LeadTypes
  <2> QED
    BY <2>3, <2>4, <2>5, GrowsKeeps DEF LeadInv, LeadTypes
<1> QED
  BY <1>1, <1>2, <1>3

LEMMA LeadGateMeets ==
    ASSUME LeadInv, NEW n \in Lines, L!GateMeets(n)
    PROVE  LeadInv'
<1>1. PICK p \in L!People :
         /\ seen' = L!Seen(p, n)
         /\ access' = IF access[p] = "none" THEN [access EXCEPT ![p] = "pending"] ELSE access
         /\ turned' = IF access[p] = "approved" THEN turned ELSE turned \cup {n}
  BY CandidatesAre DEF L!GateMeets, L!EnsurePending
<1>2. Grows
  BY <1>1, SeenGrows, AccessGrows DEF Grows, L!AccessStatus
<1>3. Releasable(n)'
  BY <1>1, SeenGrows DEF Releasable, LeadInv, LeadTypes
<1> QED
  BY <1>1, <1>2, <1>3, GrowsKeeps DEF LeadInv, LeadTypes

LEMMA LeadRelease ==
    ASSUME LeadInv, NEW n \in Lines, L!Release(n) \/ L!Unrelease(n)
    PROVE  LeadInv'
<1>1. PICK p \in L!People, to \in L!AccessStatus :
         /\ seen' = L!Seen(p, n) /\ UNCHANGED turned
         /\ access' \in {access, [access EXCEPT ![p] = to]}
  <2>1. CASE L!Release(n)
    <3>1. PICK p \in L!People : /\ seen' = L!Seen(p, n) /\ UNCHANGED turned
                                /\ access' = [access EXCEPT ![p] = "approved"]
      BY <2>1, PickedIsOne, CandidatesAre DEF L!Release
    <3> QED
      BY <3>1 DEF L!AccessStatus
  <2>2. CASE L!Unrelease(n)
    <3>1. PICK p \in L!People : p = L!Picked(n)
      BY <2>2, PickedIsOne DEF L!Unrelease
    <3>2. /\ seen' = L!Seen(p, n) /\ UNCHANGED turned
          /\ access' \in {access, [access EXCEPT ![p] = "revoked"]}
      BY <2>2, <3>1 DEF L!Unrelease
    <3> QED
      BY <3>2 DEF L!AccessStatus
  <2> QED
    BY <2>1, <2>2
<1>2. Grows
  BY <1>1, SeenGrows, AccessGrows DEF Grows
<1> QED
  BY <1>1, <1>2, GrowsKeeps DEF LeadInv, LeadTypes

LEMMA LeadDecides ==
    ASSUME LeadInv, NEW p \in L!People,
           \/ L!RequestAccess(p) \/ \E to \in L!AccessStatus : L!Decide(p, to)
           \/ \E n \in Lines : L!Proves(p, n) \/ L!Checkout(p, n)
    PROVE  LeadInv'
<1>1. CASE L!RequestAccess(p)
  BY <1>1, LeadAccess DEF L!RequestAccess, L!AccessStatus
<1>2. CASE \E to \in L!AccessStatus : L!Decide(p, to)
  BY <1>2, LeadAccess DEF L!Decide
<1>3. CASE \E n \in Lines : L!Proves(p, n) \/ L!Checkout(p, n)
  BY <1>3, LeadSeen DEF L!Proves, L!Checkout
<1> QED
  BY <1>1, <1>2, <1>3

LEMMA LeadStutter ==
    ASSUME LeadInv, UNCHANGED leadVars
    PROVE  LeadInv'
BY DEF leadVars, LeadInv, LeadTypes, Releasable

LEMMA LeadStep ==
    ASSUME LeadInv, L!GateNext
    PROVE  LeadInv'
BY LeadDecides, LeadGateKnows, LeadGateMeets, LeadRelease DEF L!GateNext

LEMMA LeadStart ==
    ASSUME L!GateInit
    PROVE  LeadInv
BY DEF L!GateInit, LeadInv, LeadTypes

LEMMA TurnedAreReleasable ==
    ASSUME LeadInv
    PROVE  L!TurnedCanBeReleased
BY DEF LeadInv, Releasable, L!TurnedCanBeReleased

-----------------------------------------------------------------------------
(* The book of addresses *)

LEMMA AddressesCount == \A T : A!Cardinality(T) = Cardinality(T)
BY DEF A!Cardinality, Cardinality

TabRows == [does : {"create", "update", "delete"}, id : Nat, default : BOOLEAN, mark : BOOLEAN,
            wrote : BOOLEAN, cleared : SUBSET Nat]

IsBook(b) ==
    /\ b = [a \in DOMAIN b |-> b[a]]
    /\ \A a \in DOMAIN b : b[a] \in BOOLEAN

AddressTypes ==
    /\ made \in Nat /\ IsBook(book) /\ DOMAIN book \subseteq 1..made
    /\ tab \in [Crossing -> TabRows \cup {A!Idle}]
    /\ muddled \in BOOLEAN

\* As long as no request wrote while another had read the book, it has one default and fits, and who
\* has read it knows it as it is.
HasOneDefault(b) ==
    DOMAIN b # {} => \E d \in DOMAIN b : \A a \in DOMAIN b : b[a] <=> a = d

Fits(n) == IsFiniteSet(DOMAIN book) /\ Cardinality(DOMAIN book) + n <= MaxAddresses

KnowsBook(k) ==
    /\ k.does = "create" => (k.mark <=> DOMAIN book = {}) /\ Fits(1)
    /\ k.does # "create" => k.id \in DOMAIN book /\ k.mark = book[k.id]
    /\ k.wrote => k.cleared = A!Cleared(k)

AddressInv ==
    /\ AddressTypes
    /\ ~muddled => /\ HasOneDefault(book) /\ Fits(0)
                   /\ \A t \in Crossing : tab[t] # A!Idle => KnowsBook(tab[t])

LEMMA IdleIsNoTab ==
    /\ A!Idle \notin TabRows /\ A!Idle.does = "nothing"
    /\ \A k \in TabRows : k # A!Idle /\ k.does # "nothing"
BY DEF A!Idle, TabRows

\* A request reads or writes: the others keep what they know.
LEMMA TabKept ==
    ASSUME AddressInv, NEW t \in Crossing, NEW k \in TabRows \cup {A!Idle},
           tab' = [tab EXCEPT ![t] = k], UNCHANGED <<book, made, muddled>>,
           ~muddled /\ k # A!Idle => KnowsBook(k)
    PROVE  AddressInv'
<1>1. AddressTypes'
  BY DEF AddressInv, AddressTypes, IsBook
<1>2. ASSUME ~muddled, NEW u \in Crossing, tab'[u] # A!Idle
      PROVE  KnowsBook(tab[u])'
  <2>1. tab'[u] = IF u = t THEN k ELSE tab[u]
    BY DEF AddressInv, AddressTypes
  <2>2. PICK c : c = tab'[u] /\ KnowsBook(c)
    BY <1>2, <2>1 DEF AddressInv
  <2>3. KnowsBook(c)'
    BY <2>2 DEF KnowsBook, Fits, A!Cleared, A!IsDefault, A!Defaults
  <2> QED
    BY <2>2, <2>3 DEF KnowsBook, Fits, A!Cleared, A!IsDefault, A!Defaults
<1>3. ~muddled => HasOneDefault(book)' /\ Fits(0)'
  BY DEF AddressInv, HasOneDefault, Fits
<1> QED
  BY <1>1, <1>2, <1>3 DEF AddressInv

LEMMA AddressReads ==
    ASSUME AddressInv, NEW t \in Crossing, NEW what \in A!Asked, A!Reads(t, what)
    PROVE  AddressInv'
<1>1. PICK mark : mark = IF what.does = "create" THEN DOMAIN book = {} ELSE book[what.id]
  OBVIOUS
<1>2. PICK k : k = [what EXCEPT !.mark = mark]
  OBVIOUS
<1>3. tab' = [tab EXCEPT ![t] = k] /\ UNCHANGED <<book, made, muddled>>
  BY <1>1, <1>2 DEF A!Reads
<1>4. /\ what.does \in {"create", "update", "delete"} /\ what.id \in Nat /\ what.default \in BOOLEAN
      /\ what.wrote = FALSE /\ what.cleared = {}
      /\ what.does # "create" => what.id \in DOMAIN book
  <2>1. 0 \in Nat /\ \A a \in DOMAIN book : a \in Nat
    BY DEF AddressInv, AddressTypes
  <2>2. CASE what \in [does : {"create"}, id : {0}, default : BOOLEAN, mark : {FALSE}, wrote : {FALSE},
                       cleared : {{}}]
    BY <2>1, <2>2
  <2>3. CASE what \in [does : {"update", "delete"}, id : DOMAIN book, default : BOOLEAN,
                       mark : {FALSE}, wrote : {FALSE}, cleared : {{}}]
    BY <2>1, <2>3
  <2> QED
    BY <2>2, <2>3 DEF A!Asked
<1>5. mark \in BOOLEAN
  BY <1>1, <1>4 DEF AddressInv, AddressTypes, IsBook
<1>6. /\ k = [does |-> what.does, id |-> what.id, default |-> what.default, mark |-> mark,
              wrote |-> FALSE, cleared |-> {}]
  BY <1>2, <1>4 DEF A!Asked
<1>7. k \in TabRows /\ k.does = what.does /\ k.id = what.id /\ k.mark = mark /\ ~k.wrote
  BY <1>4, <1>5, <1>6 DEF TabRows
<1>8. ASSUME ~muddled
      PROVE  KnowsBook(k)
  <2>1. CASE k.does = "create"
    <3>1. Cardinality(DOMAIN book) < MaxAddresses
      <4>1. what.does = "create" => Cardinality(DOMAIN book) < MaxAddresses
        BY AddressesCount DEF A!Reads
      <4> QED
        BY <1>7, <2>1, <4>1
    <3>2. IsFiniteSet(DOMAIN book) /\ Cardinality(DOMAIN book) \in Nat
      BY <1>8, FS_CardinalityType DEF AddressInv, Fits
    <3>3. Fits(1)
      BY <3>1, <3>2, PeopleAssumption DEF Fits
    <3> QED
      BY <1>1, <1>7, <2>1, <3>3 DEF KnowsBook
  <2>2. CASE k.does # "create"
    BY <1>1, <1>4, <1>7, <2>2 DEF KnowsBook
  <2> QED
    BY <2>1, <2>2
<1> QED
  BY <1>3, <1>7, <1>8, TabKept

LEMMA AddressWrites ==
    ASSUME AddressInv, NEW t \in Crossing, A!Writes(t)
    PROVE  AddressInv'
<1>1. PICK k \in TabRows : k = tab[t]
  BY IdleIsNoTab DEF A!Writes, AddressInv, AddressTypes
<1>2. PICK cleared \in SUBSET Nat : cleared = A!Cleared(k)
  <2>1. DOMAIN book \subseteq Nat
    BY DEF AddressInv, AddressTypes
  <2>2. A!Cleared(k) \subseteq Nat
    BY <2>1 DEF A!Cleared, A!Defaults
  <2> QED
    BY <2>2
<1>3. PICK w : w = [k EXCEPT !.wrote = TRUE, !.cleared = cleared]
  OBVIOUS
<1>4. w = [does |-> k.does, id |-> k.id, default |-> k.default, mark |-> k.mark, wrote |-> TRUE,
           cleared |-> cleared]
  BY <1>3 DEF TabRows
<1>5. w \in TabRows /\ w.does = k.does /\ w.id = k.id /\ w.default = k.default /\ w.mark = k.mark
      /\ w.cleared = cleared
  BY <1>4 DEF TabRows
<1>6. tab' = [tab EXCEPT ![t] = w] /\ UNCHANGED <<book, made, muddled>>
  BY <1>1, <1>2, <1>3 DEF A!Writes
<1>7. ~muddled => KnowsBook(w)
  BY <1>1, <1>2, <1>5, IdleIsNoTab DEF AddressInv, KnowsBook, A!Cleared, A!IsDefault
<1> QED
  BY <1>5, <1>6, <1>7, TabKept

LEMMA AddressFails ==
    ASSUME AddressInv, NEW t \in Crossing, A!Fails(t)
    PROVE  AddressInv'
BY TabKept DEF A!Fails

\* What becomes of a book.
LEMMA MarkedIs ==
    ASSUME NEW b, IsBook(b), NEW on, NEW off
    PROVE  /\ IsBook(A!Marked(b, on, off)) /\ DOMAIN A!Marked(b, on, off) = DOMAIN b
           /\ \A a \in DOMAIN b : A!Marked(b, on, off)[a] <=> a \in on \/ (b[a] /\ a \notin off)
BY DEF A!Marked, IsBook

\* The address that is new: the default if it was asked, or is the first.
LEMMA OneIsAdded ==
    ASSUME AddressInv, HasOneDefault(book), NEW k \in TabRows, k.does = "create", KnowsBook(k), k.wrote
    PROVE  /\ IsBook(A!After(k)) /\ DOMAIN A!After(k) = DOMAIN book \cup {made + 1}
           /\ HasOneDefault(A!After(k))
<1>1. PICK new \in BOOLEAN : new = A!IsDefault(k)
  BY DEF A!IsDefault
<1>2. PICK all : all = [a \in DOMAIN book \cup {made + 1} |-> IF a = made + 1 THEN new ELSE book[a]]
  OBVIOUS
<1>3. A!After(k) = A!Marked(all, {}, k.cleared)
  BY <1>1, <1>2 DEF A!After
<1>4. made + 1 \notin DOMAIN book
  BY DEF AddressInv, AddressTypes
<1>5. /\ IsBook(all) /\ DOMAIN all = DOMAIN book \cup {made + 1} /\ all[made + 1] = new
      /\ \A a \in DOMAIN book : all[a] = book[a]
  <2>1. \A a \in DOMAIN book : book[a] \in BOOLEAN
    BY DEF AddressInv, AddressTypes, IsBook
  <2> QED
    BY <1>2, <1>4, <2>1 DEF IsBook
<1>6. k.cleared = IF new THEN A!Defaults ELSE {}
  BY <1>1 DEF KnowsBook, A!Cleared
<1>7. PICK b : b = A!After(k)
  OBVIOUS
<1>8. /\ IsBook(b) /\ DOMAIN b = DOMAIN book \cup {made + 1}
      /\ \A a \in DOMAIN b : b[a] <=> all[a] /\ a \notin k.cleared
  BY <1>3, <1>5, <1>7, MarkedIs
<1>9. HasOneDefault(b)
  <2>1. CASE new
    <3>1. \A a \in DOMAIN b : b[a] <=> a = made + 1
      BY <1>4, <1>5, <1>6, <1>8, <2>1 DEF A!Defaults
    <3> QED
      BY <1>8, <3>1 DEF HasOneDefault
  <2>2. CASE ~new
    <3>1. DOMAIN book # {}
      BY <1>1, <2>2 DEF A!IsDefault, KnowsBook
    <3>2. PICK d \in DOMAIN book : \A a \in DOMAIN book : book[a] <=> a = d
      BY <3>1 DEF HasOneDefault
    <3>3. \A a \in DOMAIN b : b[a] <=> a = d
      BY <1>4, <1>5, <1>6, <1>8, <2>2, <3>2
    <3> QED
      BY <1>8, <3>2, <3>3 DEF HasOneDefault
  <2> QED
    BY <2>1, <2>2
<1> QED
  BY <1>7, <1>8, <1>9

LEMMA OneIsUpdated ==
    ASSUME AddressInv, HasOneDefault(book), NEW k \in TabRows, k.does = "update", KnowsBook(k), k.wrote
    PROVE  /\ IsBook(A!After(k)) /\ DOMAIN A!After(k) = DOMAIN book
           /\ HasOneDefault(A!After(k))
<1>1. PICK b : b = A!After(k)
  OBVIOUS
<1>2. b = A!Marked(book, IF k.default THEN {k.id} ELSE {}, k.cleared)
  BY <1>1 DEF A!After
<1>3. /\ IsBook(b) /\ DOMAIN b = DOMAIN book
      /\ \A a \in DOMAIN b : b[a] <=> a \in (IF k.default THEN {k.id} ELSE {}) \/ (book[a] /\ a \notin k.cleared)
  BY <1>2, MarkedIs DEF AddressInv, AddressTypes
<1>4. k.id \in DOMAIN book /\ k.cleared = IF k.default THEN A!Defaults ELSE {}
  BY DEF KnowsBook, A!Cleared, A!IsDefault
<1>5. HasOneDefault(b)
  <2>1. CASE k.default
    <3>1. \A a \in DOMAIN b : b[a] <=> a = k.id
      BY <1>3, <1>4, <2>1 DEF A!Defaults
    <3> QED
      BY <1>3, <1>4, <3>1 DEF HasOneDefault
  <2>2. CASE ~k.default
    <3>1. \A a \in DOMAIN b : b[a] <=> book[a]
      BY <1>3, <1>4, <2>2
    <3> QED
      BY <1>3, <3>1 DEF HasOneDefault
  <2> QED
    BY <2>1, <2>2
<1> QED
  BY <1>1, <1>3, <1>5

\* The oldest that is left becomes the default when the default goes.
LEMMA OneIsGone ==
    ASSUME AddressInv, HasOneDefault(book), NEW k \in TabRows, k.does = "delete", KnowsBook(k)
    PROVE  /\ IsBook(A!After(k)) /\ DOMAIN A!After(k) = DOMAIN book \ {k.id}
           /\ HasOneDefault(A!After(k))
<1>1. PICK b : b = A!Without(book, {k.id})
  OBVIOUS
<1>2. A!After(k) = IF k.mark THEN A!Marked(b, A!Heir(b), {}) ELSE b
  BY <1>1 DEF A!After, A!Passed
<1>3. /\ IsBook(b) /\ DOMAIN b = DOMAIN book \ {k.id} /\ \A a \in DOMAIN b : b[a] = book[a]
  BY <1>1 DEF A!Without, IsBook, AddressInv, AddressTypes
<1>4. k.id \in DOMAIN book /\ k.mark = book[k.id]
  BY DEF KnowsBook
<1>5. PICK d \in DOMAIN book : \A a \in DOMAIN book : book[a] <=> a = d
  BY <1>4 DEF HasOneDefault
<1>6. PICK c : c = A!After(k)
  OBVIOUS
<1>7. CASE k.mark
  <2>1. k.id = d
    BY <1>4, <1>5, <1>7
  <2>2. \A a \in DOMAIN b : ~b[a]
    BY <1>3, <1>5, <2>1
  <2>3. /\ IsBook(c) /\ DOMAIN c = DOMAIN b
        /\ \A a \in DOMAIN b : c[a] <=> a \in A!Heir(b)
    BY <1>2, <1>3, <1>6, <1>7, <2>2, MarkedIs
  <2>4. ASSUME DOMAIN b # {}
        PROVE  \E e \in DOMAIN b : A!Heir(b) = {e}
    <3>1. DOMAIN b \in SUBSET Nat
      BY <1>3 DEF AddressInv, AddressTypes
    <3>2. A!Min(DOMAIN b) \in DOMAIN b
      BY <2>4, <3>1, LeastOf DEF A!Min
    <3>3. TRUE \notin {b[a] : a \in DOMAIN b}
      BY <2>2
    <3> QED
      BY <2>4, <3>2, <3>3 DEF A!Heir
  <2>5. HasOneDefault(c)
    BY <2>3, <2>4 DEF HasOneDefault
  <2> QED
    BY <1>3, <1>6, <2>3, <2>5
<1>8. CASE ~k.mark
  <2>1. c = b /\ k.id # d
    BY <1>2, <1>4, <1>5, <1>6, <1>8
  <2>2. HasOneDefault(b)
    BY <1>3, <1>5, <2>1 DEF HasOneDefault
  <2> QED
    BY <1>3, <1>6, <2>1, <2>2
<1>9. k.mark \in BOOLEAN
  BY DEF TabRows
<1> QED
  BY <1>7, <1>8, <1>9

LEMMA AddressCommits ==
    ASSUME AddressInv, NEW t \in Crossing, A!Commits(t)
    PROVE  AddressInv'
<1>1. PICK k \in TabRows : k = tab[t]
  BY IdleIsNoTab DEF A!Commits, AddressInv, AddressTypes
<1>2. /\ k.wrote /\ (k.does # "create" => k.id \in DOMAIN book)
      /\ book' = A!After(k) /\ made' = IF k.does = "create" THEN made + 1 ELSE made
      /\ muddled' = (muddled \/ \E u \in Crossing \ {t} : tab[u] # A!Idle)
      /\ tab' = [tab EXCEPT ![t] = A!Idle]
  BY <1>1 DEF A!Commits
<1>3. AddressTypes'
  <2>1. IsBook(A!After(k)) /\ DOMAIN A!After(k) \subseteq 1..made'
    <3>1. CASE k.does = "create"
      <4>1. PICK all : all = [a \in DOMAIN book \cup {made + 1} |->
                                IF a = made + 1 THEN A!IsDefault(k) ELSE book[a]]
        OBVIOUS
      <4>2. A!After(k) = A!Marked(all, {}, k.cleared)
        BY <3>1, <4>1 DEF A!After
      <4>3. IsBook(all) /\ DOMAIN all = DOMAIN book \cup {made + 1}
        BY <4>1 DEF IsBook, AddressInv, AddressTypes, A!IsDefault, TabRows
      <4>4. DOMAIN all \subseteq 1..made + 1
        BY <4>3 DEF AddressInv, AddressTypes
      <4> QED
        BY <1>2, <3>1, <4>2, <4>3, <4>4, MarkedIs
    <3>2. CASE k.does = "update"
      BY <1>2, <3>2, MarkedIs DEF A!After, AddressInv, AddressTypes
    <3>3. CASE k.does = "delete"
      <4>1. PICK b : b = A!Without(book, {k.id})
        OBVIOUS
      <4>2. A!After(k) = IF k.mark THEN A!Marked(b, A!Heir(b), {}) ELSE b
        BY <3>3, <4>1 DEF A!After, A!Passed
      <4>3. IsBook(b) /\ DOMAIN b \subseteq DOMAIN book
        BY <4>1 DEF A!Without, IsBook, AddressInv, AddressTypes
      <4>4. made' = made
        BY <1>2, <3>3
      <4> QED
        BY <4>2, <4>3, <4>4, MarkedIs DEF AddressInv, AddressTypes
    <3> QED
      BY <3>1, <3>2, <3>3 DEF TabRows
  <2>2. made' \in Nat /\ muddled' \in BOOLEAN
    BY <1>2 DEF AddressInv, AddressTypes
  <2> QED
    BY <1>2, <2>1, <2>2 DEF AddressInv, AddressTypes, IsBook
<1>4. ASSUME ~muddled'
      PROVE  /\ HasOneDefault(book)' /\ Fits(0)'
             /\ \A u \in Crossing : tab'[u] # A!Idle => KnowsBook(tab[u])'
  <2>1. ~muddled /\ \A u \in Crossing : tab'[u] = A!Idle
    BY <1>2, <1>4 DEF AddressInv, AddressTypes
  <2>2. HasOneDefault(book) /\ Fits(0) /\ KnowsBook(k)
    BY <1>1, <2>1, IdleIsNoTab DEF AddressInv
  <2>3. /\ HasOneDefault(A!After(k))
        /\ k.does = "create" => DOMAIN A!After(k) = DOMAIN book \cup {made + 1}
        /\ k.does = "update" => DOMAIN A!After(k) = DOMAIN book
        /\ k.does = "delete" => DOMAIN A!After(k) = DOMAIN book \ {k.id}
    BY <1>2, <2>2, OneIsAdded, OneIsUpdated, OneIsGone DEF TabRows
  <2>4. IsFiniteSet(DOMAIN book) /\ Cardinality(DOMAIN book) \in Nat
    BY <2>2, FS_CardinalityType DEF Fits
  <2>5. IsFiniteSet(DOMAIN A!After(k)) /\ Cardinality(DOMAIN A!After(k)) <= MaxAddresses
    <3>1. CASE k.does = "create"
      <4>1. made + 1 \notin DOMAIN book /\ Cardinality(DOMAIN book) + 1 <= MaxAddresses
        BY <2>2, <3>1 DEF AddressInv, AddressTypes, KnowsBook, Fits
      <4>2. /\ IsFiniteSet(DOMAIN book \cup {made + 1})
            /\ Cardinality(DOMAIN book \cup {made + 1}) = Cardinality(DOMAIN book) + 1
        BY <2>4, <4>1, FS_AddElement
      <4> QED
        BY <2>3, <3>1, <4>1, <4>2
    <3>2. CASE k.does = "update"
      BY <2>2, <2>3, <2>4, <3>2, PeopleAssumption DEF Fits
    <3>3. CASE k.does = "delete"
      <4>1. /\ IsFiniteSet(DOMAIN book \ {k.id})
            /\ Cardinality(DOMAIN book \ {k.id}) <= Cardinality(DOMAIN book)
            /\ Cardinality(DOMAIN book \ {k.id}) \in Nat
        BY <2>4, FS_Subset, FS_CardinalityType
      <4> QED
        BY <2>2, <2>3, <2>4, <3>3, <4>1, PeopleAssumption DEF Fits
    <3> QED
      BY <3>1, <3>2, <3>3 DEF TabRows
  <2>6. Cardinality(DOMAIN A!After(k)) \in Nat
    BY <2>5, FS_CardinalityType
  <2>7. HasOneDefault(book)'
    BY <1>2, <2>3 DEF HasOneDefault
  <2>8. Fits(0)'
    BY <1>2, <2>5, <2>6 DEF Fits
  <2> QED
    BY <2>1, <2>7, <2>8
<1> QED
  BY <1>3, <1>4 DEF AddressInv

LEMMA AddressStutter ==
    ASSUME AddressInv, UNCHANGED addressVars
    PROVE  AddressInv'
<1>1. UNCHANGED <<book, made, tab, muddled>>
  BY DEF addressVars
<1>2. AddressTypes' /\ (HasOneDefault(book) => HasOneDefault(book)') /\ (Fits(0) => Fits(0)')
  BY <1>1 DEF AddressInv, AddressTypes, IsBook, HasOneDefault, Fits
<1>3. ASSUME NEW u \in Crossing, KnowsBook(tab[u])
      PROVE  KnowsBook(tab[u])'
  BY <1>1, <1>3 DEF KnowsBook, Fits, A!Cleared, A!IsDefault, A!Defaults
<1> QED
  BY <1>1, <1>2, <1>3 DEF AddressInv

LEMMA AddressStep ==
    ASSUME AddressInv, A!AddressesNext
    PROVE  AddressInv'
BY AddressReads, AddressWrites, AddressCommits, AddressFails DEF A!AddressesNext

LEMMA AddressStart ==
    ASSUME A!AddressesInit
    PROVE  AddressInv
<1>1. DOMAIN book = {}
  BY DEF A!AddressesInit
<1>2. IsFiniteSet(DOMAIN book) /\ Cardinality(DOMAIN book) = 0
  BY <1>1, FS_EmptySet
<1>3. IsBook(book)
  BY <1>1 DEF IsBook, A!AddressesInit
<1>4. AddressTypes
  BY <1>1, <1>3 DEF A!AddressesInit, AddressTypes
<1>5. HasOneDefault(book) /\ Fits(0)
  BY <1>1, <1>2, PeopleAssumption DEF HasOneDefault, Fits
<1> QED
  BY <1>4, <1>5 DEF A!AddressesInit, AddressInv

LEMMA OneDefaultIsKept ==
    ASSUME AddressInv
    PROVE  A!OneIsTheDefault
<1> SUFFICES ASSUME ~muddled
             PROVE  /\ Cardinality(A!Defaults) = IF DOMAIN book = {} THEN 0 ELSE 1
                    /\ Cardinality(DOMAIN book) <= MaxAddresses
  BY AddressesCount DEF A!OneIsTheDefault
<1>1. HasOneDefault(book) /\ Fits(0)
  BY DEF AddressInv
<1>2. Cardinality(DOMAIN book) <= MaxAddresses
  BY <1>1, FS_CardinalityType, PeopleAssumption DEF Fits
<1>3. CASE DOMAIN book = {}
  <2>1. A!Defaults = {}
    BY <1>3 DEF A!Defaults
  <2> QED
    BY <1>2, <1>3, <2>1, FS_EmptySet
<1>4. CASE DOMAIN book # {}
  <2>1. PICK d \in DOMAIN book : \A a \in DOMAIN book : book[a] <=> a = d
    BY <1>1, <1>4 DEF HasOneDefault
  <2>2. A!Defaults = {d}
    BY <2>1 DEF A!Defaults
  <2> QED
    BY <1>2, <1>4, <2>2, FS_Singleton
<1> QED
  BY <1>3, <1>4

-----------------------------------------------------------------------------
(* Who owns the store *)

Roles == {"none", "admin", "owner"}

PersonRows == [account : Team \cup {M!NoAccount}, email : Emails, admin : BOOLEAN, role : Roles]

ReadingRows == [is : {"panel", "site", "owner"}, account : Team, email : Emails, who : SUBSET Nat,
                moves : BOOLEAN, admin : BOOLEAN, before : SUBSET Nat, had : Roles]

StaffTypes ==
    /\ member \in Seq(PersonRows) /\ M!Unique(member)
    /\ invitation \in [Crossing -> ReadingRows \cup {M!Idle}]
    /\ \A r \in Crossing : invitation[r] # M!Idle => invitation[r].who \subseteq 1..Len(member)
    /\ tangled \in BOOLEAN

\* As long as an owner is set by one request at a time and never by hand: there is one at most, and
\* who is about to set another knows it, be it the same person.
KnowsOwner(q) ==
    /\ \A x, y \in q.who : x = y
    /\ \A p \in 1..Len(member) : member[p].role = "owner" => p \in q.before \cup q.who

OwnerIsOne ==
    \A p, q \in 1..Len(member) : member[p].role = "owner" /\ member[q].role = "owner" => p = q

StaffInv ==
    /\ StaffTypes
    /\ ~tangled => /\ OwnerIsOne
                   /\ \A r, s \in Crossing :
                         invitation[r].is = "owner" /\ invitation[s].is = "owner" => r = s
                   /\ \A r \in Crossing : invitation[r].is = "owner" => KnowsOwner(invitation[r])

LEMMA StaffFacts ==
    ASSUME StaffInv
    PROVE  /\ Len(member) \in Nat /\ DOMAIN member = 1..Len(member)
           /\ \A p \in 1..Len(member) : member[p] \in PersonRows
BY ElementsOf DEF StaffInv, StaffTypes

LEMMA IdleIsNoReading == M!Idle \notin ReadingRows /\ M!Idle.is = "idle"
BY DEF M!Idle, ReadingRows

\* Nobody leaves the panel, and nobody in it is an owner who was not.
NoNewOwner(people) ==
    /\ people \in Seq(PersonRows) /\ Len(member) <= Len(people)
    /\ \A p \in 1..Len(people) : people[p].role = "owner" => p \in 1..Len(member) /\ member[p].role = "owner"

LEMMA SameIsNoNewOwner ==
    ASSUME StaffInv
    PROVE  NoNewOwner(member) /\ M!Unique(member)
BY StaffFacts DEF NoNewOwner, StaffInv, StaffTypes

\* E-mails and accounts stay unique when they do not change, and with a new one.
LEMMA UniqueStays ==
    ASSUME NEW people \in Seq(PersonRows), NEW more \in Seq(PersonRows), M!Unique(people),
           Len(more) = Len(people),
           \A p \in 1..Len(people) : more[p].email = people[p].email /\ more[p].account = people[p].account
    PROVE  M!Unique(more)
BY ElementsOf DEF M!Unique

LEMMA UniqueWithOneMore ==
    ASSUME NEW people \in Seq(PersonRows), NEW row \in PersonRows, M!Unique(people),
           row.account = M!NoAccount, \A p \in 1..Len(people) : people[p].email # row.email
    PROVE  M!Unique(Append(people, row))
<1>1. /\ Append(people, row) \in Seq(PersonRows) /\ Len(Append(people, row)) = Len(people) + 1
      /\ \A i \in 1..Len(people) : Append(people, row)[i] = people[i]
      /\ Append(people, row)[Len(people) + 1] = row
  BY OneMore
<1>2. PICK more \in Seq(PersonRows) : more = Append(people, row)
  BY <1>1
<1>3. /\ Len(people) \in Nat /\ DOMAIN people = 1..Len(people) /\ DOMAIN more = 1..Len(people) + 1
      /\ \A p \in 1..Len(people) + 1 : p \in 1..Len(people) \/ p = Len(people) + 1
  BY <1>1, <1>2, ElementsOf
<1>4. ASSUME NEW p \in DOMAIN more, NEW q \in DOMAIN more, p # q
      PROVE  /\ more[p].email # more[q].email
             /\ more[p].account = M!NoAccount \/ more[p].account # more[q].account
  <2>1. CASE p \in 1..Len(people) /\ q \in 1..Len(people)
    BY <1>1, <1>2, <1>3, <1>4, <2>1 DEF M!Unique
  <2>2. CASE p \in 1..Len(people) /\ q = Len(people) + 1
    BY <1>1, <1>2, <2>2
  <2>3. CASE p = Len(people) + 1 /\ q \in 1..Len(people)
    BY <1>1, <1>2, <2>3
  <2> QED
    BY <1>3, <1>4, <2>1, <2>2, <2>3
<1> QED
  BY <1>2, <1>4 DEF M!Unique

\* Steps that make no owner keep the invariant.
LEMMA StaffKept ==
    ASSUME StaffInv, NoNewOwner(member'), M!Unique(member'), tangled' \in BOOLEAN, tangled => tangled',
           invitation' \in [Crossing -> ReadingRows \cup {M!Idle}],
           \A r \in Crossing :
              \/ invitation'[r] \in {invitation[r], M!Idle}
              \/ /\ invitation'[r].who \subseteq 1..Len(member')
                 /\ ~tangled' /\ invitation'[r].is = "owner" =>
                       /\ \A s \in Crossing \ {r} : invitation'[s].is # "owner"
                       /\ KnowsOwner(invitation[r])'
    PROVE  StaffInv'
<1>1. Len(member) \in Nat /\ Len(member') \in Nat
  BY StaffFacts, ElementsOf DEF NoNewOwner
<1>2. ASSUME NEW r \in Crossing, invitation'[r] # M!Idle
      PROVE  invitation'[r].who \subseteq 1..Len(member')
  <2>1. CASE invitation'[r] = invitation[r]
    <3>1. invitation[r].who \subseteq 1..Len(member)
      BY <1>2, <2>1 DEF StaffInv, StaffTypes
    <3> QED
      BY <1>1, <2>1, <3>1 DEF NoNewOwner
  <2>2. CASE invitation'[r] # invitation[r]
    BY <1>2, <2>2
  <2> QED
    BY <2>1, <2>2
<1>3. StaffTypes'
  BY <1>2 DEF StaffTypes, NoNewOwner
<1>4. ASSUME ~tangled'
      PROVE  /\ OwnerIsOne'
             /\ \A r, s \in Crossing :
                   invitation'[r].is = "owner" /\ invitation'[s].is = "owner" => r = s
             /\ \A r \in Crossing : invitation'[r].is = "owner" => KnowsOwner(invitation[r])'
  <2>1. OwnerIsOne'
    BY <1>4 DEF StaffInv, OwnerIsOne, NoNewOwner
  <2>2. ASSUME NEW r \in Crossing, NEW s \in Crossing,
               invitation'[r].is = "owner", invitation'[s].is = "owner", r # s
        PROVE  FALSE
    <3>1. invitation'[r] = invitation[r] /\ invitation'[s] = invitation[s]
      BY <1>4, <2>2, IdleIsNoReading
    <3> QED
      BY <1>4, <2>2, <3>1 DEF StaffInv
  <2>3. ASSUME NEW r \in Crossing, invitation'[r].is = "owner"
        PROVE  KnowsOwner(invitation[r])'
    <3>1. CASE invitation'[r] = invitation[r]
      <4>1. KnowsOwner(invitation[r])
        BY <1>4, <2>3, <3>1 DEF StaffInv
      <4> QED
        BY <3>1, <4>1 DEF KnowsOwner, NoNewOwner
    <3>2. CASE invitation'[r] # invitation[r]
      BY <1>4, <2>3, <3>2, IdleIsNoReading
    <3> QED
      BY <3>1, <3>2
  <2> QED
    BY <2>1, <2>2, <2>3
<1> QED
  BY <1>3, <1>4 DEF StaffInv

\* Who an account or an e-mail is, is one person.
LEMMA FoundIsOne ==
    ASSUME StaffInv, NEW a \in Team, NEW e
    PROVE  M!Found(a, e) \subseteq 1..Len(member) /\ \A x, y \in M!Found(a, e) : x = y
BY StaffFacts, PeopleAssumption
DEF M!Found, M!Tied, M!Named, M!People, M!NoAccount, M!Unique, StaffInv, StaffTypes

LEMMA ReadingIs ==
    ASSUME StaffInv, NEW kind \in {"panel", "site", "owner"}, NEW a \in Team, NEW e \in Emails,
           NEW admin \in BOOLEAN, NEW before \in SUBSET Nat, NEW had \in Roles
    PROVE  /\ M!Reading(kind, a, e, admin, before, had) \in ReadingRows
           /\ M!Reading(kind, a, e, admin, before, had).is = kind
           /\ M!Reading(kind, a, e, admin, before, had).who = M!Found(a, e)
           /\ M!Reading(kind, a, e, admin, before, had).before = before
<1>1. PICK who \in SUBSET Nat : who = M!Found(a, e)
  BY FoundIsOne, StaffFacts
<1>2. PICK moves \in BOOLEAN : moves = (kind # "owner" /\ M!Tied(a) # {} /\ M!Named(e) = {})
  OBVIOUS
<1>3. PICK q : q = [is |-> kind, account |-> a, email |-> e, who |-> who, moves |-> moves,
                    admin |-> admin, before |-> before, had |-> had]
  OBVIOUS
<1>4. q = M!Reading(kind, a, e, admin, before, had)
  BY <1>1, <1>2, <1>3 DEF M!Reading
<1>5. q \in ReadingRows /\ q.is = kind /\ q.who = who /\ q.before = before
  BY <1>3 DEF ReadingRows
<1> QED
  BY <1>1, <1>4, <1>5

LEMMA StaffExchanges ==
    ASSUME StaffInv, NEW r \in Crossing, NEW a \in Team, NEW e \in Emails,
           NEW verified \in BOOLEAN, NEW admin \in BOOLEAN, NEW panel \in BOOLEAN,
           M!Exchanges(r, a, e, verified, admin, panel)
    PROVE  StaffInv'
<1>1. PICK kind \in {"panel", "site"} : kind = IF panel THEN "panel" ELSE "site"
  OBVIOUS
<1>2. PICK q : q = M!Reading(kind, a, e, admin, {}, "none")
  OBVIOUS
<1>3. q \in ReadingRows /\ q.is = kind /\ q.who = M!Found(a, e)
  BY <1>2, ReadingIs DEF Roles
<1>4. invitation' = [invitation EXCEPT ![r] = q] /\ UNCHANGED <<member, tangled>>
  BY <1>1, <1>2 DEF M!Exchanges
<1>5. q.who \subseteq 1..Len(member) /\ q.is # "owner"
  BY <1>3, FoundIsOne
<1>6. /\ invitation' \in [Crossing -> ReadingRows \cup {M!Idle}]
      /\ \A s \in Crossing : invitation'[s] = IF s = r THEN q ELSE invitation[s]
  BY <1>3, <1>4 DEF StaffInv, StaffTypes
<1>7. NoNewOwner(member') /\ M!Unique(member') /\ tangled' \in BOOLEAN
  BY <1>4, SameIsNoNewOwner DEF StaffInv, StaffTypes
<1> QED
  BY <1>4, <1>5, <1>6, <1>7, StaffKept

LEMMA StaffAsksOwner ==
    ASSUME StaffInv, NEW r \in Crossing, NEW a \in Team, NEW e \in Emails, M!AsksOwner(r, a, e)
    PROVE  StaffInv'
<1>1. PICK who \in SUBSET (1..Len(member)) : who = M!Found(a, e) /\ \A x, y \in who : x = y
  BY FoundIsOne
<1>2. PICK before \in SUBSET Nat : before = M!Owners \ who
  <2>1. \A p \in M!Owners : p \in Nat
    BY StaffFacts DEF M!Owners, M!People
  <2>2. M!Owners \ who \in SUBSET Nat
    BY <2>1
  <2> QED
    BY <2>2
<1>3. PICK had \in Roles : had = IF who = {} THEN "none" ELSE member[CHOOSE p \in who : TRUE].role
  <2>1. who # {} => (CHOOSE p \in who : TRUE) \in who
    OBVIOUS
  <2> QED
    BY <2>1, StaffFacts DEF Roles, PersonRows
<1>4. PICK q : q = M!Reading("owner", a, e, FALSE, before, had)
  OBVIOUS
<1>5. q \in ReadingRows /\ q.is = "owner" /\ q.who = who /\ q.before = before
  <2>1. PICK kind \in {"panel", "site", "owner"} : kind = "owner"
    OBVIOUS
  <2>2. PICK no \in BOOLEAN : no = FALSE
    OBVIOUS
  <2>3. q = M!Reading(kind, a, e, no, before, had)
    BY <1>4, <2>1, <2>2
  <2> QED
    BY <1>1, <2>1, <2>3, ReadingIs
<1>6. /\ invitation' = [invitation EXCEPT ![r] = q] /\ UNCHANGED member
      /\ tangled' = (tangled \/ M!InFlight("owner") # {})
  BY <1>1, <1>2, <1>3, <1>4 DEF M!AsksOwner
<1>7. /\ invitation' \in [Crossing -> ReadingRows \cup {M!Idle}]
      /\ \A s \in Crossing : invitation'[s] = IF s = r THEN q ELSE invitation[s]
  BY <1>5, <1>6 DEF StaffInv, StaffTypes
<1>8. ~tangled' => \A s \in Crossing \ {r} : invitation'[s].is # "owner"
  BY <1>6, <1>7 DEF M!InFlight
<1>9. KnowsOwner(q)'
  BY <1>1, <1>2, <1>5, <1>6, StaffFacts DEF KnowsOwner, M!Owners, M!People
<1>10. KnowsOwner(invitation[r])'
  BY <1>7, <1>9 DEF KnowsOwner
<1>11. NoNewOwner(member') /\ M!Unique(member') /\ tangled' \in BOOLEAN
  BY <1>6, SameIsNoNewOwner DEF StaffInv, StaffTypes
<1> QED
  BY <1>5, <1>6, <1>7, <1>8, <1>10, <1>11, StaffKept

\* The person a request is about, made if there is none.
LEMMA LinkedIs ==
    ASSUME StaffInv, NEW q \in ReadingRows, q.who \subseteq 1..Len(member)
    PROVE  /\ NoNewOwner(M!Linked(q)) /\ M!Index(q) \in 1..Len(M!Linked(q))
           /\ q.who = {} => M!Index(q) \notin 1..Len(member)
           /\ q.who # {} => M!Index(q) \in q.who
<1>1. /\ q.account \in Team /\ q.email \in Emails /\ q.moves \in BOOLEAN
  BY DEF ReadingRows
<1>2. PICK i : i = M!Index(q)
  OBVIOUS
<1>3. Len(member) \in Nat /\ member \in Seq(PersonRows)
  BY StaffFacts DEF StaffInv, StaffTypes
<1>4. CASE q.who = {}
  <2>1. PICK row : row = [account |-> q.account, email |-> q.email, admin |-> FALSE, role |-> "none"]
    OBVIOUS
  <2>2. row \in PersonRows /\ row.role = "none"
    BY <1>1, <2>1 DEF PersonRows, Roles
  <2>3. M!Linked(q) = Append(member, row) /\ i = Len(member) + 1
    BY <1>2, <1>4, <2>1 DEF M!Linked, M!NewPerson, M!Index
  <2>4. PICK people : people = M!Linked(q)
    OBVIOUS
  <2>5. /\ people \in Seq(PersonRows) /\ Len(people) = Len(member) + 1
        /\ \A p \in 1..Len(member) : people[p] = member[p]
        /\ people[Len(member) + 1] = row
    BY <1>3, <2>2, <2>3, <2>4, OneMore
  <2>6. \A p \in 1..Len(people) : p \in 1..Len(member) \/ p = Len(member) + 1
    BY <1>3, <2>5
  <2>7. NoNewOwner(people)
    BY <1>3, <2>2, <2>5, <2>6 DEF NoNewOwner
  <2> QED
    BY <1>2, <1>3, <1>4, <2>3, <2>4, <2>5, <2>7
<1>5. CASE q.who # {}
  <2>1. i \in q.who /\ i \in 1..Len(member)
    BY <1>2, <1>5 DEF M!Index
  <2>2. member[i] \in PersonRows
    BY <2>1, StaffFacts
  <2>a. PICK email \in Emails : email = IF q.moves THEN q.email ELSE member[i].email
    BY <1>1, <2>2 DEF PersonRows
  <2>3. PICK row : row = [member[i] EXCEPT !.account = q.account, !.email = email]
    OBVIOUS
  <2>4. row \in PersonRows /\ row.role = member[i].role
    BY <1>1, <2>2, <2>3 DEF PersonRows
  <2>b. M!Linked(q) = [member EXCEPT ![i].account = q.account,
                                     ![i].email = IF q.moves THEN q.email ELSE @]
    BY <1>2, <1>5 DEF M!Linked
  <2>c. M!Linked(q) = [member EXCEPT ![i] = [member[i] EXCEPT !.account = q.account, !.email = email]]
    <3>1. PICK one : one = [member[i] EXCEPT !.account = q.account]
      OBVIOUS
    <3>2. one.email = member[i].email /\ one \in PersonRows
      BY <1>1, <2>2, <3>1 DEF PersonRows
    <3>3. PICK linked : linked = [member EXCEPT ![i] = one]
      OBVIOUS
    <3>4. linked[i] = one /\ i \in DOMAIN member /\ DOMAIN linked = DOMAIN member
      BY <1>3, <2>1, <3>3, ElementsOf
    <3>5. M!Linked(q) = [linked EXCEPT ![i].email = IF q.moves THEN q.email ELSE @]
      BY <2>b, <3>1, <3>3
    <3>6. M!Linked(q) = [linked EXCEPT ![i] = [one EXCEPT !.email = email]]
      BY <2>a, <3>2, <3>4, <3>5
    <3> QED
      BY <3>1, <3>3, <3>4, <3>6
  <2>5. M!Linked(q) = [member EXCEPT ![i] = row]
    BY <2>3, <2>c
  <2>6. PICK people : people = M!Linked(q)
    OBVIOUS
  <2>7. /\ people \in Seq(PersonRows) /\ Len(people) = Len(member)
        /\ \A p \in 1..Len(member) : people[p] = IF p = i THEN row ELSE member[p]
    BY <1>3, <2>1, <2>4, <2>5, <2>6, OneChanged
  <2>8. NoNewOwner(people)
    BY <1>3, <2>4, <2>7 DEF NoNewOwner
  <2> QED
    BY <1>2, <1>5, <2>1, <2>6, <2>7, <2>8
<1> QED
  BY <1>4, <1>5

\* One of the people changes in what is not its role.
LEMMA NoNewOwnerInRow ==
    ASSUME StaffInv, NEW people, NoNewOwner(people), NEW i \in 1..Len(people), NEW row \in PersonRows,
           row.role = people[i].role
    PROVE  NoNewOwner([people EXCEPT ![i] = row])
<1>1. PICK more : more = [people EXCEPT ![i] = row]
  OBVIOUS
<1>2. /\ more \in Seq(PersonRows) /\ Len(more) = Len(people)
      /\ \A p \in 1..Len(people) : more[p] = IF p = i THEN row ELSE people[p]
  BY <1>1, OneChanged DEF NoNewOwner
<1> QED
  BY <1>1, <1>2 DEF NoNewOwner

LEMMA StaffEnds ==
    ASSUME StaffInv, NEW r \in Crossing, M!Ends(r)
    PROVE  /\ invitation' \in [Crossing -> ReadingRows \cup {M!Idle}]
           /\ invitation'[r] = M!Idle /\ \A s \in Crossing \ {r} : invitation'[s] = invitation[s]
BY DEF M!Ends, StaffInv, StaffTypes

LEMMA StaffLogin ==
    ASSUME StaffInv, NEW r \in Crossing, M!LoginWithAccount(r)
    PROVE  StaffInv'
<1>1. PICK q \in ReadingRows : q = invitation[r] /\ q.who \subseteq 1..Len(member)
  BY IdleIsNoReading DEF M!LoginWithAccount, M!InFlight, StaffInv, StaffTypes
<1>2. PICK people, i : people = M!Linked(q) /\ i = M!Index(q)
  OBVIOUS
<1>3. NoNewOwner(people) /\ i \in 1..Len(people)
  BY <1>1, <1>2, LinkedIs
<1>4. PICK row : row = [people[i] EXCEPT !.admin = q.admin]
  OBVIOUS
<1>5. row \in PersonRows /\ row.role = people[i].role
  <2>1. people[i] \in PersonRows /\ q.admin \in BOOLEAN
    BY <1>3, ElementsOf DEF NoNewOwner, ReadingRows
  <2> QED
    BY <1>4, <2>1 DEF PersonRows
<1>6. PICK more : more = [people EXCEPT ![i] = row]
  OBVIOUS
<1>7. /\ member' = IF M!Fits(more) THEN more ELSE member
      /\ M!Ends(r) /\ UNCHANGED tangled
  BY <1>1, <1>2, <1>4, <1>6 DEF M!LoginWithAccount
<1>8. NoNewOwner(member') /\ M!Unique(member')
  BY <1>3, <1>5, <1>6, <1>7, NoNewOwnerInRow, SameIsNoNewOwner DEF M!Fits
<1> QED
  BY <1>7, <1>8, StaffEnds, StaffKept DEF StaffInv, StaffTypes

LEMMA StaffBootstrap ==
    ASSUME StaffInv, NEW e \in Emails, M!Bootstrap(e)
    PROVE  StaffInv'
<1>1. PICK row : row = [account |-> M!NoAccount, email |-> e, admin |-> TRUE, role |-> "none"]
  OBVIOUS
<1>2. row \in PersonRows /\ row.role = "none" /\ row.account = M!NoAccount /\ row.email = e
  BY <1>1 DEF PersonRows, Roles
<1>a. [M!NewPerson(M!NoAccount, e) EXCEPT !.admin = TRUE] = row
  <2>1. PICK no \in BOOLEAN : no = FALSE
    OBVIOUS
  <2>2. PICK yes \in BOOLEAN : yes = TRUE
    OBVIOUS
  <2>3. [M!NewPerson(M!NoAccount, e) EXCEPT !.admin = yes]
           = [[account |-> M!NoAccount, email |-> e, admin |-> no, role |-> "none"] EXCEPT !.admin = yes]
    BY <2>1 DEF M!NewPerson
  <2>4. @ = [account |-> M!NoAccount, email |-> e, admin |-> yes, role |-> "none"]
    OBVIOUS
  <2> QED
    BY <1>1, <2>2, <2>3, <2>4
<1>3. member' = Append(member, row) /\ UNCHANGED <<invitation, tangled>>
  BY <1>a DEF M!Bootstrap
<1>4. member \in Seq(PersonRows) /\ M!Unique(member)
  BY DEF StaffInv, StaffTypes
<1>5. \A p \in 1..Len(member) : member[p].email # e
  BY StaffFacts DEF M!Bootstrap, M!Named, M!People
<1>6. M!Unique(member')
  BY <1>2, <1>3, <1>4, <1>5, UniqueWithOneMore
<1>7. /\ member' \in Seq(PersonRows) /\ Len(member') = Len(member) + 1
      /\ \A p \in 1..Len(member) : member'[p] = member[p]
      /\ member'[Len(member) + 1] = row
  BY <1>2, <1>3, <1>4, OneMore
<1>8. Len(member) \in Nat /\ \A p \in 1..Len(member') : p \in 1..Len(member) \/ p = Len(member) + 1
  BY <1>7, StaffFacts
<1>9. NoNewOwner(member')
  BY <1>2, <1>7, <1>8 DEF NoNewOwner
<1> QED
  BY <1>3, <1>6, <1>9, StaffKept DEF StaffInv, StaffTypes

\* Steps after which no request to set an owner is in flight, unless two crossed or one was set by hand.
LEMMA StaffAfter ==
    ASSUME StaffInv, member' \in Seq(PersonRows), Len(member) <= Len(member'), M!Unique(member'),
           tangled' \in BOOLEAN, invitation' \in [Crossing -> ReadingRows \cup {M!Idle}],
           \A s \in Crossing : invitation'[s] \in {invitation[s], M!Idle},
           ~tangled' => OwnerIsOne' /\ \A s \in Crossing : invitation'[s].is # "owner"
    PROVE  StaffInv'
<1>1. Len(member) \in Nat /\ Len(member') \in Nat
  BY StaffFacts, ElementsOf
<1>2. ASSUME NEW s \in Crossing, invitation'[s] # M!Idle
      PROVE  invitation'[s].who \subseteq 1..Len(member')
  <2>1. invitation'[s] = invitation[s] /\ invitation[s].who \subseteq 1..Len(member)
    BY <1>2 DEF StaffInv, StaffTypes
  <2> QED
    BY <1>1, <2>1
<1>3. StaffTypes'
  BY <1>2 DEF StaffTypes
<1> QED
  BY <1>3 DEF StaffInv

\* Some of the people get a role.
WithRole(people, who, role) ==
    [p \in DOMAIN people |-> IF p \in who THEN [people[p] EXCEPT !.role = role] ELSE people[p]]

LEMMA RolesAreSet ==
    ASSUME NEW people \in Seq(PersonRows), NEW who, NEW role \in Roles, NEW more,
           more = WithRole(people, who, role)
    PROVE  /\ more \in Seq(PersonRows) /\ Len(more) = Len(people)
           /\ \A p \in 1..Len(people) : more[p].role = IF p \in who THEN role ELSE people[p].role
           /\ M!Unique(people) => M!Unique(more)
<1>1. /\ Len(people) \in Nat /\ DOMAIN people = 1..Len(people)
      /\ \A p \in 1..Len(people) : people[p] \in PersonRows
  BY ElementsOf
<1>2. ASSUME NEW p \in 1..Len(people)
      PROVE  /\ more[p] \in PersonRows
             /\ more[p].email = people[p].email /\ more[p].account = people[p].account
             /\ more[p].role = IF p \in who THEN role ELSE people[p].role
  <2>1. PICK row \in PersonRows : row = people[p]
    BY <1>1
  <2>2. more[p] = IF p \in who THEN [row EXCEPT !.role = role] ELSE row
    BY <1>1, <2>1 DEF WithRole
  <2>3. /\ [row EXCEPT !.role = role] \in PersonRows /\ [row EXCEPT !.role = role].role = role
        /\ [row EXCEPT !.role = role].email = row.email
        /\ [row EXCEPT !.role = role].account = row.account
    BY DEF PersonRows
  <2> QED
    BY <2>1, <2>2, <2>3
<1>3. more \in [1..Len(people) -> PersonRows]
  BY <1>1, <1>2 DEF WithRole
<1>4. more \in Seq(PersonRows) /\ Len(more) = Len(people)
  BY <1>1, <1>3, SequenceOf
<1> QED
  BY <1>2, <1>4, UniqueStays

LEMMA StaffGrant ==
    ASSUME StaffInv, NEW e \in Emails, NEW given \in {"admin", "owner"}, NEW create \in BOOLEAN,
           M!Grant(e, given, create)
    PROVE  StaffInv'
<1>1. PICK people : people = IF M!Named(e) = {} THEN Append(member, M!NewPerson(M!NoAccount, e))
                             ELSE member
  OBVIOUS
<1>2. member \in Seq(PersonRows) /\ M!Unique(member) /\ given \in Roles
  BY DEF StaffInv, StaffTypes, Roles
<1>3. NoNewOwner(people) /\ M!Unique(people)
  <2>1. CASE M!Named(e) = {}
    <3>1. PICK row : row = M!NewPerson(M!NoAccount, e)
      OBVIOUS
    <3>2. row \in PersonRows /\ row.role = "none" /\ row.account = M!NoAccount /\ row.email = e
      BY <3>1 DEF M!NewPerson, PersonRows, Roles
    <3>3. people = Append(member, row) /\ \A p \in 1..Len(member) : member[p].email # row.email
      BY <1>1, <2>1, <3>1, <3>2, StaffFacts DEF M!Named, M!People
    <3>4. /\ people \in Seq(PersonRows) /\ Len(people) = Len(member) + 1
          /\ \A p \in 1..Len(member) : people[p] = member[p]
          /\ people[Len(member) + 1] = row
      BY <1>2, <3>2, <3>3, OneMore
    <3>5. Len(member) \in Nat /\ \A p \in 1..Len(people) : p \in 1..Len(member) \/ p = Len(member) + 1
      BY <3>4, StaffFacts
    <3>6. NoNewOwner(people)
      BY <3>2, <3>4, <3>5 DEF NoNewOwner
    <3> QED
      BY <1>2, <3>2, <3>3, <3>6, UniqueWithOneMore
  <2>2. CASE M!Named(e) # {}
    BY <1>1, <2>2, SameIsNoNewOwner
  <2> QED
    BY <2>1, <2>2
<1>4. PICK who : who = {p \in DOMAIN people : people[p].email = e}
  OBVIOUS
<1>5. /\ member' = [p \in DOMAIN people |-> IF p \in who THEN [people[p] EXCEPT !.role = given]
                                            ELSE people[p]]
      /\ tangled' = (tangled \/ given = "owner" \/ M!InFlight("owner") # {}) /\ UNCHANGED invitation
  BY <1>1, <1>4 DEF M!Grant
<1>6. PICK more : more = member'
  OBVIOUS
<1>7. /\ more \in Seq(PersonRows) /\ Len(more) = Len(people) /\ M!Unique(more)
      /\ \A p \in 1..Len(people) : more[p].role = IF p \in who THEN given ELSE people[p].role
  <2>1. people \in Seq(PersonRows)
    BY <1>3 DEF NoNewOwner
  <2>2. more = WithRole(people, who, given)
    BY <1>5, <1>6 DEF WithRole
  <2> QED
    BY <1>2, <1>3, <2>1, <2>2, RolesAreSet
<1>8. ASSUME ~tangled'
      PROVE  OwnerIsOne' /\ \A s \in Crossing : invitation'[s].is # "owner"
  <2>1. given = "admin" /\ ~tangled /\ \A s \in Crossing : invitation[s].is # "owner"
    BY <1>5, <1>8 DEF M!InFlight
  <2>2. OwnerIsOne
    BY <2>1 DEF StaffInv
  <2>3. \A p \in 1..Len(more) : more[p].role = "owner" => p \in 1..Len(member) /\ member[p].role = "owner"
    BY <1>3, <1>7, <2>1 DEF NoNewOwner
  <2> QED
    BY <1>5, <1>6, <2>1, <2>2, <2>3 DEF OwnerIsOne
<1>9. /\ tangled' \in BOOLEAN /\ invitation' \in [Crossing -> ReadingRows \cup {M!Idle}]
      /\ Len(member) <= Len(member')
  BY <1>3, <1>5, <1>6, <1>7 DEF StaffInv, StaffTypes, NoNewOwner
<1> QED
  BY <1>5, <1>6, <1>7, <1>8, <1>9, StaffAfter

\* Who is made the owner is the only one: the one the request read before has become admin.
LEMMA StaffSetsOwner ==
    ASSUME StaffInv, NEW r \in Crossing, M!SetsOwner(r)
    PROVE  StaffInv'
<1>1. PICK q \in ReadingRows : q = invitation[r] /\ q.who \subseteq 1..Len(member) /\ q.is = "owner"
  BY IdleIsNoReading DEF M!SetsOwner, M!InFlight, StaffInv, StaffTypes
<1>2. PICK linked, i : linked = M!Linked(q) /\ i = M!Index(q)
  OBVIOUS
<1>3. /\ NoNewOwner(linked) /\ i \in 1..Len(linked)
      /\ q.who = {} => i \notin 1..Len(member)
      /\ q.who # {} => i \in q.who
  BY <1>1, <1>2, LinkedIs
<1>4. PICK people : people = M!Demoted(linked, q.before)
  OBVIOUS
<1>5. /\ people \in Seq(PersonRows) /\ Len(people) = Len(linked)
      /\ \A p \in 1..Len(linked) : people[p].role = IF p \in q.before THEN "admin" ELSE linked[p].role
  <2>1. PICK role \in Roles : role = "admin"
    BY DEF Roles
  <2>2. linked \in Seq(PersonRows)
    BY <1>3 DEF NoNewOwner
  <2>3. people = WithRole(linked, q.before, role)
    BY <1>4, <2>1 DEF M!Demoted, WithRole
  <2> QED
    BY <2>1, <2>2, <2>3, RolesAreSet
<1>6. PICK row : row = [people[i] EXCEPT !.role = IF q.had = "owner" THEN @ ELSE "owner"]
  OBVIOUS
<1>7. people[i] \in PersonRows /\ row \in PersonRows
      /\ row.email = people[i].email /\ row.account = people[i].account
  <2>1. people[i] \in PersonRows
    BY <1>3, <1>5, ElementsOf
  <2>2. PICK role \in Roles : role = IF q.had = "owner" THEN people[i].role ELSE "owner"
    BY <2>1 DEF PersonRows, Roles
  <2>3. row = [people[i] EXCEPT !.role = role]
    BY <1>6, <2>1, <2>2 DEF PersonRows
  <2> QED
    BY <2>1, <2>2, <2>3 DEF PersonRows
<1>8. PICK more : more = [people EXCEPT ![i] = row]
  OBVIOUS
<1>9. /\ more \in Seq(PersonRows) /\ Len(more) = Len(people)
      /\ \A p \in 1..Len(people) : more[p] = IF p = i THEN row ELSE people[p]
  BY <1>3, <1>5, <1>7, <1>8, OneChanged
<1>10. PICK kept \in BOOLEAN :
          kept = (~M!Fits(people) \/ (q.had = "none" /\ people[i].role # "none"))
  OBVIOUS
<1>11. /\ member' = (IF kept THEN member ELSE more) /\ M!Ends(r) /\ UNCHANGED tangled
  <2>1. [people EXCEPT ![i].role = IF q.had = "owner" THEN @ ELSE "owner"] = more
    BY <1>6, <1>8
  <2> QED
    BY <1>1, <1>2, <1>4, <1>10, <2>1 DEF M!SetsOwner
<1>12. /\ invitation' \in [Crossing -> ReadingRows \cup {M!Idle}] /\ invitation'[r] = M!Idle
       /\ \A s \in Crossing \ {r} : invitation'[s] = invitation[s]
  BY <1>11, StaffEnds
<1>13. CASE kept
  BY <1>11, <1>12, <1>13, SameIsNoNewOwner, StaffKept DEF StaffInv, StaffTypes
<1>14. CASE ~kept
  <2>1. member' = more /\ M!Unique(people)
    BY <1>10, <1>11, <1>14 DEF M!Fits
  <2>2. M!Unique(more)
    BY <1>5, <1>7, <1>9, <2>1, UniqueStays
  <2>3. Len(member) <= Len(more)
    BY <1>3, <1>5, <1>9 DEF NoNewOwner
  <2>4. ASSUME ~tangled
        PROVE  /\ \A p \in 1..Len(more) : more[p].role = "owner" => p = i
               /\ \A s \in Crossing : invitation'[s].is # "owner"
    <3>1. /\ KnowsOwner(q)
          /\ \A s \in Crossing : invitation[s].is = "owner" => s = r
      BY <1>1, <2>4 DEF StaffInv
    <3>2. ASSUME NEW p \in 1..Len(more), more[p].role = "owner", p # i
          PROVE  FALSE
      <4>1. people[p].role = "owner" /\ p \in 1..Len(linked)
        BY <1>5, <1>9, <3>2
      <4>2. p \notin q.before /\ linked[p].role = "owner"
        BY <1>5, <4>1
      <4>3. p \in q.who
        BY <1>3, <3>1, <4>1, <4>2 DEF NoNewOwner, KnowsOwner
      <4> QED
        BY <1>3, <3>1, <3>2, <4>3 DEF KnowsOwner
    <3> QED
      BY <1>12, <3>1, <3>2, IdleIsNoReading
  <2>5. ~tangled' => OwnerIsOne' /\ \A s \in Crossing : invitation'[s].is # "owner"
    BY <1>11, <2>1, <2>4 DEF OwnerIsOne
  <2> QED
    BY <1>9, <1>11, <1>12, <2>1, <2>2, <2>3, <2>5, StaffAfter DEF StaffInv, StaffTypes
<1> QED
  BY <1>13, <1>14

LEMMA StaffStart == M!StaffInit => StaffInv
<1> SUFFICES ASSUME M!StaffInit
             PROVE  StaffInv
  OBVIOUS
<1>1. member = <<>> /\ tangled = FALSE /\ \A r \in Crossing : invitation[r] = M!Idle
  BY DEF M!StaffInit
<1>2. member \in Seq(PersonRows) /\ Len(member) = 0 /\ DOMAIN member = {}
  BY <1>1
<1>3. \A r \in Crossing : invitation[r].is # "owner"
  BY <1>1, IdleIsNoReading
<1>4. OwnerIsOne
  BY <1>2 DEF OwnerIsOne
<1>5. StaffTypes
  BY <1>1, <1>2 DEF StaffTypes, M!Unique, M!StaffInit
<1> QED
  BY <1>3, <1>4, <1>5 DEF StaffInv

LEMMA StaffStep == StaffInv /\ M!StaffNext => StaffInv'
<1> SUFFICES ASSUME StaffInv, M!StaffNext
             PROVE  StaffInv'
  OBVIOUS
<1> QED
  BY StaffExchanges, StaffAsksOwner, StaffLogin, StaffSetsOwner, StaffBootstrap, StaffGrant
  DEF M!StaffNext

LEMMA StaffStutter == StaffInv /\ UNCHANGED staffVars => StaffInv'
<1> SUFFICES ASSUME StaffInv, UNCHANGED staffVars
             PROVE  StaffInv'
  OBVIOUS
<1>1. member' = member /\ invitation' = invitation /\ tangled' = tangled
  BY DEF staffVars
<1> QED
  BY <1>1, SameIsNoNewOwner, StaffKept DEF StaffInv, StaffTypes

LEMMA OwnersCount == ASSUME NEW T PROVE M!Cardinality(T) = Cardinality(T)
BY DEF M!Cardinality, Cardinality

LEMMA OneOwnerIsKept ==
    ASSUME StaffInv
    PROVE  M!OneOwner
<1> SUFFICES ASSUME ~tangled
             PROVE  M!Cardinality(M!Owners) <= 1
  BY DEF M!OneOwner
<1>1. \A p, q \in M!Owners : p = q
  BY StaffFacts DEF StaffInv, OwnerIsOne, M!Owners, M!People
<1>2. CASE M!Owners = {}
  BY <1>2, FS_EmptySet, OwnersCount
<1>3. CASE M!Owners # {}
  <2>1. PICK p : M!Owners = {p}
    BY <1>1, <1>3
  <2>2. Cardinality({p}) = 1
    BY FS_Singleton
  <2>3. M!Cardinality(M!Owners) = 1
    BY <2>1, <2>2, OwnersCount
  <2> QED
    BY <2>3
<1> QED
  BY <1>2, <1>3

-----------------------------------------------------------------------------
(* All of them *)

PeopleInv ==
    /\ SignInInv /\ PassInv /\ TokenInv
    /\ PhoneInv /\ LeadInv /\ AddressInv /\ StaffInv

LEMMA PeopleStart == PeopleInit => PeopleInv
BY SignInStart, PassStart, TokenStart, PhoneStart, LeadStart, AddressStart, StaffStart
DEF PeopleInit, PeopleInv

\* At the door and in the register one component moves at most; whoever rests keeps its invariant.
LEMMA DoorStep ==
    ASSUME SignInInv, PassInv, TokenInv, AtTheDoor \/ UNCHANGED doorVars
    PROVE  SignInInv' /\ PassInv' /\ TokenInv'
<1>1. S!SignInNext \/ UNCHANGED signInVars
  BY DEF AtTheDoor, doorVars
<1>2. C!PassNext \/ UNCHANGED passVars
  BY DEF AtTheDoor, doorVars
<1>3. M!TokensNext \/ UNCHANGED <<token, refresh, replayed>>
  BY DEF AtTheDoor, doorVars, tokenVars
<1> QED
  BY <1>1, <1>2, <1>3, SignInStep, SignInStutter, PassStep, PassStutter, TokenStep, TokenStutter

LEMMA RegisterStep ==
    ASSUME PhoneInv, LeadInv, AddressInv, StaffInv, InTheRegister \/ UNCHANGED registerVars
    PROVE  PhoneInv' /\ LeadInv' /\ AddressInv' /\ StaffInv'
<1>1. N!PhonesNext \/ UNCHANGED phoneVars
  BY DEF InTheRegister, registerVars
<1>2. L!GateNext \/ UNCHANGED leadVars
  BY DEF InTheRegister, registerVars
<1>3. A!AddressesNext \/ UNCHANGED addressVars
  BY DEF InTheRegister, registerVars
<1>4. M!StaffNext \/ UNCHANGED staffVars
  BY DEF InTheRegister, registerVars
<1> QED
  BY <1>1, <1>2, <1>3, <1>4, PhoneStep, PhoneStutter, LeadStep, LeadStutter,
     AddressStep, AddressStutter, StaffStep, StaffStutter

LEMMA PeopleStep == PeopleInv /\ [PeopleNext]_peopleVars => PeopleInv'
<1> SUFFICES ASSUME PeopleInv, [PeopleNext]_peopleVars
             PROVE  PeopleInv'
  OBVIOUS
<1>1. AtTheDoor \/ UNCHANGED doorVars
  BY DEF PeopleNext, InTheRegister, peopleVars
<1>2. InTheRegister \/ UNCHANGED registerVars
  BY DEF PeopleNext, AtTheDoor, peopleVars
<1> QED
  BY <1>1, <1>2, DoorStep, RegisterStep DEF PeopleInv

\* Whoever is in has the right of now: a password changed, a session revoked, a token that came back
\* leave nothing open (customers/auth_service, store_pass, identity/service).
THEOREM SessionsEndCorrect == PeopleSpec => []SessionsEnd
<1>1. PeopleInv => SessionsEnd
  BY SignInIsHeld, StoreIsClosed, FamilyIsOver DEF PeopleInv, SessionsEnd
<1> QED
  BY <1>1, PeopleStart, PeopleStep, PTL DEF PeopleSpec

\* A number has one customer, nobody the robot was silent to is lost, a customer has one default
\* address, a store one owner (customers/phones, lead_gate, addresses, ops_tenants).
THEOREM OneOfEachCorrect == PeopleSpec => []OneOfEach
<1>1. PeopleInv => OneOfEach
  BY PhonesAreOwned, TurnedAreReleasable, OneDefaultIsKept, OneOwnerIsKept DEF PeopleInv, OneOfEach
<1> QED
  BY <1>1, PeopleStart, PeopleStep, PTL DEF PeopleSpec
=============================================================================
