--------------------------------- MODULE Staff ---------------------------------
(***************************************************************************)
(* The people of the panel (identity/service.py): how the MuhBianco        *)
(* account that signs in finds its person, and who owns the store          *)
(* (ops_tenants.py, cli.py).  Every request reads without a lock what it   *)
(* decides on, and writes later: two of them may cross.  One store.        *)
(* And their sessions, which share nothing with that: refresh tokens.      *)
(***************************************************************************)
EXTENDS Naturals, FiniteSets, Sequences

CONSTANTS
    Requests,     \* requests in flight
    Accounts,     \* the accounts of the site
    Emails,
    MaxPeople,    \* bound: people of the panel
    SignedIn,     \* people who signed in, with the sessions they have
    MaxTokens     \* bound: refresh tokens issued

VARIABLES
    person,       \* the people of the panel, oldest first, with their role in the store
    request,      \* what each request in flight has read
    token,        \* refresh tokens, oldest first
    expired, purged,   \* of the oldest tokens, how many expired and how many were deleted
    refresh,      \* what each refresh in flight has read
    \* observed only
    tangled,      \* an owner was set by hand, or by two requests that crossed
    replayed      \* sign-ins of a person one of whose tokens came back after its rotation

staffVars == <<person, request, tangled>>
tokenVars == <<token, expired, purged, refresh, replayed>>

NoAccount == "no_account"
Idle == [is |-> "idle"]
People == DOMAIN person
Owners == {p \in People : person[p].role = "owner"}
InFlight(kind) == {r \in Requests : request[r].is = kind}

-----------------------------------------------------------------------------
\* Who the account is: found by its id, then by an e-mail that nobody else took over.
Tied(a) == {p \in People : person[p].account = a}
Named(e) == {p \in People : person[p].email = e}
Found(a, e) == IF Tied(a) # {} THEN Tied(a) ELSE Named(e)
Refused(a, e, verified) ==
    Tied(a) = {} /\ \E p \in Named(e) : person[p].account # NoAccount \/ ~verified

\* `_link_account`, `ensure_account_user` read; `moves`: the e-mail follows the account's.
Reading(kind, a, e, admin, before, had) ==
    [is |-> kind, account |-> a, email |-> e, who |-> Found(a, e),
     moves |-> kind # "owner" /\ Tied(a) # {} /\ Named(e) = {},
     admin |-> admin, before |-> before, had |-> had]
NewPerson(a, e) == [account |-> a, email |-> e, admin |-> FALSE, role |-> "none"]
Index(q) == IF q.who = {} THEN Len(person) + 1 ELSE CHOOSE p \in q.who : TRUE
Linked(q) ==
    IF q.who = {} THEN Append(person, NewPerson(q.account, q.email))
    ELSE [person EXCEPT ![Index(q)].account = q.account,
                        ![Index(q)].email = IF q.moves THEN q.email ELSE @]

\* The unique columns: the later of two that insert, tie or rename the same is refused.
Unique(people) ==
    \A p, q \in DOMAIN people : p # q =>
        people[p].email # people[q].email
        /\ (people[p].account = NoAccount \/ people[p].account # people[q].account)
Fits(people) == Unique(people) /\ Len(people) <= MaxPeople

Ends(r) == request' = [request EXCEPT ![r] = Idle]

-----------------------------------------------------------------------------
\* `sso_exchange`: the site answers who it is, and whether it runs MuhBianco.
Exchanges(r, a, e, verified, admin, panel) ==
    /\ request[r] = Idle
    /\ ~Refused(a, e, verified) /\ (panel \/ admin)
    /\ request' = [request EXCEPT ![r] =
            Reading(IF panel THEN "panel" ELSE "site", a, e, admin, {}, "none")]
    /\ UNCHANGED <<person, tangled>>

\* `login_with_account`: the platform role follows the account, and its session is in StaffTokens.
LoginWithAccount(r) ==
    /\ r \in InFlight("panel") \cup InFlight("site") /\ Ends(r)
    /\ LET q == request[r] people == [Linked(q) EXCEPT ![Index(q)].admin = q.admin]
       IN person' = IF Fits(people) THEN people ELSE person
    /\ UNCHANGED tangled

-----------------------------------------------------------------------------
\* `set_owner`: "One owner per store"; the one before becomes admin.
AsksOwner(r, a, e) ==
    /\ request[r] = Idle /\ ~Refused(a, e, TRUE)
    /\ LET who == Found(a, e)
       IN request' = [request EXCEPT ![r] =
            Reading("owner", a, e, FALSE, Owners \ who,
                    IF who = {} THEN "none" ELSE person[CHOOSE p \in who : TRUE].role)]
    /\ tangled' = (tangled \/ InFlight("owner") # {})
    /\ UNCHANGED person

\* A bug: an owner before who also runs the platform keeps the store.
Demoted_Members(people, before) ==
    [p \in DOMAIN people |-> IF p \in before /\ ~people[p].admin
                             THEN [people[p] EXCEPT !.role = "admin"] ELSE people[p]]
Demoted(people, before) ==
    [p \in DOMAIN people |-> IF p \in before THEN [people[p] EXCEPT !.role = "admin"] ELSE people[p]]
SetsOwner(r) ==
    /\ r \in InFlight("owner") /\ Ends(r)
    /\ LET q == request[r] people == Demoted(Linked(q), q.before) p == Index(q)
           twice == q.had = "none" /\ people[p].role # "none"   \* uq_tenant_memberships_user
       IN person' = IF ~Fits(people) \/ twice THEN person
                    ELSE [people EXCEPT ![p].role = IF q.had = "owner" THEN @ ELSE "owner"]
    /\ UNCHANGED tangled

\* `admin bootstrap`: the first superadmin; an e-mail that exists is left untouched.
Bootstrap(e) ==
    /\ Named(e) = {} /\ Len(person) < MaxPeople
    /\ person' = Append(person, [NewPerson(NoAccount, e) EXCEPT !.admin = TRUE])
    /\ UNCHANGED <<request, tangled>>

\* `admin grant`: a role in the store for who has the e-mail, created if asked.
Grant(e, given, create) ==
    LET people == IF Named(e) = {} THEN Append(person, NewPerson(NoAccount, e))
                  ELSE person
    IN /\ Named(e) # {} \/ create
       /\ Len(people) <= MaxPeople
       /\ person' = [p \in DOMAIN people |->
                        IF people[p].email = e THEN [people[p] EXCEPT !.role = given] ELSE people[p]]
       /\ tangled' = (tangled \/ given = "owner" \/ InFlight("owner") # {})
       /\ UNCHANGED request

-----------------------------------------------------------------------------
StaffInit ==
    /\ person = <<>>
    /\ request = [r \in Requests |-> Idle]
    /\ tangled = FALSE

StaffNext ==
    \/ \E r \in Requests, a \in Accounts, e \in Emails :
          \/ \E verified, admin, panel \in BOOLEAN : Exchanges(r, a, e, verified, admin, panel)
          \/ AsksOwner(r, a, e)
    \/ \E r \in Requests : LoginWithAccount(r) \/ SetsOwner(r)
    \/ \E e \in Emails : Bootstrap(e) \/ \E given \in {"admin", "owner"}, create \in BOOLEAN :
                                            Grant(e, given, create)

-----------------------------------------------------------------------------
\* The store has one owner as long as it is set by one operator at a time (set_owner).
OneOwner == tangled \/ Cardinality(Owners) <= 1

-----------------------------------------------------------------------------
(* The refresh tokens: each use rotates one, and one that comes back after its rotation ends the *)
(* sessions of its person.  The token is read without a lock and rotated later.                   *)

Live == {t \in DOMAIN token : ~token[t].revoked}

\* `_issue`: a sign-in and its rotations are one line.
Issued(p, sign, late) ==
    Append(token, [who |-> p, sign |-> sign, revoked |-> FALSE, late |-> late])
SignsIn(p) ==
    /\ Len(token) < MaxTokens
    /\ token' = Issued(p, Len(token) + 1, FALSE)
    /\ UNCHANGED <<expired, purged, refresh, replayed>>

\* `refresh` reads the token presented, by its hash.
Presents(r, t) ==
    /\ refresh[r] = Idle /\ t > purged
    /\ token[t].revoked \/ t > expired
    /\ refresh' = [refresh EXCEPT ![r] = [is |-> "read", token |-> t, spent |-> token[t].revoked]]
    /\ UNCHANGED <<token, expired, purged, replayed>>

\* ... and rotates it;
Rotates(r) ==
    LET t == refresh[r].token
    IN /\ refresh[r] # Idle /\ ~refresh[r].spent
       /\ Len(token) < MaxTokens
       /\ token' = [Issued(token[t].who, token[t].sign, token[t].sign \in replayed)
                        EXCEPT ![t].revoked = TRUE]
       /\ refresh' = [refresh EXCEPT ![r] = Idle]
       /\ UNCHANGED <<expired, purged, replayed>>

\* A bug: only what the rotated token led to is revoked.
RevokeAll_Line(p) == {t \in Live : \E u \in DOMAIN token :
                        u # t /\ token[u].who = p /\ token[u].sign = token[t].sign}

\* ... or, already rotated, it was replayed: `revoke_all_refresh`, committed before the 401.
RevokeAll(p) == {t \in Live : token[t].who = p}
Replayed(r) ==
    LET p == token[refresh[r].token].who
        family == {t \in DOMAIN token : token[t].who = p}
    IN /\ refresh[r] # Idle /\ refresh[r].spent
       /\ token' = [t \in DOMAIN token |->
                        [token[t] EXCEPT !.revoked = @ \/ t \in RevokeAll(p),
                                         !.late = @ /\ t \notin family]]
       /\ replayed' = replayed \cup {token[t].sign : t \in family}
       /\ refresh' = [refresh EXCEPT ![r] = Idle]
       /\ UNCHANGED <<expired, purged>>

\* `logout` revokes the token it is sent.
Logout(t) ==
    /\ t > purged
    /\ token' = [token EXCEPT ![t].revoked = TRUE]
    /\ UNCHANGED <<expired, purged, refresh, replayed>>

\* Time, and `purge_expired_refresh`: a rotated token is kept until it expires.
Expires ==
    /\ expired < Len(token) /\ expired' = expired + 1
    /\ UNCHANGED <<token, purged, refresh, replayed>>
Purge ==
    /\ purged < expired /\ purged' = expired
    /\ \A r \in Requests : refresh[r] # Idle => refresh[r].token > expired
    /\ UNCHANGED <<token, expired, refresh, replayed>>

-----------------------------------------------------------------------------
TokensInit ==
    /\ token = <<>> /\ expired = 0 /\ purged = 0
    /\ refresh = [r \in Requests |-> Idle]
    /\ replayed = {}

TokensNext ==
    \/ \E p \in SignedIn : SignsIn(p)
    \/ \E r \in Requests : Rotates(r) \/ Replayed(r) \/ \E t \in DOMAIN token : Presents(r, t)
    \/ \E t \in DOMAIN token : Logout(t)
    \/ Expires \/ Purge

-----------------------------------------------------------------------------
\* Once a rotated token came back, every session of its person is over: what is left alive of
\* those sign-ins was rotated by a request that had read its token before (refresh).
FamilyEnds == \A t \in Live : token[t].sign \in replayed => token[t].late
=============================================================================
