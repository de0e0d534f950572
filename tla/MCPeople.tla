-------------------------------- MODULE MCPeople --------------------------------
(***************************************************************************)
(* Who people are: customers who sign in, the password of a closed store,  *)
(* the numbers they write from and the leads of a conversation, their      *)
(* addresses; the people of the panel and their sessions.  Each assumes of *)
(* the others what its module says of them, so a behaviour follows one of  *)
(* them, in focus, while the others rest where they start: every behaviour *)
(* of each is there, their product is not.                                 *)
(***************************************************************************)
EXTENDS Naturals, Sequences, FiniteSets, TLC

CONSTANTS Crossing,    \* requests that may cross
          Team,        \* MuhBianco accounts of the people of the panel
          Browsers, LinksPerHour, MaxFlows, MaxSessions,        \* who signs in
          Visitors, MaxSaves,                                   \* who sees a closed store
          Customers, Numbers, LinksPerWindow,                   \* who confirms a number
          Buyers, Leads, Lines,                                 \* who writes, from which numbers
          MaxAddresses, MaxMade,                                \* the book of one customer
          Emails, MaxPeople, SignedIn, MaxTokens                \* who is in the panel

ASSUME PeopleAssumption == MaxAddresses \in Nat /\ "no_account" \notin Team

VARIABLES focus,
          account, links, hits, flows, sessions, era, cookie, visit,
          setting, secret, cache, visitor, clerk, saves, overtaken,
          token, expired, purged, refresh, replayed,
          holder, challenges, claim, disputed,
          lead, seen, access, turned,
          book, made, tab, muddled,
          member, invitation, tangled

signInVars == <<account, links, hits, flows, sessions, era, cookie, visit>>
passVars == <<setting, secret, cache, visitor, clerk, saves, overtaken>>
tokenVars == <<token, expired, purged, refresh, replayed>>
phoneVars == <<holder, challenges, claim, disputed>>
leadVars == <<lead, seen, access, turned>>
addressVars == <<book, made, tab, muddled>>
staffVars == <<member, invitation, tangled>>
doorVars == <<signInVars, passVars, tokenVars>>
registerVars == <<phoneVars, leadVars, addressVars, staffVars>>
peopleVars == <<focus, doorVars, registerVars>>

S == INSTANCE SignIn WITH Tabs <- Browsers, LINKS_PER_HOUR <- LinksPerHour
C == INSTANCE StorePass WITH Clerks <- Crossing, crossed <- overtaken
N == INSTANCE Phones WITH Accounts <- Customers, Requests <- Crossing,
                          MAX_PER_WINDOW <- LinksPerWindow, request <- claim, crossed <- disputed
L == INSTANCE LeadGate WITH Accounts <- Buyers, Numbers <- Lines, person <- lead
A == INSTANCE Addresses WITH Tabs <- Crossing, MAX_ADDRESSES <- MaxAddresses, crossed <- muddled
M == INSTANCE Staff WITH Requests <- Crossing, Accounts <- Team, person <- member,
                         request <- invitation
Alike == Permutations(Crossing) \cup Permutations(Team)

PeopleInit ==
    /\ focus \in {"signin", "pass", "token", "phone", "lead", "address", "staff"}
    /\ S!SignInInit /\ C!PassInit /\ M!TokensInit
    /\ N!PhonesInit /\ L!GateInit /\ A!AddressesInit /\ M!StaffInit

AtTheDoor ==
    /\ UNCHANGED registerVars
    /\ \/ focus = "signin" /\ S!SignInNext /\ UNCHANGED <<passVars, tokenVars>>
       \/ focus = "pass" /\ C!PassNext /\ UNCHANGED <<signInVars, tokenVars>>
       \/ focus = "token" /\ M!TokensNext /\ UNCHANGED <<signInVars, passVars>>
InTheRegister ==
    /\ UNCHANGED doorVars
    /\ \/ focus = "phone" /\ N!PhonesNext /\ UNCHANGED <<leadVars, addressVars, staffVars>>
       \/ focus = "lead" /\ L!GateNext /\ UNCHANGED <<phoneVars, addressVars, staffVars>>
       \/ focus = "address" /\ A!AddressesNext /\ UNCHANGED <<phoneVars, leadVars, staffVars>>
       \/ focus = "staff" /\ M!StaffNext /\ UNCHANGED <<phoneVars, leadVars, addressVars>>
PeopleNext == UNCHANGED focus /\ (AtTheDoor \/ InTheRegister)

PeopleSpec == PeopleInit /\ [][PeopleNext]_peopleVars

-----------------------------------------------------------------------------
\* Whoever is in has the right of now: a password changed, a session revoked, a token that came back
\* leave nothing open (customers/auth_service, store_pass, identity/service).
SessionsEnd ==
    /\ focus = "signin" => S!SignInHolds
    /\ focus = "pass" => C!ClosedToOthers
    /\ focus = "token" => M!FamilyEnds
\* A number has one customer, nobody the robot was silent to is lost, a customer has one default
\* address, a store one owner (customers/phones, lead_gate, addresses, ops_tenants).
OneOfEach ==
    /\ focus = "phone" => N!NumberHasOneOwner /\ N!NewestLinkOnly
    /\ focus = "lead" => L!TurnedCanBeReleased
    /\ focus = "address" => A!OneIsTheDefault
    /\ focus = "staff" => M!OneOwner
=============================================================================
