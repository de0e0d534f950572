------------------------------- MODULE StorePass -------------------------------
(***************************************************************************)
(* Who sees a closed store: the rule of access (customers/access, api/deps)*)
(* over what the panel saved of it, the password that the store passes     *)
(* around (admin_modules) and the pass a visitor gets for it               *)
(* (customers/store_pass).  The panel reads the settings, and writes them  *)
(* whole, without a lock; the storefront reads them from a cache that each *)
(* saving empties before its transaction commits (tenancy/resolver).       *)
(***************************************************************************)
EXTENDS Naturals

CONSTANTS
    Visitors,
    Clerks,          \* requests of the panel
    MaxSaves         \* bound: times the panel saves

VARIABLES
    setting,   \* what is stored: access mode, whether there is a password and its version
    secret,    \* the password, every change another; 0 when there is none
    cache,     \* the settings as the storefront knows them
    visitor,   \* who each one is signed in as, and its pass: version, and the password typed for it
    clerk,     \* what each request of the panel has read and is about to write
    saves,
    crossed    \* one was decided on settings that another then wrote

passVars == <<setting, secret, cache, visitor, clerk, saves, crossed>>

AccessMode == {"public", "login_required", "whitelist"}
Statuses == {"nobody", "no_row", "pending", "approved", "blocked"}
NoCache == [mode |-> "unknown"]
NoPass == [version |-> 0, typed |-> 0]
Resting == [does |-> "nothing"]

\* `resolve_by_host`
Known == IF cache = NoCache THEN setting ELSE cache

\* `is_valid`, and `check_catalog_access` (an unknown mode is the closed one).
PassIsValid(pass, s) == s.protected /\ pass.version = s.version /\ pass.typed # 0
Sees(v, s) ==
    \/ s.mode = "public"
    \/ /\ visitor[v].status # "blocked"
       /\ \/ PassIsValid(visitor[v].pass, s)
          \/ s.mode = "login_required" /\ visitor[v].status # "nobody"
          \/ visitor[v].status = "approved"

-----------------------------------------------------------------------------
\* `update_access_mode`, `set_store_password`, `delete_store_password`: what is stored is read ...
Reads(c, does) ==
    /\ clerk[c] = Resting /\ saves < MaxSaves
    /\ clerk' = [clerk EXCEPT ![c] = [does |-> does, id |-> saves + 1, read |-> setting, late |-> FALSE]]
    /\ saves' = saves + 1
    /\ UNCHANGED <<setting, secret, cache, visitor, crossed>>

\* ... written with what changes (`_bump_password` raises the version), the cache emptied ...
Bumped_New(s) == IF s.protected THEN s.version ELSE s.version + 1      \* mutant: only the first one
Bumped(s) == s.version + 1
Forgets(c) ==
    /\ clerk[c].does # "nothing"
    /\ cache' = NoCache
    /\ UNCHANGED <<setting, secret, visitor, clerk, saves, crossed>>
\* ... and committed.
Commits(c) ==
    LET k == clerk[c]
    IN  /\ k.does # "nothing"
        /\ setting' = IF k.does \in AccessMode THEN [k.read EXCEPT !.mode = k.does]
                      ELSE [k.read EXCEPT !.protected = (k.does = "set"), !.version = Bumped(k.read)]
        /\ secret' = CASE k.does = "set"    -> k.id
                       [] k.does = "remove" -> 0
                       [] OTHER             -> secret
        /\ clerk' = [d \in Clerks |-> IF d = c THEN Resting
                                      ELSE IF clerk[d] = Resting THEN Resting
                                      ELSE [clerk[d] EXCEPT !.late = TRUE]]
        /\ crossed' = (crossed \/ k.late)
        /\ UNCHANGED <<cache, visitor, saves>>

-----------------------------------------------------------------------------
\* A page of the store is asked for, and its settings stay in the cache until its time is over.
Caches == cache = NoCache /\ cache' = setting /\ UNCHANGED <<setting, secret, visitor, clerk, saves, crossed>>
Expires == cache # NoCache /\ cache' = NoCache /\ UNCHANGED <<setting, secret, visitor, clerk, saves, crossed>>

\* `enter_with_store_password`: the password is compared with the stored one, the pass has the
\* version the storefront knows.
Enters(v) ==
    /\ Known.mode # "public" /\ Known.protected
    /\ secret # 0
    /\ visitor' = [visitor EXCEPT ![v].pass = [version |-> Known.version, typed |-> secret]]
    /\ UNCHANGED <<setting, secret, cache, clerk, saves, crossed>>

\* Somebody signs in, asks for access, or the store decides (SignIn, LeadGate).
Becomes(v, status) ==
    /\ visitor' = [visitor EXCEPT ![v].status = status]
    /\ UNCHANGED <<setting, secret, cache, clerk, saves, crossed>>

PassInit ==
    /\ setting = [mode |-> "whitelist", protected |-> FALSE, version |-> 0]
    /\ secret = 0 /\ cache = NoCache
    /\ visitor = [v \in Visitors |-> [status |-> "nobody", pass |-> NoPass]]
    /\ clerk = [c \in Clerks |-> Resting]
    /\ saves = 0 /\ crossed = FALSE

PassNext ==
    \/ \E c \in Clerks : \/ \E does \in AccessMode \cup {"set", "remove"} : Reads(c, does)
                         \/ Forgets(c) \/ Commits(c)
    \/ Caches \/ Expires
    \/ \E v \in Visitors : Enters(v) \/ \E s \in Statuses : Becomes(v, s)

-----------------------------------------------------------------------------
\* Once the storefront knows what is stored, a closed store is seen by whom it let in, or by who
\* typed the password of now: one that was changed or taken away opens nothing, though the pass was
\* never taken back.  Two savings that cross can bring an old version back.
ClosedToOthers ==
    ~crossed /\ Known = setting /\ setting.mode # "public" =>
        \A v \in {w \in Visitors : Sees(w, Known)} :
            /\ visitor[v].status # "blocked"
            /\ \/ visitor[v].status = "approved"
               \/ setting.mode = "login_required" /\ visitor[v].status # "nobody"
               \/ visitor[v].pass.typed = secret
=============================================================================
