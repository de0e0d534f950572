--------------------------------- MODULE Stores ---------------------------------
(***************************************************************************)
(* Stores sold by the MuhBianco catalog (provisioning/): a purchase is     *)
(* `reserve`, the debit, which is the catalog's, and `activate`, or        *)
(* `release` when the debit fails; an hourly sweep archives reservations   *)
(* the catalog never came back for.  Every call is keyed by the purchase   *)
(* and repeated when its answer is lost.  The operator changes statuses    *)
(* beside.                                                                 *)
(*                                                                         *)
(* Each call is one transaction; slugs, hostnames and subscription_ref are *)
(* unique in the database.  Owners, settings and the grace period are left *)
(* out; what a hostname goes through is in Domains.                        *)
(***************************************************************************)
EXTENDS Naturals, FiniteSets

CONSTANTS Purchases, StoreIds,
          Wants,       \* slug and own hostname (or None) of each purchase
          MaxFaults,   \* answers lost, and crashes of the catalog (model bound)
          None

VARIABLES store,    \* per id: status, purchase that pays for it, slug, own hostname, older than a day
          phase,    \* how far the catalog is with each purchase
          touched,  \* purchases whose store the operator moved by hand
          faults

storesVars == <<store, phase, touched, faults>>

NoStore == [status |-> "none", ref |-> None, slug |-> None, host |-> None, aged |-> FALSE]
Of(p) == {s \in StoreIds : store[s].ref = p}
SlugTaken(slug) == \E s \in StoreIds : store[s].slug = slug
Fault == faults < MaxFaults /\ faults' = faults + 1

-----------------------------------------------------------------------------
(* Statuses *)

TenantStatus == {"draft", "provisioning", "active", "suspended", "archived"}
Allowed == {<<"draft", "provisioning">>, <<"draft", "active">>, <<"draft", "archived">>,
            <<"provisioning", "active">>, <<"provisioning", "draft">>, <<"active", "suspended">>,
            <<"suspended", "active">>, <<"suspended", "archived">>}

\* The operator, from the admin of the site.
SetStatus(s, to) ==
    /\ <<store[s].status, to>> \in Allowed
    /\ store' = [store EXCEPT ![s].status = to]
    /\ touched' = touched \cup {store[s].ref}
    /\ UNCHANGED <<phase, faults>>

-----------------------------------------------------------------------------
(* The calls.  An answer moves the catalog on; a lost one leaves it to call again. *)

Answered(p, to) ==
    \/ phase' = [phase EXCEPT ![p] = to] /\ UNCHANGED faults
    \/ Fault /\ UNCHANGED phase

\* A hostname is free when no row has it, or a store that is archived has: that row is taken over.
HostFree(p) == LET holders == {s \in StoreIds : store[s].host = Wants[p].host}
               IN  Wants[p].host = None \/ \A s \in holders : store[s].status = "archived"
Without(st, host) == [s \in StoreIds |-> IF host # None /\ st[s].host = host THEN [st[s] EXCEPT !.host = None] ELSE st[s]]

\* `reserve`: adopts the store of an earlier try; otherwise 409, or a draft that holds slug and host.
Adopts(p) ==
    /\ phase[p] = "reserving"
    /\ \E s \in Of(p) :
         IF store[s].host = Wants[p].host \/ HostFree(p)
         THEN /\ store' = [Without(store, Wants[p].host) EXCEPT ![s].host = Wants[p].host]
              /\ Answered(p, "reserved")
         ELSE UNCHANGED store /\ Answered(p, "refused")
    /\ UNCHANGED touched
Reserves(p) ==
    /\ phase[p] = "reserving" /\ Of(p) = {}
    /\ IF SlugTaken(Wants[p].slug) \/ ~HostFree(p)
       THEN UNCHANGED store /\ Answered(p, "refused")
       ELSE /\ \E s \in StoreIds :
                 /\ store[s].status = "none" /\ \A t \in StoreIds : t < s => store[t].status # "none"
                 /\ store' = [Without(store, Wants[p].host) EXCEPT ![s] =
                       [status |-> "draft", ref |-> p, slug |-> Wants[p].slug, host |-> Wants[p].host,
                        aged |-> FALSE]]
            /\ Answered(p, "reserved")
    /\ UNCHANGED touched

\* `activate`, idempotent; 404 without a store, 409 in another status.
Activate(p) ==
    /\ phase[p] \in {"paid", "resuming"}
    /\ LET open == {s \in Of(p) : store[s].status \in {"draft", "active", "suspended"}}
       IN  IF open = {} THEN UNCHANGED store /\ Answered(p, "stuck")
           ELSE /\ store' = [s \in StoreIds |-> IF s \in open THEN [store[s] EXCEPT !.status = "active"]
                                                ELSE store[s]]
                /\ Answered(p, "live")
    /\ UNCHANGED touched

\* `_archive_reservation`: the row stays, archived; slug, hostname and purchase are let go.
Parked_KeepsSlug(st) == [st EXCEPT !.status = "archived", !.ref = None, !.host = None]    \* mutant
Parked(st) == [st EXCEPT !.status = "archived", !.ref = None, !.host = None, !.slug = None]
Release(p) ==
    /\ phase[p] = "declined"
    /\ IF \E s \in Of(p) : store[s].status # "draft"
       THEN UNCHANGED store /\ Answered(p, "stuck")
       ELSE /\ store' = [s \in StoreIds |-> IF s \in Of(p) THEN Parked(store[s]) ELSE store[s]]
            /\ Answered(p, "over")
    /\ UNCHANGED touched

\* `set_billing_state`: a renewal fails, and is paid later.
Suspends(p) ==
    /\ phase[p] = "live"
    /\ LET ours == Of(p)
       IN  /\ \A s \in ours : store[s].status \in {"draft", "active", "suspended"}
           /\ store' = [s \in StoreIds |-> IF s \in ours /\ store[s].status = "active"
                                           THEN [store[s] EXCEPT !.status = "suspended"] ELSE store[s]]
    /\ Answered(p, "owing")
    /\ UNCHANGED touched
Resumes(p) ==
    /\ phase[p] = "owing" /\ phase' = [phase EXCEPT ![p] = "resuming"]
    /\ UNCHANGED <<store, touched, faults>>

-----------------------------------------------------------------------------
(* The catalog *)

Buys(p) ==
    /\ phase[p] = "none" /\ phase' = [phase EXCEPT ![p] = "reserving"]
    /\ UNCHANGED <<store, touched, faults>>
Debits(p) ==
    /\ phase[p] = "reserved"
    /\ \E to \in {"paid", "declined"} : phase' = [phase EXCEPT ![p] = to]
    /\ UNCHANGED <<store, touched, faults>>

\* It dies before the debit, or after one that failed; the buyer tries again, within the day.
Crashes(p) ==
    /\ phase[p] \in {"reserving", "reserved", "declined"} /\ Fault
    /\ phase' = [phase EXCEPT ![p] = "forgotten"]
    /\ UNCHANGED <<store, touched>>
TriesAgain(p) ==
    /\ phase[p] = "forgotten" /\ \A s \in Of(p) : ~store[s].aged
    /\ phase' = [phase EXCEPT ![p] = "reserving"]
    /\ UNCHANGED <<store, touched, faults>>

-----------------------------------------------------------------------------
(* The sweep *)

\* A purchase that goes on takes less than a day.
DayPasses(s) ==
    /\ store[s].status # "none" /\ ~store[s].aged
    /\ store[s].ref # None => phase[store[s].ref] \notin {"reserving", "reserved", "declined", "paid"}
    /\ store' = [store EXCEPT ![s].aged = TRUE]
    /\ UNCHANGED <<phase, touched, faults>>

Sweeps(s) ==
    /\ store[s].status = "draft" /\ store[s].ref # None /\ store[s].aged
    /\ store' = [store EXCEPT ![s] = Parked(@)]
    /\ UNCHANGED <<phase, touched, faults>>

-----------------------------------------------------------------------------
StoresInit ==
    /\ store = [s \in StoreIds |-> NoStore]
    /\ phase = [p \in Purchases |-> "none"]
    /\ touched = {} /\ faults = 0

Calls(p) == Adopts(p) \/ Reserves(p) \/ Debits(p) \/ Activate(p) \/ Release(p)
StoresNext ==
    \/ \E p \in Purchases : \/ Buys(p) \/ Adopts(p) \/ Reserves(p) \/ Debits(p) \/ Activate(p) \/ Release(p)
                            \/ Suspends(p) \/ Resumes(p) \/ Crashes(p) \/ TriesAgain(p)
    \/ \E s \in StoreIds : \/ DayPasses(s) \/ Sweeps(s)
                           \/ \E to \in TenantStatus : SetStatus(s, to)

\* The catalog goes on with a purchase it has, days pass, the sweep comes round.
StoresFair ==
    /\ \A p \in Purchases : WF_storesVars(Calls(p))
    /\ \A s \in StoreIds : WF_storesVars(DayPasses(s)) /\ WF_storesVars(Sweeps(s))

StoresSpec == StoresInit /\ [][StoresNext]_storesVars /\ StoresFair

-----------------------------------------------------------------------------
Serves(p) == /\ phase[p] \in {"live", "owing", "resuming"}
             /\ \E s \in Of(p) : store[s].status \in {"active", "suspended"} /\ store[s].slug = Wants[p].slug
NothingIsHeld == \A s \in StoreIds : store[s].slug # None => store[s].ref # None
LetGo(p) == phase[p] \in {"refused", "over", "forgotten"} /\ Of(p) = {} /\ NothingIsHeld

\* A purchase ends with the store the buyer pays for, or with nothing held for it: whatever answer
\* is lost and whenever the catalog dies.  Where the operator moved the store, it is his.
PurchaseSettles ==
    \A p \in Purchases : phase[p] = "reserving" ~> (Serves(p) \/ LetGo(p) \/ p \in touched)
=============================================================================
