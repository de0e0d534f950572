-------------------------------- MODULE Domains --------------------------------
(***************************************************************************)
(* The storefront hosts of one store (TenantService and the two jobs of    *)
(* workers/tasks): a host is registered, proven and watched by looking it  *)
(* up in the DNS, switched off, and promoted to be the canonical one.      *)
(*                                                                         *)
(* A check reads the row, asks the DNS without a lock, and writes what     *)
(* changed from what it read.  A promotion locks the store's row, but the  *)
(* hosts were loaded before (Tenant.domains, lazy "selectin") and the      *)
(* query after the lock returns those objects as they were.  The edge      *)
(* serves the hosts that are active; its cache and TLS are left out.       *)
(***************************************************************************)
EXTENDS Naturals, FiniteSets

CONSTANTS Hosts, Platform,   \* the store's hosts; the one it was born with
          Checkers,          \* jobs and buttons that check a host at the same time
          Promoters,         \* requests that promote one
          MaxCustom,         \* MAX_CUSTOM_DOMAINS
          MaxFailures,       \* failed checks that take an active host out
          MaxFaults,         \* failing look-ups (model bound)
          NoHost

VARIABLES row,      \* per host: status, role, whether it was proven, failed checks in a row
          zone,     \* per host: its TXT has the token; its A or CNAME points at the edge
          checker,  \* per checker: what it does, its host and the row it read
          promoter, \* per request: its host, and the roles it loaded
          faults

domainsVars == <<row, zone, checker, promoter, faults>>

TO_VERIFY == {"pending_dns", "verifying", "verified"}
Unregistered == [status |-> "none", role |-> "alias", verified |-> FALSE, failed |-> 0]
Idle == [job |-> "idle", host |-> NoHost, seen |-> Unregistered]
NoPromotion == [host |-> NoHost, seen |-> [h \in Hosts |-> "alias"]]
Registered(h) == row[h].status # "none"
Primaries == {h \in Hosts : row[h].role = "primary"}

-----------------------------------------------------------------------------
(* The panel, and the owner's DNS *)

Register(h) ==
    /\ ~Registered(h)
    /\ Cardinality({g \in Hosts \ {Platform} : row[g].status \notin {"none", "disabled"}}) < MaxCustom
    /\ row' = [row EXCEPT ![h].status = "pending_dns"]
    /\ UNCHANGED <<zone, checker, promoter, faults>>

\* The host the store was born with and the canonical one stay.
Disable(h) ==
    /\ Registered(h) /\ h # Platform /\ row[h].role # "primary"
    /\ row' = [row EXCEPT ![h].status = "disabled"]
    /\ UNCHANGED <<zone, checker, promoter, faults>>

EditsZone(h) ==
    /\ h # Platform /\ \E txt, target \in BOOLEAN : zone' = [zone EXCEPT ![h] = [txt |-> txt, target |-> target]]
    /\ zone' # zone
    /\ UNCHANGED <<row, checker, promoter, faults>>

-----------------------------------------------------------------------------
(* Checks: a round of the job or the button, and the watch over active hosts *)

ToVerify_Unproven(h) == row[h].status \in {"pending_dns", "verifying"}        \* mutant
ToVerify(h) == row[h].status \in TO_VERIFY
ToRecheck(h) == row[h].status = "active" /\ h # Platform

Starts(c, h, job) ==
    /\ checker[c].job = "idle"
    /\ checker' = [checker EXCEPT ![c] = [job |-> job, host |-> h, seen |-> row[h]]]
    /\ UNCHANGED <<row, zone, promoter, faults>>
JobVerifies(c, h) == ToVerify(h) /\ Starts(c, h, "verify")
VerifiesNow(c, h) == h # Platform /\ row[h].status \notin {"none", "disabled"} /\ Starts(c, h, "verify")
Rechecks(c, h) == ToRecheck(h) /\ Starts(c, h, "recheck")

\* The columns a check leaves as it read them are not written.
Write(now, seen, new) ==
    [now EXCEPT !.status = IF new.status = seen.status THEN @ ELSE new.status,
                !.verified = IF new.verified = seen.verified THEN @ ELSE new.verified,
                !.failed = IF new.failed = seen.failed THEN @ ELSE new.failed]

\* `verify_domain`: proven once; then the target decides.  Without proof it fails after some days.
Verified(seen, txt, target, old) ==
    LET owned == seen.verified \/ txt
        status == IF owned THEN IF target THEN "active" ELSE "verified"
                  ELSE IF old THEN "failed"
                  ELSE IF seen.status = "pending_dns" THEN "verifying" ELSE seen.status
    IN  [seen EXCEPT !.status = status, !.verified = owned,
                     !.failed = IF status = "active" THEN 0 ELSE @]

\* `recheck_active_domain`: some failures in a row take the host out of the edge.  They are
\* counted as far as it matters; for our own host they are counted only, which is left out.
Rechecked(seen, target) ==
    IF target THEN [seen EXCEPT !.failed = 0]
    ELSE [seen EXCEPT !.failed = IF @ < MaxFailures THEN @ + 1 ELSE @,
                      !.status = IF seen.failed + 1 >= MaxFailures THEN "verifying" ELSE @]

\* What was looked up, or nothing when the look-up fails.
Ends(c) ==
    LET h == checker[c].host
        seen == checker[c].seen
        Checks(txt, target) ==
            \E old \in BOOLEAN :
                row' = [row EXCEPT ![h] = Write(@, seen,
                           IF checker[c].job = "verify" THEN Verified(seen, txt, target, old)
                           ELSE Rechecked(seen, target))]
    IN  /\ checker[c].job # "idle"
        /\ \/ Checks(zone[h].txt, zone[h].target) /\ UNCHANGED faults
           \/ faults < MaxFaults /\ faults' = faults + 1 /\ Checks(FALSE, FALSE)
        /\ checker' = [checker EXCEPT ![c] = Idle]
        /\ UNCHANGED <<zone, promoter>>

-----------------------------------------------------------------------------
(* `set_primary_domain` *)

Loads(p, h) ==
    /\ promoter[p] = NoPromotion
    /\ row[h].status = "active" /\ row[h].role # "primary"
    /\ promoter' = [promoter EXCEPT ![p] = [host |-> h, seen |-> [g \in Hosts |-> row[g].role]]]
    /\ UNCHANGED <<row, zone, checker, faults>>

\* Under the lock: the primary of now, but as it was loaded, becomes an alias.  With two of them
\* the query fails and nothing is done.
Demotes(seen, g) == seen[g] # "alias"     \* otherwise nothing is seen to change
Promotes(p) ==
    LET h == promoter[p].host
        seen == promoter[p].seen
    IN  /\ h # NoHost
        /\ IF Cardinality(Primaries) > 1 THEN UNCHANGED row
           ELSE row' = [g \in Hosts |->
                    IF g = h THEN [row[g] EXCEPT !.role = "primary"]
                    ELSE IF g \in Primaries /\ Demotes(seen, g) THEN [row[g] EXCEPT !.role = "alias"]
                    ELSE row[g]]
        /\ promoter' = [promoter EXCEPT ![p] = NoPromotion]
        /\ UNCHANGED <<zone, checker, faults>>

-----------------------------------------------------------------------------
DomainsInit ==
    /\ row = [h \in Hosts |-> IF h = Platform THEN [status |-> "active", role |-> "primary",
                                                    verified |-> TRUE, failed |-> 0]
                              ELSE Unregistered]
    /\ zone = [h \in Hosts |-> [txt |-> h = Platform, target |-> h = Platform]]
    /\ checker = [c \in Checkers |-> Idle]
    /\ promoter = [p \in Promoters |-> NoPromotion]
    /\ faults = 0

DomainsNext ==
    \/ \E h \in Hosts : \/ Register(h) \/ Disable(h) \/ EditsZone(h)
                        \/ \E c \in Checkers : JobVerifies(c, h) \/ VerifiesNow(c, h) \/ Rechecks(c, h)
                        \/ \E p \in Promoters : Loads(p, h)
    \/ \E c \in Checkers : Ends(c)
    \/ \E p \in Promoters : Promotes(p)

\* Both jobs come round to every host they list, and a look-up ends.
DomainsFair ==
    /\ \A h \in Hosts : /\ SF_domainsVars(\E c \in Checkers : JobVerifies(c, h))
                        /\ SF_domainsVars(\E c \in Checkers : Rechecks(c, h))
    /\ \A c \in Checkers : WF_domainsVars(Ends(c))

DomainsSpec == DomainsInit /\ [][DomainsNext]_domainsVars /\ DomainsFair

-----------------------------------------------------------------------------
\* The edge follows the owner's DNS.  A host that is proven and points at us comes to be served and
\* stays so, and one that points elsewhere is taken out, whatever checks cross and whichever
\* look-ups fail: unless it is switched off, or gave up waiting for its proof.
EdgeFollowsZone ==
    \A h \in Hosts \ {Platform} :
        /\ <>[](zone[h].txt /\ zone[h].target /\ Registered(h)) => <>[](row[h].status \in {"active", "disabled", "failed"})
        /\ <>[](~zone[h].target) => <>[](row[h].status # "active")

\* tenancy/service.py, set_primary_domain: "two promotions at once must not leave two primaries."
OnePrimary == Cardinality(Primaries) <= 1
=============================================================================
