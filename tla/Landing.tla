-------------------------------- MODULE Landing --------------------------------
(***************************************************************************)
(* The storefront proposals of one store in one month: the quota that pays *)
(* for them (LandingQuotaService), their generation by workers that hold   *)
(* no transaction while the model writes (landing/generation), the sweeper *)
(* of stuck ones, and their publication, in which at most one is on air    *)
(* and can be taken back (LandingDraftService).                            *)
(*                                                                         *)
(* The page of a proposal is named by the proposal, the hand-made page is  *)
(* 0.  What a model writes, repairs and validates is one outcome: a page   *)
(* or a failure.                                                           *)
(***************************************************************************)
EXTENDS Naturals, FiniteSets

CONSTANTS MaxDrafts, Workers, Clerks,
          Limit,          \* proposals of a month
          MaxInFlight,    \* MAX_IN_FLIGHT
          Kept,           \* landing_drafts_kept
          KeptPublished,  \* KEEP_PUBLISHED
          MaxFaults       \* dead or slow workers, tasks delivered twice (model bound)

VARIABLES draft,   \* status; whether it was shown; what was on air when it was published
          used,    \* LandingGenerationUsage.used
          asked,   \* clerks whose request found room and waits for the quota's row
          tasks,   \* generation tasks in the queue
          worker,  \* the proposal each worker is at, 0 for none
          site,    \* the page on air, and whether it was edited by hand since
          slow     \* faults: generations that ran twice or outlived the sweeper

landingVars == <<draft, used, asked, tasks, worker, site, slow>>
Drafts == 1..MaxDrafts
HandMade == [page |-> 0, edited |-> FALSE]
Published == {"applied", "superseded", "reverted"}
Publishable == {"ready", "superseded", "reverted", "discarded"}
InFlight == {d \in Drafts : draft[d].status \in {"queued", "running"}}
Live == {d \in Drafts : draft[d].status = "applied"}
New(d) == draft[d].status = "none" /\ \A e \in 1..(d - 1) : draft[e].status # "none"
Spend == slow < MaxFaults /\ slow' = slow + 1

-----------------------------------------------------------------------------
(* Asking *)

\* `_enqueue` counts the proposals in flight without a lock ...
Asks(c) ==
    /\ c \notin asked /\ Cardinality(InFlight) < MaxInFlight
    /\ asked' = asked \cup {c}
    /\ UNCHANGED <<draft, used, tasks, worker, site, slow>>

\* ... then takes a unit under the lock of the month's row, or is refused.
HasQuota == used < Limit
Reserves(c, d) ==
    /\ c \in asked /\ asked' = asked \ {c}
    /\ IF HasQuota
       THEN /\ New(d)
            /\ used' = used + 1
            /\ draft' = [draft EXCEPT ![d].status = "queued"]
            /\ tasks' = tasks \cup {d}
       ELSE UNCHANGED <<used, draft, tasks>>
    /\ UNCHANGED <<worker, site, slow>>

Released_Never == used        \* mutant: the sweeper keeps the unit
Released == IF used > 0 THEN used - 1 ELSE 0

-----------------------------------------------------------------------------
(* Generating *)

\* `_claim`: a task whose proposal is not queued is dropped.
Claims(w, d) ==
    /\ worker[w] = 0 /\ d \in tasks
    /\ \/ tasks' = tasks \ {d} /\ UNCHANGED slow
       \/ Spend /\ UNCHANGED tasks                      \* it will be delivered again
    /\ \/ /\ draft[d].status = "queued"
          /\ draft' = [draft EXCEPT ![d].status = "running"]
          /\ worker' = [worker EXCEPT ![w] = d]
       \/ /\ draft[d].status # "queued"
          /\ UNCHANGED <<draft, worker>>
    /\ UNCHANGED <<used, asked, site>>

\* Two workers read the queued proposal before either commits.
ClaimsToo(w, v) ==
    /\ worker[w] = 0 /\ worker[v] # 0 /\ worker[v] \in tasks /\ Spend
    /\ tasks' = tasks \ {worker[v]}
    /\ worker' = [worker EXCEPT ![w] = worker[v]]
    /\ UNCHANGED <<draft, used, asked, site>>

\* `_prune`: the newest resolved proposals stay, and of the others the newest published ones and
\* the one on air.
Newest(S, n) == {d \in S : Cardinality({e \in S : e > d}) < n}
Spared(r) ==
    LET resolved == {d \in Drafts : r[d].status \notin {"none", "queued", "running", "deleted"}}
    IN  Newest(resolved, Kept)
            \cup Newest({d \in resolved : r[d].status \in Published}, KeptPublished)
            \cup {d \in resolved : r[d].status = "applied"}
Pruned(r) ==
    [d \in Drafts |-> IF r[d].status \in {"none", "queued", "running"} \/ d \in Spared(r)
                      THEN r[d] ELSE [r[d] EXCEPT !.status = "deleted"]]

\* `_ready`, over whatever the proposal is by now.
Writes(w) ==
    LET d == worker[w]
    IN  /\ d # 0 /\ worker' = [worker EXCEPT ![w] = 0]
        /\ draft' = IF draft[d].status = "deleted" THEN draft
                    ELSE Pruned([draft EXCEPT ![d].status = "ready", ![d].shown = TRUE])
        /\ UNCHANGED <<used, asked, tasks, site, slow>>

\* `_fail`: the unit goes back.
GivesUp(w) ==
    LET d == worker[w]
    IN  /\ d # 0 /\ worker' = [worker EXCEPT ![w] = 0]
        /\ IF draft[d].status = "deleted" THEN UNCHANGED <<draft, used>>
           ELSE /\ draft' = [draft EXCEPT ![d].status = "failed"]
                /\ used' = IF used > 0 THEN used - 1 ELSE 0
        /\ UNCHANGED <<asked, tasks, site, slow>>

\* The proposal stays running; the task is not tried again.
Dies(w) ==
    /\ worker[w] # 0 /\ worker' = [worker EXCEPT ![w] = 0]
    /\ UNCHANGED <<draft, used, asked, tasks, site, slow>>

\* `sweep_stuck_drafts`, after ten minutes.
Sweeps(d) ==
    /\ draft[d].status = "running"
    /\ IF \A w \in Workers : worker[w] # d THEN UNCHANGED slow ELSE Spend
    /\ draft' = [draft EXCEPT ![d].status = "failed"]
    /\ used' = Released
    /\ UNCHANGED <<asked, tasks, worker, site>>

-----------------------------------------------------------------------------
(* Publishing *)

Apply(d) ==
    /\ draft[d].status \in Publishable /\ draft[d].shown
    /\ draft' = [e \in Drafts |->
          IF e = d THEN [draft[d] EXCEPT !.status = "applied", !.before = site, !.live = Live]
          ELSE IF e \in Live THEN [draft[e] EXCEPT !.status = "superseded"] ELSE draft[e]]
    /\ site' = [page |-> d, edited |-> FALSE]
    /\ UNCHANGED <<used, asked, tasks, worker, slow>>

\* The page goes back to what it was; the proposal that was on air then is on air again, if it
\* is still where that publication left it.
Back(e) == draft[e].status = "superseded"
Restored(d) == draft[d].before
Revert(d) ==
    /\ draft[d].status = "applied"
    /\ draft' = [e \in Drafts |->
          IF e = d THEN [draft[d] EXCEPT !.status = "reverted"]
          ELSE IF e \in draft[d].live /\ Back(e) THEN [draft[e] EXCEPT !.status = "applied"]
          ELSE draft[e]]
    /\ site' = Restored(d)
    /\ UNCHANGED <<used, asked, tasks, worker, slow>>

Discard(d) ==
    /\ draft[d].status = "ready"
    /\ draft' = [draft EXCEPT ![d].status = "discarded"]
    /\ UNCHANGED <<used, asked, tasks, worker, site, slow>>

\* The editor writes the page of the site.
EditByHand ==
    /\ ~site.edited
    /\ site' = [page |-> 0, edited |-> TRUE]
    /\ UNCHANGED <<draft, used, asked, tasks, worker, slow>>

-----------------------------------------------------------------------------
LandingInit ==
    /\ draft = [d \in Drafts |-> [status |-> "none", shown |-> FALSE, before |-> HandMade, live |-> {}]]
    /\ used = 0 /\ asked = {} /\ tasks = {} /\ slow = 0
    /\ worker = [w \in Workers |-> 0]
    /\ site = HandMade

LandingNext ==
    \/ \E c \in Clerks : Asks(c) \/ \E d \in Drafts : Reserves(c, d)
    \/ \E w \in Workers : \/ \E d \in Drafts : Claims(w, d)
                          \/ \E v \in Workers \ {w} : ClaimsToo(w, v)
                          \/ Writes(w) \/ GivesUp(w) \/ Dies(w)
    \/ \E d \in Drafts : Sweeps(d) \/ Apply(d) \/ Revert(d) \/ Discard(d)
    \/ EditByHand

LandingSpec == LandingInit /\ [][LandingNext]_landingVars

-----------------------------------------------------------------------------
\* The store is charged for the proposals it was shown or waits for, never for a failed or stuck
\* one, whatever workers died; exactly for them, unless a generation ran twice or past its ten
\* minutes, which may make one free.
QuotaIsFair ==
    LET charged == {d \in InFlight : TRUE} \cup {d \in Drafts : draft[d].shown}
    IN  used <= Cardinality(charged) /\ (slow = 0 => used = Cardinality(charged))

\* At most one proposal is on air, through any order of publications, republications and returns:
\* the page is its own until it is edited by hand.
LiveIsOnAir ==
    /\ Cardinality(Live) <= 1
    /\ \A d \in Live : site.page = d \/ site.edited
=============================================================================
