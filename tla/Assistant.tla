------------------------------- MODULE Assistant -------------------------------
(***************************************************************************)
(* What an assistant does in a store for its owner (internal_agent): an    *)
(* action is first planned - the effect it would have now, which the owner *)
(* reads - and applied when it comes back with the signature of that       *)
(* effect (agent/plans), recomputed.  Nothing is kept of a plan, and a     *)
(* confirmation can be sent again.  Meanwhile orders move, units are sold, *)
(* the panel works.  A behaviour follows an order, a balance or a product. *)
(*                                                                         *)
(* An order is locked before its effect is recomputed; a balance and a     *)
(* product are only read.  Apart from that: the codes and credentials that *)
(* let an assistant in.                                                    *)
(***************************************************************************)
EXTENDS OrderMachine, Integers, FiniteSets, Sequences

CONSTANTS
    Calls,           \* requests in flight
    MaxStock, MaxVersion, MaxApplied, MaxCodes, MaxLinks   \* bounds

VARIABLES
    about,           \* what is followed
    thing,           \* what is there: status of the order, units, whether the product is paused
    version,         \* of the order
    plans,           \* the effects that were shown and can be confirmed, any number of times
    call,            \* the plan each confirmation in flight was accepted for
    applied,         \* what was done: the plan, and what it was done to
    crossed,         \* the balance changed while a confirmation of it was in flight
    codes,           \* given out: kind, used or not, still in time or not
    links,           \* credentials, oldest first: kind, from which code (0: of an own store), revoked?
    redeemer,        \* the code that each request in flight has looked up, 0 when it has none
    doubled          \* a code was redeemed twice at the same time

assistantVars == <<about, thing, version, plans, call, applied, crossed>>
linksVars == <<codes, links, redeemer, doubled>>

NoPlan == <<>>

\* The effect of an action on what is there now, from which the summary is written.
Effect(from, to) == [from |-> from, to |-> to, version |-> version]
Shifted(plan) == thing + plan.to - plan.from
Now(plan) == Effect(thing, IF about = "stock" THEN Shifted(plan) ELSE plan.to)

\* `_next_steps`, and the refusals of `move_stock` and `_pause`.
Moves(who, to) == Allowed(thing, to, who, "delivery", FALSE, "accepted")
Possible(plan) ==
    CASE about = "order" -> Moves("operator", plan.to)
      [] about = "stock" -> plan.to \in 0..MaxStock
      [] OTHER           -> plan.to # thing

-----------------------------------------------------------------------------
\* `_pending`: without a confirmation, the effect is shown and nothing is done.
Plans(to) ==
    /\ Possible(Effect(thing, to))
    /\ plans' = plans \cup {Effect(thing, to)} /\ plans' # plans
    /\ UNCHANGED <<about, thing, version, call, applied, crossed>>

\* `_authorized`: what would be done now is what was read.
Authorized_ByAct(plan) == Possible(Now(plan))              \* mutant: the action, not its effect
Authorized(plan) == Possible(Now(plan)) /\ Now(plan) = plan

Done(plan) ==
    /\ Len(applied) < MaxApplied
    /\ applied' = Append(applied, [plan |-> plan, from |-> thing])
    /\ thing' = Now(plan).to

\* `advance_order` holds the order from its reading to the commit.
AdvanceOrder(plan) ==
    /\ about = "order" /\ Authorized(plan)
    /\ Done(plan)
    /\ version' = version + 1
    /\ UNCHANGED <<about, plans, call, crossed>>

\* `move_stock`, `_pause`: the effect is recomputed on what was read ...
Confirms(c, plan) ==
    /\ about # "order" /\ Authorized(plan)
    /\ call[c] = NoPlan
    /\ call' = [call EXCEPT ![c] = <<plan>>]
    /\ UNCHANGED <<about, thing, version, plans, applied, crossed>>
\* ... and done to what is there by then: the balance is locked and moved by as much
\* (inventory/service, `adjust`), unless less than nothing would be left; the product is paused or
\* sold again, if it is not yet (catalog/service).
InFlight(others) == about = "stock" /\ \E c \in others : call[c] # NoPlan
Applies(c) ==
    /\ call[c] # NoPlan
    /\ call' = [call EXCEPT ![c] = NoPlan]
    /\ \/ /\ Possible(Now(call[c][1]))
          /\ Done(call[c][1])
          /\ crossed' = (crossed \/ InFlight(Calls \ {c}))
       \/ /\ ~Possible(Now(call[c][1]))
          /\ UNCHANGED <<thing, applied, crossed>>
    /\ UNCHANGED <<about, version, plans>>

\* The rest of the store: an order that moves, units that are sold or come in, the panel.
Else(to) ==
    /\ IF about = "order" THEN version < MaxVersion /\ \E who \in ActorKind : Moves(who, to)
       ELSE Possible(Effect(thing, to))
    /\ thing' = to
    /\ version' = IF about = "order" THEN version + 1 ELSE version
    /\ crossed' = (crossed \/ InFlight(Calls))
    /\ UNCHANGED <<about, plans, call, applied>>

AssistantInit ==
    /\ \/ about = "order" /\ thing = "payment_confirmed"
       \/ about = "stock" /\ thing = 1
       \/ about = "product" /\ thing = FALSE
    /\ version = 1 /\ plans = {}
    /\ call = [c \in Calls |-> NoPlan]
    /\ applied = <<>> /\ crossed = FALSE

Targets == CASE about = "order" -> OrderStatus
             [] about = "stock" -> {thing - 1, thing + 1}
             [] OTHER           -> {~thing}

AssistantNext ==
    \/ \E to \in Targets : Plans(to) \/ Else(to)
    \/ \E plan \in plans : AdvanceOrder(plan) \/ \E c \in Calls : Confirms(c, plan)
    \/ \E c \in Calls : Applies(c)

-----------------------------------------------------------------------------
\* The assistant did what the owner had read, to what the owner had read it of: what moved in
\* between is refused.  A balance that changes while a confirmation of it is being looked at
\* escapes the signature.
DoneAsRead == crossed \/ \A i \in DOMAIN applied : applied[i].from = applied[i].plan.from
\* An order is moved once by each plan that was read, however often it is confirmed.
OrderMovedOnce ==
    about = "order" =>
        \A i, j \in DOMAIN applied : applied[i].plan = applied[j].plan => i = j

-----------------------------------------------------------------------------
(* How it comes to act in the store (agent/service, agent/links): the store gives out a code, the  *)
(* platform changes it for a credential, the store takes the credential back.                     *)

Kinds == {"sales", "operator"}

\* `issue`: the codes before stay good.
IssueCode(kind) ==
    /\ Len(codes) < MaxCodes
    /\ codes' = Append(codes, [kind |-> kind, used |-> FALSE, live |-> TRUE])
    /\ UNCHANGED <<links, redeemer, doubled>>
CodeExpires(i) ==
    /\ codes[i].live
    /\ codes' = [codes EXCEPT ![i].live = FALSE]
    /\ UNCHANGED <<links, redeemer, doubled>>

\* `redeem`: the code is looked up ...
Redeems(c, i) ==
    /\ redeemer[c] = 0
    /\ codes[i].live /\ ~codes[i].used
    /\ redeemer' = [redeemer EXCEPT ![c] = i]
    /\ UNCHANGED <<codes, links, doubled>>
\* ... and spent, with the credential it was changed for.
Spent_Later(i) == codes                                    \* mutant
Spent(i) == [codes EXCEPT ![i].used = TRUE]
Redeemed(c) ==
    LET i == redeemer[c]
    IN  /\ i # 0 /\ Len(links) < MaxLinks
        /\ links' = Append(links, [kind |-> codes[i].kind, code |-> i, revoked |-> FALSE])
        /\ codes' = Spent(i)
        /\ doubled' = (doubled \/ codes[i].used)
        /\ redeemer' = [redeemer EXCEPT ![c] = 0]

\* `link_own_store`: who manages the store needs no code.
LinkOwn(kind) ==
    /\ Len(links) < MaxLinks
    /\ links' = Append(links, [kind |-> kind, code |-> 0, revoked |-> FALSE])
    /\ UNCHANGED <<codes, redeemer, doubled>>

\* `revoke`
Revoke(l) ==
    /\ ~links[l].revoked
    /\ links' = [links EXCEPT ![l].revoked = TRUE]
    /\ UNCHANGED <<codes, redeemer, doubled>>

LinksInit ==
    /\ codes = <<>> /\ links = <<>> /\ doubled = FALSE
    /\ redeemer = [c \in Calls |-> 0]
LinksNext ==
    \/ \E kind \in Kinds : IssueCode(kind) \/ LinkOwn(kind)
    \/ \E i \in DOMAIN codes : CodeExpires(i) \/ \E c \in Calls : Redeems(c, i)
    \/ \E l \in DOMAIN links : Revoke(l)
    \/ \E c \in Calls : Redeemed(c)

-----------------------------------------------------------------------------
\* A code gives one credential, of the kind it was given out for, unless two requests redeem it at
\* the same time.
CodeOpensOnce ==
    doubled \/ \A i, j \in DOMAIN links : links[i].code # 0 /\ links[i].code = links[j].code => i = j
=============================================================================
