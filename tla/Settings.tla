------------------------------- MODULE Settings -------------------------------
(***************************************************************************)
(* What the owner sets up in the panel and other things rely on: the       *)
(* modules of the store and its payment providers.                         *)
(*                                                                         *)
(* Modules (tenancy/modules): the owner switches his on and off, several   *)
(* in one request, and a module needs others to be on.  A request reads    *)
(* the flags, decides and writes the ones it was asked for, without a      *)
(* lock.  The paid ones follow the subscription.  One module of each sort  *)
(* stands for its like: what needs nothing, what needs others and is       *)
(* itself needed, what is always on, what is paid for.                     *)
(*                                                                         *)
(* Providers: what the owner saves of each (PaymentConfigService), what    *)
(* each still lacks and what is offered to who pays (payments/registry).   *)
(* A request reads the provider's row without a lock, the ORM writes the   *)
(* fields that differ from what it read, and the row is locked from then   *)
(* to the commit.                                                          *)
(***************************************************************************)
EXTENDS FiniteSets, Naturals

CONSTANTS
    Owners,          \* requests of the panel
    MaxFlags,        \* flags in one request (model bound)
    Providers,
    Secretive,       \* those that need a secret
    Open,            \* those that need something public: a key, a handle
    MaxSaves         \* bound: times the owner saves a provider

VARIABLES
    enabled,   \* modules that are on
    request,   \* per request: what it switches on and off, having been accepted
    crossed,   \* one was decided on flags that another then wrote
    config,    \* what is stored of each provider
    secret,    \* the providers that have their secret: a new one replaces it, none is taken away
    flag,      \* the providers the platform switched on for the store
    owner,     \* what each request has read and is about to write
    saves,
    overtaken  \* a request wrote while another had read

modulesVars == <<enabled, request, crossed>>
setupVars == <<config, secret, flag, owner, saves, overtaken>>

-----------------------------------------------------------------------------
(* Modules *)

MODULES == {"catalog", "customer_login", "checkout", "coupons", "chatwoot"}
SELF_SERVICE == MODULES \ {"chatwoot"}
ALWAYS_ON == {"customer_login"}
DEFAULTS == {"catalog", "customer_login", "checkout", "coupons"}
Requires == [m \in MODULES |->
    CASE m = "checkout" -> {"catalog", "customer_login"}
      [] m = "coupons" -> {"checkout"}
      [] OTHER -> {}]
Dependents(m) == {d \in MODULES : m \in Requires[d]}

NoRequest == [on |-> {}, off |-> {}]

\* `set_self_service_features`: decided on the flags as they will be.
Effective_Stored(on, off) == enabled                                       \* mutant
Effective(on, off) == (enabled \cup on) \ off
Accepted(on, off) ==
    /\ (on \cup off) \subseteq SELF_SERVICE
    /\ off \cap ALWAYS_ON = {}
    /\ \A m \in on : Requires[m] \subseteq Effective(on, off)
    /\ \A m \in off : Dependents(m) \cap Effective(on, off) = {}

Asks(r, on, off) ==
    /\ request[r] = NoRequest
    /\ Accepted(on, off)
    /\ request' = [request EXCEPT ![r] = [on |-> on, off |-> off]]
    /\ UNCHANGED <<enabled, crossed>>

\* `set_features`
SetFeatures(r) ==
    /\ request[r] # NoRequest
    /\ enabled' = (enabled \cup request[r].on) \ request[r].off
    /\ request' = [request EXCEPT ![r] = NoRequest]
    /\ crossed' = (crossed \/ \E q \in Owners \ {r} : request[q] # NoRequest)

\* `_set_chatwoot_module`: the purchase of a service, or its end.
SetPaid(on) ==
    /\ enabled' = (enabled \cap SELF_SERVICE) \cup on
    /\ UNCHANGED <<request, crossed>>

ModulesInit ==
    /\ enabled = DEFAULTS
    /\ request = [r \in Owners |-> NoRequest]
    /\ crossed = FALSE

ModulesNext ==
    \/ \E r \in Owners, on, off \in SUBSET SELF_SERVICE :
         /\ on \cap off = {} /\ Cardinality(on \cup off) \in 1..MaxFlags
         /\ Asks(r, on, off)
    \/ \E r \in Owners : SetFeatures(r)
    \/ \E on \in SUBSET (MODULES \ SELF_SERVICE) : SetPaid(on)

ModulesSpec == ModulesInit /\ [][ModulesNext]_modulesVars

\* Whatever requests switch on and off together, a store does not end with a module on and one it
\* needs off.  Two requests decided at the same time can get there, and are excepted.
ModulesFit == ~crossed => \A m \in enabled : Requires[m] \subseteq enabled

-----------------------------------------------------------------------------
(* Payment providers *)

Idle == [at |-> "idle"]
NoRow == [enabled |-> FALSE, default |-> FALSE, public |-> FALSE]

\* `missing_setup`, on the row and the secrets a transaction sees.
Missing(p, row, secrets) == (p \in Secretive /\ p \notin secrets) \/ (p \in Open /\ ~row.public)

\* `options_for`: what is lacking is looked at again when somebody pays.
OptionsFor_Enabled ==                                                    \* mutant: it is trusted
    {p \in flag : config[p].enabled}
OptionsFor == {p \in flag : config[p].enabled /\ ~Missing(p, config[p], secret)}

\* `save`: the row is read ...
Reads(o, p, row, renewed) ==
    /\ owner[o] = Idle /\ saves < MaxSaves /\ p \in flag /\ (renewed => p \in Secretive)
    /\ owner' = [owner EXCEPT ![o] = [at |-> "read", provider |-> p, read |-> config[p], row |-> row,
                                      new |-> IF renewed THEN {p} ELSE {}, others |-> {}]]
    /\ saves' = saves + 1
    /\ UNCHANGED <<config, secret, flag, overtaken>>

Locked == {owner[o].provider : o \in {x \in Owners : owner[x].at = "wrote"}}

\* ... written, and refused if it is to be enabled and something is missing; as the default, the
\* others that are seen with the mark will lose it ...
Writes(o) ==
    LET k == owner[o]
        p == k.provider
        refused == k.row.enabled /\ Missing(p, k.row, secret \cup k.new)
    IN  /\ k.at = "read" /\ p \notin Locked
        /\ owner' = [owner EXCEPT ![o] =
              IF refused THEN Idle
              ELSE [k EXCEPT !.at = "wrote",
                             !.others = IF k.row.default THEN {q \in Providers \ {p} : config[q].default}
                                        ELSE {}]]
        /\ UNCHANGED <<config, secret, flag, saves, overtaken>>

\* ... and committed: a field saved as it was read is not written, whatever another wrote of it.
NetChange(now, read, row) == [f \in DOMAIN row |-> IF row[f] # read[f] THEN row[f] ELSE now[f]]
Commits(o) ==
    LET k == owner[o]
    IN  /\ k.at = "wrote" /\ k.others \cap Locked = {}
        /\ config' = [p \in Providers |->
              IF p = k.provider THEN NetChange(config[p], k.read, k.row)
              ELSE IF p \in k.others THEN [config[p] EXCEPT !.default = FALSE]
              ELSE config[p]]
        /\ secret' = secret \cup k.new
        /\ owner' = [owner EXCEPT ![o] = Idle]
        /\ overtaken' = (overtaken \/ \E u \in Owners \ {o} : owner[u] # Idle)
        /\ UNCHANGED <<flag, saves>>

\* Two that wait for one another's row: the database undoes one.
Undone(o) ==
    /\ owner[o].at = "wrote" /\ owner[o].others \cap Locked # {}
    /\ owner' = [owner EXCEPT ![o] = Idle]
    /\ UNCHANGED <<config, secret, flag, saves, overtaken>>

\* The platform switches a provider on or off for the store.
Switches(p) ==
    /\ flag' = IF p \in flag THEN flag \ {p} ELSE flag \cup {p}
    /\ UNCHANGED <<config, secret, owner, saves, overtaken>>

SetupInit ==
    /\ config = [p \in Providers |-> NoRow] /\ secret = {} /\ flag = Providers
    /\ owner = [o \in Owners |-> Idle] /\ saves = 0 /\ overtaken = FALSE

SetupNext ==
    \/ \E o \in Owners :
          \/ \E p \in Providers, row \in [enabled : BOOLEAN, default : BOOLEAN, public : BOOLEAN],
                renewed \in BOOLEAN : Reads(o, p, row, renewed)
          \/ Writes(o) \/ Commits(o) \/ Undone(o)
    \/ \E p \in Providers : Switches(p)

\* Who pays is never offered a provider that lacks something, though two saves that cross can leave
\* one enabled without it; and one save after another leaves one default, and nothing enabled that
\* lacks something.
OfferedIsComplete ==
    /\ \A p \in OptionsFor : ~Missing(p, config[p], secret)
    /\ ~overtaken => /\ Cardinality({p \in Providers : config[p].default}) <= 1
                   /\ \A p \in Providers : config[p].enabled => ~Missing(p, config[p], secret)
=============================================================================
