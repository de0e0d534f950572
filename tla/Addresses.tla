------------------------------- MODULE Addresses -------------------------------
(***************************************************************************)
(* The delivery addresses a customer keeps in one store (AddressService,   *)
(* customer_addresses).  A request reads the book without a lock, writes,  *)
(* and its writes are seen by others when its transaction commits.         *)
(***************************************************************************)
EXTENDS Naturals, FiniteSets, FiniteSetsExt

CONSTANTS
    Tabs,            \* requests of the one customer
    MAX_ADDRESSES,
    MaxMade          \* bound: addresses ever made

VARIABLES
    book,      \* addresses by the number they were made with: is it the default?
    made,
    tab,       \* what each request has read and written so far
    crossed    \* a request wrote while another had read the book

addressVars == <<book, made, tab, crossed>>

Idle == [does |-> "nothing"]
Defaults == {a \in DOMAIN book : book[a]}

-----------------------------------------------------------------------------
\* `create` counts, `update` and `delete` find the address (one that is gone is not found) ...
Reads(t, what) ==
    /\ tab[t] = Idle
    /\ what.does = "create" => made < MaxMade /\ Cardinality(DOMAIN book) < MAX_ADDRESSES
    /\ tab' = [tab EXCEPT ![t] = [what EXCEPT !.mark = IF what.does = "create" THEN DOMAIN book = {}
                                                      ELSE book[what.id]]]
    /\ UNCHANGED <<book, made, crossed>>

\* ... a new default takes the mark from those seen with it (`_clear_default`); the first address
\* is the default whatever was asked, and a plain update never takes the mark away ...
IsDefault(k) == k.default \/ (k.does = "create" /\ k.mark)
Cleared(k) == IF IsDefault(k) THEN Defaults ELSE {}
Writes(t) ==
    /\ tab[t].does # "nothing" /\ ~tab[t].wrote
    /\ tab' = [tab EXCEPT ![t].wrote = TRUE, ![t].cleared = Cleared(tab[t])]
    /\ UNCHANGED <<book, made, crossed>>

\* ... and it is committed.  Deleting the default one passes the mark to the oldest that is left.
Without(b, gone) == [a \in DOMAIN b \ gone |-> b[a]]
Heir(b) == IF DOMAIN b = {} \/ TRUE \in {b[a] : a \in DOMAIN b} THEN {} ELSE {Min(DOMAIN b)}
Marked(b, on, off) == [a \in DOMAIN b |-> a \in on \/ (b[a] /\ a \notin off)]
Passed_Never(k, b) == b                                          \* mutant: the mark is lost
Passed(k, b) == IF k.mark THEN Marked(b, Heir(b), {}) ELSE b
After(k) ==
    CASE k.does = "create" ->
            LET all == [a \in DOMAIN book \cup {made + 1} |-> IF a = made + 1 THEN IsDefault(k) ELSE book[a]]
            IN  Marked(all, {}, k.cleared)
      [] k.does = "update" -> Marked(book, IF k.default THEN {k.id} ELSE {}, k.cleared)
      [] OTHER             -> Passed(k, Without(book, {k.id}))
Commits(t) ==
    LET k == tab[t]
    IN  /\ k.does # "nothing" /\ k.wrote
        /\ k.does # "create" => k.id \in DOMAIN book
        /\ book' = After(k)
        /\ made' = IF k.does = "create" THEN made + 1 ELSE made
        /\ crossed' = (crossed \/ \E u \in Tabs \ {t} : tab[u] # Idle)
        /\ tab' = [tab EXCEPT ![t] = Idle]

\* An address deleted meanwhile is not found at the flush: the request fails.
Fails(t) ==
    /\ tab[t].does \in {"update", "delete"} /\ tab[t].id \notin DOMAIN book
    /\ tab' = [tab EXCEPT ![t] = Idle]
    /\ UNCHANGED <<book, made, crossed>>

Asked == [does : {"create"}, id : {0}, default : BOOLEAN, mark : {FALSE}, wrote : {FALSE}, cleared : {{}}]
         \cup [does : {"update", "delete"}, id : DOMAIN book, default : BOOLEAN, mark : {FALSE},
               wrote : {FALSE}, cleared : {{}}]

AddressesInit == book = <<>> /\ made = 0 /\ tab = [t \in Tabs |-> Idle] /\ crossed = FALSE
AddressesNext ==
    \E t \in Tabs : (\E what \in Asked : Reads(t, what)) \/ Writes(t) \/ Commits(t) \/ Fails(t)

-----------------------------------------------------------------------------
\* A book with addresses has exactly one default, and no more than the limit, as long as the
\* customer's requests come one after another: checkout proposes it without asking.
OneIsTheDefault ==
    ~crossed => /\ Cardinality(Defaults) = IF DOMAIN book = {} THEN 0 ELSE 1
                /\ Cardinality(DOMAIN book) <= MAX_ADDRESSES
=============================================================================
