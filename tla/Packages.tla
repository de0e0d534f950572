------------------------------- MODULE Packages -------------------------------
(***************************************************************************)
(* The packages of a store (shipping/packages) and the products that ask   *)
(* for some of them (catalog/packing): one package is the default, and the *)
(* packing engine takes those a product asks for, else those it may use    *)
(* for anything, else the default (shipping/inputs).                       *)
(*                                                                         *)
(* A request of the panel reads a package, then decides on it and writes;  *)
(* no lock is held in between.  Measures and names are left out.           *)
(***************************************************************************)
EXTENDS Naturals, FiniteSets

CONSTANTS
    Packages, Products, Requests,
    NoPackage,             \* not a package
    MaxPackages            \* MAX_PACKAGES_PER_TENANT

VARIABLES
    package,               \* there or not, active or archived, for any product or not, default or not
    product,               \* packing_mode, and the packages of its rules
    request,               \* what each request of the panel wants, and the package as it read it
    crossed                \* a package was written between the reading and the writing of a request

packagesVars == <<package, product, request, crossed>>

Absent == [there |-> FALSE, active |-> FALSE, auto |-> FALSE, default |-> FALSE]
Kept == {p \in Packages : package[p].there}
Active == {p \in Kept : package[p].active}
Defaults == {p \in Kept : package[p].default}
Idle == [what |-> "none", of |-> NoPackage, row |-> Absent]

\* Another request in flight has read a row that this one changes.
Stale(r) == \E q \in Requests \ {r} :
    request[q] # Idle /\ package'[request[q].of] # package[request[q].of]
Ends(r) == request' = [request EXCEPT ![r] = Idle]

-----------------------------------------------------------------------------
\* `create`: without a default, the new one is it, and active.
Create(p, active, auto) ==
    /\ ~package[p].there /\ Cardinality(Kept) < MaxPackages
    /\ package' = [package EXCEPT ![p] =
           [there |-> TRUE, active |-> active \/ Defaults = {}, auto |-> auto,
            default |-> Defaults = {}]]
    /\ UNCHANGED <<product, request, crossed>>

\* Every request on a package begins by reading it.
Reads(r, p, what) ==
    /\ request[r] = Idle /\ package[p].there
    /\ request' = [request EXCEPT ![r] = [what |-> what, of |-> p, row |-> package[p]]]
    /\ UNCHANGED <<package, product, crossed>>

Refused(r) == Ends(r) /\ UNCHANGED <<package, product, crossed>>
\* What is written: the columns that changed, on a row that may have gone.
Merged(now, before, after) ==
    [c \in DOMAIN now |-> IF after[c] # before[c] THEN after[c] ELSE now[c]]
Written(r, after) ==
    LET p == request[r].of
    IN  IF ~package[p].there THEN Refused(r)
        ELSE /\ package' = [package EXCEPT ![p] = Merged(@, request[r].row, after)]
             /\ crossed' = (crossed \/ Stale(r))
             /\ Ends(r) /\ UNCHANGED product

Other(p) == Active \ {p}

\* `update`, archiving: the default stays while another is active, and loses its mark as the last.
Archived_KeepsMark(row) == [row EXCEPT !.active = FALSE]   \* mutant
Archived(row) == [row EXCEPT !.active = FALSE, !.default = FALSE]
Archive(r) ==
    /\ request[r].what = "archive"
    /\ IF request[r].row.default /\ Other(request[r].of) # {} THEN Refused(r)
       ELSE Written(r, Archived(request[r].row))
\* `update`: brought back, or for any product or not.
Reactivate(r) ==
    /\ request[r].what = "reactivate"
    /\ Written(r, [request[r].row EXCEPT !.active = TRUE])
SetAuto(r) ==
    /\ request[r].what = "auto"
    /\ Written(r, [request[r].row EXCEPT !.auto = ~@])

\* `make_default`: the mark leaves the package that has it by then, and comes to this one; UNIQUE
\* lets no two have it.
MakeDefault(r) ==
    LET p == request[r].of
    IN  /\ request[r].what = "default"
        /\ IF request[r].row.default \/ ~request[r].row.active \/ ~package[p].there THEN Refused(r)
           ELSE /\ package' = [q \in Packages |-> [package[q] EXCEPT !.default = (q = p)]]
                /\ crossed' = (crossed \/ Stale(r))
                /\ Ends(r) /\ UNCHANGED product

\* `delete`: a default with another active stays, and one that a rule names (also a foreign key).
Users(p) == {x \in Products : p \in product[x].rules}
Delete(r) ==
    LET p == request[r].of
    IN  /\ request[r].what = "delete"
        /\ IF (request[r].row.default /\ Other(p) # {}) \/ Users(p) # {} THEN Refused(r)
           ELSE /\ package' = [package EXCEPT ![p] = Absent]
                /\ crossed' = (crossed \/ Stale(r))
                /\ Ends(r) /\ UNCHANGED product

\* `check_packing`, `replace_package_rules`: a product restricted to some packages names an active one.
Packed(x, mode, rules) ==
    /\ rules \subseteq Kept
    /\ mode = "restricted" => rules \cap Active # {}
    /\ product[x] # [mode |-> mode, rules |-> rules]
    /\ product' = [product EXCEPT ![x] = [mode |-> mode, rules |-> rules]]
    /\ UNCHANGED <<package, request, crossed>>

\* `_allowed`: the packages the engine may put a product in.
Auto == {p \in Active : package[p].auto}
Automatic == IF Auto # {} THEN Auto ELSE Defaults \cap Active
AllowedFor(x) ==
    IF product[x].mode = "restricted" /\ product[x].rules \cap Active # {}
    THEN product[x].rules \cap Active ELSE Automatic

\* A store starts without packages, or with those of its former settings (migration 0037): the
\* default, for any product, and one for the product that had asked for it.
PackagesInit ==
    /\ package \in
           {[p \in Packages |-> Absent]}
      \cup {[p \in Packages |->
                IF p = a THEN [there |-> TRUE, active |-> TRUE, auto |-> TRUE, default |-> TRUE]
                ELSE IF p = b THEN [there |-> TRUE, active |-> TRUE, auto |-> FALSE, default |-> FALSE]
                ELSE Absent] : a \in Packages, b \in Packages}
    /\ \E used \in {Defaults, Active \ Defaults} :
           product = [x \in Products |->
               [mode |-> IF used = Active \ Defaults /\ used # {} THEN "restricted" ELSE "auto",
                rules |-> Active \ Defaults]]
    /\ request = [r \in Requests |-> Idle] /\ crossed = FALSE

PackagesNext ==
    \/ \E p \in Packages, active, auto \in BOOLEAN : Create(p, active, auto)
    \/ \E r \in Requests, p \in Packages, what \in {"archive", "reactivate", "auto", "default", "delete"} :
           Reads(r, p, what)
    \/ \E r \in Requests : Archive(r) \/ Reactivate(r) \/ SetAuto(r) \/ MakeDefault(r) \/ Delete(r)
    \/ \E x \in Products, mode \in {"auto", "restricted"}, rules \in SUBSET Packages : Packed(x, mode, rules)

PackagesSpec == PackagesInit /\ [][PackagesNext]_packagesVars
-----------------------------------------------------------------------------
\* The default is a package the store uses: it is not archived, unless two requests cross.
DefaultIsActive == crossed \/ Defaults \subseteq Active
\* "Uma padrao enquanto houver outra ativa" (shipping/packages).
DefaultWhileActive == Active # {} => Defaults # {}
=============================================================================
