-------------------------------- MODULE Packing --------------------------------
(***************************************************************************)
(* The packing engine (shipping/packing): how the items of one group       *)
(* become parcels.  Identical units go by the grid; mixed ones unit by     *)
(* unit, first fit over the open parcels at extreme points; then each      *)
(* parcel may move to another package its contents fit in; what fits in no *)
(* package goes in boxes made to measure; and a group that costs too many  *)
(* checks is packed again item by item.                                    *)
(*                                                                         *)
(* Lengths are <<length, width, height>>.  The strategies differ in which  *)
(* packages they allow, how much each may weigh and which of the           *)
(* possibilities they find cheapest: the first two are the input, the last *)
(* is left open.  The padding is already off a package's space, its tare   *)
(* off its cap; walls, values and names are left out.                      *)
(***************************************************************************)
EXTENDS Integers, Sequences, FiniteSets, FiniteSetsExt, SequencesExt

CONSTANTS Carts,     \* inputs: [item, package]; functions from keys to
                     \*   [dims, weight, units, upright, flexible, allowed, declared] and to
                     \*   [space, tube, cap], declared being a function on some packages
          Fill,      \* flexible_fill_percent
          MaxParcels, MaxSide, MaxSum, MaxWeight   \* max_parcels, the limits of a made box

VARIABLES input, lone, todo, open, odd, blocks, boxes, parcels, stage

packVars == <<input, lone, todo, open, odd, blocks, boxes, parcels, stage>>
Axes == 1..3
Origin == <<0, 0, 0>>
Volume(d) == d[1] * d[2] * d[3]
Smaller(a, b) == IF a < b THEN a ELSE b
Greater(a, b) == IF a > b THEN a ELSE b

-----------------------------------------------------------------------------
(* Geometry: packing/model *)

Orientations(it) ==
    LET d == it.dims
    IN  IF it.upright THEN {d, <<d[2], d[1], d[3]>>}
        ELSE {<<d[p[1]], d[p[2]], d[p[3]]>> : p \in Permutations(Axes)}

Inside(at, size, space) == \A i \in Axes : at[i] + size[i] <= space[i]
Overlap(p, q) ==
    \A i \in Axes : p.at[i] < q.at[i] + q.size[i] /\ q.at[i] < p.at[i] + p.size[i]

\* The section of a piece in a tube.
Round(o, space) == o[2] * o[2] + o[3] * o[3] <= Smaller(space[2], space[3]) * Smaller(space[2], space[3])
FitsAlone(it, p) ==
    \E o \in Orientations(it) :
        IF p.tube THEN ~it.upright /\ o[1] <= p.space[1] /\ Round(o, p.space)
        ELSE Inside(Origin, o, p.space)

-----------------------------------------------------------------------------
(* The grid: packing/placement *)

Block(at, o, space) == [at |-> at, size |-> o, n |-> [i \in Axes |-> space[i] \div o[i]]]
Count(b) == Volume(b.n)
Total(grid) == MapThenSumSet(Count, grid)
Positions(b) ==
    {[at |-> [i \in Axes |-> b.at[i] + k[i] * b.size[i]], size |-> b.size] :
        k \in {k \in [Axes -> 0 .. Max({b.n[1], b.n[2], b.n[3]}) - 1] : \A i \in Axes : k[i] < b.n[i]}}

\* What the main block leaves: in front, beside and above it.
Slices(b, space) ==
    LET used == [i \in Axes |-> b.n[i] * b.size[i]]
    IN  {[at |-> <<used[1], 0, 0>>, space |-> <<space[1] - used[1], space[2], space[3]>>],
         [at |-> <<0, used[2], 0>>, space |-> <<used[1], space[2] - used[2], space[3]>>],
         [at |-> <<0, 0, used[3]>>, space |-> <<used[1], used[2], space[3] - used[3]>>]}
Best(S, F(_)) == CHOOSE x \in S : \A y \in S : F(x) >= F(y)
GridBlocks(space, it) ==
    LET single(s) == Best({Block(s.at, o, s.space) : o \in Orientations(it)}, Count)
        around(b) == {single(s) : s \in {s \in Slices(b, space) : Volume(s.space) > 0}}
        grids == {{b} \cup {c \in around(b) : Count(c) > 0} :
                     b \in {b \in {Block(Origin, o, space) : o \in Orientations(it)} : Count(b) > 0}}
    IN  IF grids = {} THEN {} ELSE Best(grids, Total)
TubeBlocks(space, it) ==
    LET rows == {[Block(Origin, o, space) EXCEPT !.n = <<space[1] \div o[1], 1, 1>>] :
                    o \in {o \in Orientations(it) : Round(o, space) /\ o[1] <= space[1]}}
    IN  IF it.upright \/ rows = {} THEN {} ELSE {Best(rows, Count)}
Blocks(it, p) == IF p.tube THEN TubeBlocks(p.space, it) ELSE GridBlocks(p.space, it)

\* `declared_limit`: of a flexible item at most twice the volume of the package.
NoLimit == -1
DeclaredLimit(it, k) ==
    LET p == input.package[k]
    IN  IF k \notin DOMAIN it.declared THEN NoLimit
        ELSE IF ~it.flexible \/ p.tube THEN it.declared[k]
        ELSE Smaller(it.declared[k], (200 * Volume(p.space)) \div (100 * Volume(it.dims)))

UnitCapacity(it, k) ==
    LET p == input.package[k]
        limit == DeclaredLimit(it, k)
        grid == Total(Blocks(it, p))
        filled == (Volume(p.space) * Fill) \div (100 * Volume(it.dims))
        room == IF it.flexible /\ ~p.tube
                THEN IF limit # NoLimit THEN limit ELSE Greater(grid, filled)
                ELSE IF limit # NoLimit THEN Smaller(grid, limit) ELSE grid
    IN  IF k \notin it.allowed \/ ~FitsAlone(it, p) THEN 0 ELSE Smaller(room, p.cap \div it.weight)

\* What a unit takes of the volume of a mixed parcel.
VolumeCost(it, k) ==
    LET limit == DeclaredLimit(it, k)
        space == Volume(input.package[k].space)
    IN  IF ~it.flexible THEN Volume(it.dims)
        ELSE IF limit # NoLimit THEN IF limit = 0 THEN space + 1 ELSE space \div limit
        ELSE (Volume(it.dims) * 100 + Fill - 1) \div Fill

-----------------------------------------------------------------------------
(* A mixed parcel: OpenParcel *)

Empty(k) == [package |-> k, placed |-> {}, points |-> {Origin}, weight |-> 0, volume |-> 0,
             contents |-> [i \in DOMAIN input.item |-> 0]]

Covers(q, pt) == \A i \in Axes : q.at[i] <= pt[i] /\ pt[i] < q.at[i] + q.size[i]
\* A point slides along an axis until a face or the wall.
Slide(pt, axis, placed) ==
    LET faces == {q.at[axis] + q.size[axis] :
                     q \in {q \in placed : /\ q.at[axis] + q.size[axis] <= pt[axis]
                                           /\ \A i \in Axes \ {axis} :
                                                q.at[i] <= pt[i] /\ pt[i] < q.at[i] + q.size[i]}}
    IN  [pt EXCEPT ![axis] = Max(faces \cup {0})]
Points(o, q, placed) ==
    LET corner(a) == [q.at EXCEPT ![a] = @ + q.size[a]]
        slid == UNION {{Slide(corner(a), b, placed) : b \in Axes \ {a}} : a \in Axes}
    IN  {pt \in o.points \cup slid : /\ \A i \in Axes : pt[i] < input.package[o.package].space[i]
                                     /\ \A r \in placed : ~Covers(r, pt)}

\* `_find`: the first point, lowest and furthest back, where the unit stands free.
Free_Trusted(q, placed) == TRUE          \* mutant: an extreme point is taken for a free place
Free(q, placed) == \A r \in placed : ~Overlap(q, r)
Places(o, i) ==
    LET it == input.item[i]
        space == input.package[o.package].space
        spots == {[at |-> pt, size |-> s, item |-> i] : pt \in o.points, s \in Orientations(it)}
        free == {q \in spots : Inside(q.at, q.size, space) /\ Free(q, o.placed)}
        far(q) == q.at[1] + space[1] * q.at[2] + space[1] * space[2] * q.at[3]
    IN  {q \in free : \A r \in free : far(q) < far(r) \/ (q.at = r.at /\ q.size[3] <= r.size[3])}

Added(o, i) ==       \* `try_add`: the ways it can go, none if it cannot
    LET it == input.item[i]
        limit == DeclaredLimit(it, o.package)
        p == input.package[o.package]
        cost == VolumeCost(it, o.package)
        counted == [o EXCEPT !.weight = @ + it.weight, !.volume = @ + cost, !.contents[i] = @ + 1]
        with(q) == [counted EXCEPT !.placed = @ \cup {q}, !.points = Points(o, q, o.placed \cup {q})]
    IN  IF \/ o.package \notin it.allowed \/ p.tube
           \/ o.weight + it.weight > p.cap
           \/ limit # NoLimit /\ o.contents[i] >= limit
           \/ o.volume + cost > Volume(p.space)
        THEN {}
        ELSE IF it.flexible THEN IF FitsAlone(it, p) THEN {counted} ELSE {}
        ELSE {with(q) : q \in Places(o, i)}

-----------------------------------------------------------------------------
(* Boxes made to measure: packing/custom *)

Up(a, b) == (a + b - 1) \div b
Made == "made"
Fair(d, weight) ==      \* `_feasible`: walls and cardboard left out
    /\ Max({d[1], d[2], d[3]}) <= MaxSide /\ d[1] + d[2] + d[3] <= MaxSum /\ weight <= MaxWeight
Dims(g) == [i \in Axes |-> g.n[i] * g.size[i]]
Grid(i, units, o, nx, ny) ==
    [item |-> i, units |-> units, size |-> o, n |-> <<nx, ny, Up(units, nx * ny)>>]
FairGrids(i, units) ==
    {g \in {Grid(i, units, o, nx, ny) : o \in Orientations(input.item[i]), nx \in 1 .. units, ny \in 1 .. units} :
        g.n[2] <= Up(units, g.n[1]) /\ Fair(Dims(g), units * input.item[i].weight)}
Turned(g) == [g EXCEPT !.size = <<@[2], @[1], @[3]>>, !.n = <<@[2], @[1], @[3]>>]

\* `_grids`: how many units go in each block, as equal as they can be.
Parts(i, units) ==
    LET most == Max({k \in 1 .. units : FairGrids(i, k) # {}})
        count == Up(units, most)
    IN  IF FairGrids(i, 1) = {} THEN [j \in 1 .. units |-> 1]
        ELSE [j \in 1 .. count |-> units \div count + IF j <= units % count THEN 1 ELSE 0]
BlocksOf(i, units) == [j \in DOMAIN Parts(i, units) |-> [item |-> i, units |-> Parts(i, units)[j]]]
\* A unit that is over the limits by itself has a box of its own.
Shapes(b) ==
    IF FairGrids(b.item, b.units) # {} THEN FairGrids(b.item, b.units)
    ELSE {Grid(b.item, 1, o, 1, 1) : o \in Orientations(input.item[b.item])}

Layout(g, at) ==
    {[at |-> [i \in Axes |-> at[i] + k[i] * g.size[i]], size |-> g.size, item |-> g.item] :
        k \in {<<j % g.n[1], (j \div g.n[1]) % g.n[2], j \div (g.n[1] * g.n[2])>> : j \in 0 .. g.units - 1}}
WeightOf(contents) == MapThenSumSet(LAMBDA i : contents[i] * input.item[i].weight, DOMAIN contents)
\* On top, in front or beside what is there, as it stands or turned on the floor.
Beside(c, d, axis) == [i \in Axes |-> IF i = axis THEN c[i] + d[i] ELSE Greater(c[i], d[i])]
Corner(c, axis) == [i \in Axes |-> IF i = axis THEN c[i] ELSE 0]
Joined(box, g) ==
    LET with(h, a) == [space |-> Beside(box.space, Dims(h), a),
                       placed |-> box.placed \cup Layout(h, Corner(box.space, a)),
                       contents |-> [box.contents EXCEPT ![g.item] = @ + g.units]]
    IN  {b \in {with(h, a) : h \in {g, Turned(g)}, a \in Axes} : Fair(b.space, WeightOf(b.contents))}

-----------------------------------------------------------------------------
(* A group, one decision at a time: packing/candidates *)

Classes == DOMAIN input.item
Units(i) == input.item[i].units
None == [i \in Classes |-> 0]
Parcel(k, space, placed, contents) == [package |-> k, space |-> space, placed |-> placed, contents |-> contents]
Moves(vars) == stage = "packing" /\ Len(open) + Len(boxes) <= MaxParcels /\ UNCHANGED <<input, stage>> /\ UNCHANGED vars

TubeOnly(i) == /\ \E k \in input.item[i].allowed : input.package[k].tube
               /\ \A k \in input.item[i].allowed : input.package[k].tube
Mixed == {i \in Classes : ~TubeOnly(i)}
Alone(S) == SetToSeq(S)
\* `sort_key`: rigid before flexible, larger first.
Sorted == SetToSortSeq(Mixed, LAMBDA i, j :
    LET a == input.item[i]  b == input.item[j]
    IN  IF a.flexible # b.flexible THEN b.flexible ELSE Volume(a.dims) > Volume(b.dims))
PackInit ==
    /\ input \in Carts
    /\ lone = Alone(IF Cardinality(Mixed) = 1 THEN Classes ELSE Classes \ Mixed)
    /\ todo = IF Cardinality(Mixed) = 1 THEN <<>>
              ELSE FlattenSeq([n \in DOMAIN Sorted |-> [u \in 1 .. Units(Sorted[n]) |-> Sorted[n]]])
    /\ open = <<>> /\ odd = None /\ blocks = <<>> /\ boxes = <<>> /\ parcels = <<>>
    /\ stage = "packing"

\* `_pack_homogeneous`: full packages of one kind and the rest in another.
Holding(i) == {k \in DOMAIN input.package : UnitCapacity(input.item[i], k) > 0}
GridParcel(i, k, units) ==
    LET it == input.item[i]
        p == input.package[k]
        spots == UNION {Positions(b) : b \in Blocks(it, p)}
        taken == CHOOSE S \in kSubset(units, spots) : TRUE
    IN  Parcel(k, p.space, IF it.flexible THEN {} ELSE {[at |-> q.at, size |-> q.size, item |-> i] : q \in taken},
               [None EXCEPT ![i] = units])
PacksAlone ==
    /\ lone # <<>> /\ blocks = <<>> /\ boxes = <<>>
    /\ Moves(<<todo, open, odd, boxes>>)
    /\ lone' = Tail(lone)
    /\ LET i == Head(lone)  cap(k) == UnitCapacity(input.item[i], k)
       IN  IF Holding(i) = {} THEN blocks' = BlocksOf(i, Units(i)) /\ UNCHANGED parcels
           ELSE \E full \in Holding(i) :
                  LET rest == Units(i) % cap(full)
                  IN  /\ \E tail \in {k \in Holding(i) : cap(k) >= rest} :
                           parcels' = parcels \o [n \in 1 .. Units(i) \div cap(full) |-> GridParcel(i, full, cap(full))]
                                      \o IF rest = 0 THEN <<>> ELSE <<GridParcel(i, tail, rest)>>
                      /\ UNCHANGED blocks

\* `_first_fit`: the first open parcel that takes the unit, or the largest package that does.
Mixing == lone = <<>> /\ blocks = <<>> /\ boxes = <<>> /\ todo # <<>>
Unit == Head(todo)
Taking == {n \in DOMAIN open : Added(open[n], Unit) # {}}
Boxy(i) == {k \in Holding(i) : ~input.package[k].tube}
Room(k) == Volume(input.package[k].space)
Largest(S) == CHOOSE k \in S : \A other \in S : Room(k) >= Room(other)
Opened(i) == IF Boxy(i) = {} THEN {} ELSE Added(Empty(Largest(Boxy(i))), i)
Fits ==
    /\ Mixing /\ Taking # {}
    /\ Moves(<<lone, odd, blocks, boxes, parcels>>)
    /\ todo' = Tail(todo)
    /\ \E o \in Added(open[Min(Taking)], Unit) : open' = [open EXCEPT ![Min(Taking)] = o]
Opens ==
    /\ Mixing /\ Taking = {} /\ Opened(Unit) # {}
    /\ Moves(<<lone, odd, blocks, boxes, parcels>>)
    /\ todo' = Tail(todo)
    /\ \E o \in Opened(Unit) : open' = Append(open, o)
LeavesOut ==
    /\ Mixing /\ Taking = {} /\ Opened(Unit) = {}
    /\ Moves(<<lone, open, blocks, boxes, parcels>>)
    /\ todo' = Tail(todo)
    /\ odd' = [odd EXCEPT ![Unit] = @ + 1]

\* `custom_parcels`: the blocks of what was left out, first fit over the made boxes.
MakesBlocks ==
    /\ lone = <<>> /\ todo = <<>> /\ odd # None /\ blocks = <<>> /\ boxes = <<>>
    /\ Moves(<<lone, todo, open, boxes, parcels>>)
    /\ blocks' = FlattenSeq([n \in 1 .. Cardinality(Classes) |->
                                LET i == SetToSeq(Classes)[n] IN IF odd[i] = 0 THEN <<>> ELSE BlocksOf(i, odd[i])])
    /\ odd' = None
PlacesBlock ==
    /\ blocks # <<>>
    /\ Moves(<<lone, todo, open, odd, parcels>>)
    /\ \E n \in DOMAIN blocks : \E g \in Shapes(blocks[n]) :
         LET taking == {x \in DOMAIN boxes : Joined(boxes[x], g) # {}}
         IN  /\ blocks' = RemoveAt(blocks, n)
             /\ IF taking = {}
                THEN boxes' = Append(boxes, [space |-> Dims(g), placed |-> Layout(g, Origin),
                                             contents |-> [None EXCEPT ![g.item] = g.units]])
                ELSE \E b \in Joined(boxes[Min(taking)], g) : boxes' = [boxes EXCEPT ![Min(taking)] = b]
ClosesBoxes ==
    /\ blocks = <<>> /\ boxes # <<>>
    /\ Moves(<<lone, todo, open, odd, blocks>>)
    /\ parcels' = parcels \o [n \in DOMAIN boxes |-> Parcel(Made, boxes[n].space, boxes[n].placed, boxes[n].contents)]
    /\ boxes' = <<>>

\* `_fits`: the same contents laid again in another package.
Replayed(k, contents) ==
    FoldLeft(LAMBDA S, i : UNION {Added(o, i) : o \in S}, {Empty(k)},
             FlattenSeq([n \in DOMAIN Sorted |-> [u \in 1 .. contents[Sorted[n]] |-> Sorted[n]]]))
Refits(k, contents) ==
    LET inside == {i \in Classes : contents[i] > 0}
        only == CHOOSE i \in inside : TRUE
    IN  IF Cardinality(inside) = 1
        THEN IF UnitCapacity(input.item[only], k) >= contents[only]
             THEN {GridParcel(only, k, contents[only])} ELSE {}
        ELSE {Parcel(k, input.package[k].space, o.placed, contents) : o \in Replayed(k, contents)}
\* `_shrink`: to the package it was built in, or another one all its items may use.
Shrinks ==
    /\ lone = <<>> /\ todo = <<>> /\ odd = None /\ blocks = <<>> /\ boxes = <<>> /\ open # <<>>
    /\ Moves(<<lone, todo, odd, blocks, boxes>>)
    /\ LET o == Head(open)
           others == {k \in DOMAIN input.package : /\ ~input.package[k].tube
                                                   /\ \A i \in Classes : o.contents[i] > 0 => k \in input.item[i].allowed}
       IN  \E p \in {Parcel(o.package, input.package[o.package].space, o.placed, o.contents)}
                     \cup UNION {Refits(k, o.contents) : k \in others} :
              parcels' = Append(parcels, p)
    /\ open' = Tail(open)

\* Too many units or checks, or a parcel that does not verify: the whole group again, item
\* by item, and nothing of what was packed is kept.
Kept == <<>>
GivesUp ==
    /\ Cardinality(Mixed) > 1 /\ lone = <<>> /\ todo # <<>>
    /\ Moves(<<boxes, blocks>>)
    /\ lone' = Alone(Classes) /\ todo' = <<>> /\ open' = <<>> /\ odd' = None
    /\ parcels' = Kept
Drops ==               \* the plan is discarded
    /\ stage = "packing"
    /\ \/ Len(open) + Len(boxes) > MaxParcels
       \/ Len(parcels) > MaxParcels /\ <<lone, todo, open, odd, blocks, boxes>> = <<<<>>, <<>>, <<>>, None, <<>>, <<>>>>
    /\ stage' = "dropped"
    /\ UNCHANGED <<input, lone, todo, open, odd, blocks, boxes, parcels>>

PackNext == PacksAlone \/ Fits \/ Opens \/ LeavesOut \/ MakesBlocks \/ PlacesBlock \/ ClosesBoxes
            \/ Shrinks \/ GivesUp \/ Drops
PackSpec == PackInit /\ [][PackNext]_packVars

-----------------------------------------------------------------------------
(* Properties *)

\* What a parcel says fits does fit: every rigid unit of it has a place of its own inside, in
\* a position the item may travel in, and the package carries the weight and takes the item.
\* A parcel moved to another package, a grid and a made box are as good as one built unit by
\* unit, though only the latter is verified by the code (candidates._shrink, grid_layout).
Sound(p) ==
    /\ \A q \in p.placed : /\ q.size \in Orientations(input.item[q.item])
                            /\ Inside(q.at, q.size, p.space)
                            /\ \A r \in p.placed \ {q} : ~Overlap(q, r)
    /\ \A i \in Classes : (~input.item[i].flexible \/ p.package = Made) =>
            p.contents[i] = Cardinality({q \in p.placed : q.item = i})
    /\ p.package # Made => /\ WeightOf(p.contents) <= input.package[p.package].cap
                           /\ \A i \in Classes : p.contents[i] > 0 => p.package \in input.item[i].allowed
    /\ p.package = Made => \/ Fair(p.space, WeightOf(p.contents))
                           \/ MapThenSumSet(LAMBDA i : p.contents[i], Classes) = 1
PackedForReal == \A n \in DOMAIN parcels : Sound(parcels[n])

\* Every unit sold is in one parcel, or still waits in one place, whatever road it took: left
\* out of the packages, boxed to measure, or packed again after the engine gave up.
AllPackedOnce ==
    \A i \in Classes :
        LET within(s) == FoldLeft(LAMBDA n, p : n + p.contents[i], 0, s)
            units(b) == IF b.item = i THEN b.units ELSE 0
        IN  within(parcels) + within(open) + within(boxes) + odd[i]
            + FoldLeft(LAMBDA n, b : n + units(b), 0, blocks)
            + Cardinality({n \in DOMAIN todo : todo[n] = i})
            + (IF i \in ToSet(lone) THEN Units(i) ELSE 0) = Units(i)
=============================================================================
