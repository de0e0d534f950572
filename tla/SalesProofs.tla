------------------------------ MODULE SalesProofs ------------------------------
(* Proofs about the stock and the orders of a store, for every set of orders,  *)
(* customers and variants and every limit of quantities and of the coupon.     *)
(* First Inventory by itself: its balances, rows, ledger and events agree.     *)
(* Then Sales: what an order does to the stock is what Inventory allows, the   *)
(* stock follows the order's status, and the coupon's counter counts its       *)
(* redemptions.                                                                *)
EXTENDS Sales, FiniteSetTheorems, TLAPS

-----------------------------------------------------------------------------
(* Types *)

LEMMA CrossedVariants ==
    ASSUME NEW level
    PROVE  EmitSoldOut(level) \subseteq {"oversold", "sold_out"} \X Variants
BY DEF EmitSoldOut, CrossedToZero

LEMMA ReserveType ==
    ASSUME InvTypeOK, NEW o \in Orders, NEW needs \in [Variants -> 0..MaxQty],
           ReserveStock(o, needs)
    PROVE  InvTypeOK'
BY InventoryAssumption DEF InvTypeOK, ReserveStock, SoundLine, Sold, Line, NoLine, Status

LEMMA SellNowType ==
    ASSUME InvTypeOK, NEW o \in Orders, NEW needs \in [Variants -> 0..MaxQty],
           SellNow(o, needs)
    PROVE  InvTypeOK'
BY InventoryAssumption, CrossedVariants DEF InvTypeOK, SellNow, SoundLine, Sold, Line, NoLine, Status

\* What every operation does to the reservation rows: the lines of one order change.
LEMMA LinesType ==
    ASSUME InvTypeOK, NEW o \in Orders, NEW f \in [Variants -> SoundLine],
           res' = [res EXCEPT ![o] = f]
    PROVE  res' \in [Orders -> [Variants -> SoundLine]]
BY DEF InvTypeOK

LEMMA LineFields ==
    ASSUME InvTypeOK, NEW o \in Orders, NEW v \in Variants
    PROVE  /\ res[o][v] \in SoundLine
           /\ res[o][v].status \in Status
           /\ res[o][v].qty \in 0..MaxQty
           /\ res[o][v].returned \in 0..MaxQty
           /\ res[o][v].returned <= res[o][v].qty
           /\ res[o][v].status \notin Sold => res[o][v].returned = 0
BY DEF InvTypeOK, SoundLine, Line

\* A line keeps its quantities when only its status changes.
LEMMA NewStatus ==
    ASSUME NEW line \in SoundLine, NEW s \in Status, s \in Sold \/ line.returned = 0
    PROVE  /\ [line EXCEPT !.status = s] \in SoundLine
           /\ [line EXCEPT !.status = s].status = s
           /\ [line EXCEPT !.status = s].qty = line.qty
           /\ [line EXCEPT !.status = s].returned = line.returned
BY DEF SoundLine, Line

LEMMA CommitType ==
    ASSUME InvTypeOK, NEW o \in Orders, CommitStock(o)
    PROVE  InvTypeOK'
<1> DEFINE sold  == LinesOf(o, "active")
           taken == [v \in Variants |-> IF v \in sold THEN res[o][v].qty ELSE 0]
           level == [v \in Variants |-> onHand[v] - taken[v]]
           f     == [v \in Variants |->
                        IF v \in sold THEN [res[o][v] EXCEPT !.status = "committed"]
                                      ELSE res[o][v]]
<1>1. taken \in [Variants -> Int]
  BY LineFields, InventoryAssumption
<1> HIDE DEF taken
<1>4. level \in [Variants -> Int]
  BY <1>1 DEF InvTypeOK
<1>2. f \in [Variants -> SoundLine]
  BY LineFields, NewStatus DEF Status, Sold
<1>3. /\ onHand' = level
      /\ reserved' = [v \in Variants |-> reserved[v] - taken[v]]
      /\ sales' = [v \in Variants |-> sales[v] - taken[v]]
      /\ res' = [res EXCEPT ![o] = f]
      /\ events' = events \cup EmitSoldOut(level)
      /\ manual' = manual
  BY DEF CommitStock, taken
<1>5. events' \subseteq {"oversold", "sold_out"} \X Variants
  BY <1>3, CrossedVariants DEF InvTypeOK
<1> HIDE DEF sold, level, f
<1> QED
  BY <1>1, <1>2, <1>3, <1>4, <1>5, LinesType DEF InvTypeOK

LEMMA ReleaseType ==
    ASSUME InvTypeOK, NEW o \in Orders, NEW closed \in {"released", "expired"},
           ReleaseStock(o, closed)
    PROVE  InvTypeOK'
<1> DEFINE held == LinesOf(o, "active")
           f    == [v \in Variants |->
                       IF v \in held THEN [res[o][v] EXCEPT !.status = closed]
                                     ELSE res[o][v]]
<1>0. closed \in Status
  BY DEF Status
<1>1. f \in [Variants -> SoundLine]
  BY <1>0, LineFields, NewStatus DEF LinesOf, Sold
<1>2. /\ reserved' = [v \in Variants |->
                         IF v \in held THEN reserved[v] - res[o][v].qty ELSE reserved[v]]
      /\ res' = [res EXCEPT ![o] = f]
      /\ UNCHANGED <<onHand, manual, sales, events>>
  BY DEF ReleaseStock
<1>3. reserved' \in [Variants -> Int]
  BY <1>2, LineFields, InventoryAssumption DEF InvTypeOK
<1> HIDE DEF held, f
<1> QED
  BY <1>1, <1>2, <1>3, LinesType DEF InvTypeOK

LEMMA RecoverType ==
    ASSUME InvTypeOK, NEW o \in Orders, RecoverStock(o)
    PROVE  InvTypeOK'
<1> DEFINE sold  == LinesOf(o, "expired")
           taken == [v \in Variants |-> IF v \in sold THEN res[o][v].qty ELSE 0]
           level == [v \in Variants |-> onHand[v] - taken[v]]
           f     == [v \in Variants |->
                        IF v \in sold THEN [res[o][v] EXCEPT !.status = "committed"]
                                      ELSE res[o][v]]
<1>1. taken \in [Variants -> Int]
  BY LineFields, InventoryAssumption
<1> HIDE DEF taken
<1>4. level \in [Variants -> Int]
  BY <1>1 DEF InvTypeOK
<1>2. f \in [Variants -> SoundLine]
  BY LineFields, NewStatus DEF Status, Sold
<1>3. /\ onHand' = level
      /\ sales' = [v \in Variants |-> sales[v] - taken[v]]
      /\ res' = [res EXCEPT ![o] = f]
      /\ events' = events \cup EmitSoldOut(level)
      /\ UNCHANGED <<reserved, manual>>
  BY DEF RecoverStock, taken
<1>5. events' \subseteq {"oversold", "sold_out"} \X Variants
  BY <1>3, CrossedVariants DEF InvTypeOK
<1> HIDE DEF sold, level, f
<1> QED
  BY <1>1, <1>2, <1>3, <1>4, <1>5, LinesType DEF InvTypeOK

LEMMA ReturnType ==
    ASSUME InvTypeOK, NEW o \in Orders, ReturnStock(o)
    PROVE  InvTypeOK'
<1> DEFINE back == LinesOf(o, "committed")
           put  == [v \in Variants |-> IF v \in back THEN Rest(o, v) ELSE 0]
           f    == [v \in Variants |->
                       IF v \in back
                       THEN [res[o][v] EXCEPT !.status = "returned", !.returned = res[o][v].qty]
                       ELSE res[o][v]]
<1>1. put \in [Variants -> Int]
  BY LineFields, InventoryAssumption DEF Rest
<1>2. ASSUME NEW v \in Variants
      PROVE  f[v] \in SoundLine
  <2>1. CASE v \notin back
    BY <2>1, LineFields
  <2>2. CASE v \in back
    <3> DEFINE line == res[o][v]
    <3> DEFINE s == "returned"
               q == line.qty
    <3>1. f[v] = [line EXCEPT !.status = s, !.returned = q]
      BY <2>2
    <3>2. line \in Line /\ q \in 0..MaxQty /\ s \in Status /\ s \in Sold /\ q = line.qty
      BY LineFields DEF Status, Sold, SoundLine
    <3> HIDE DEF line, f, s, q
    <3>3. f[v] \in Line
      BY <3>1, <3>2 DEF Line
    <3>4. f[v].returned = q
      BY <3>1, <3>2 DEF Line
    <3>5. f[v].qty = line.qty
      BY <3>1, <3>2 DEF Line
    <3>6. f[v].status = s
      BY <3>1, <3>2 DEF Line
    <3> QED
      BY <3>2, <3>3, <3>4, <3>5, <3>6, InventoryAssumption DEF SoundLine
  <2> QED
    BY <2>1, <2>2
<1>3. /\ onHand' = [v \in Variants |-> onHand[v] + put[v]]
      /\ sales' = [v \in Variants |-> sales[v] + put[v]]
      /\ res' = [res EXCEPT ![o] = f]
      /\ UNCHANGED <<reserved, manual, events>>
  BY DEF ReturnStock
<1>4. f \in [Variants -> SoundLine]
  BY <1>2
<1> HIDE DEF put, f
<1> QED
  BY <1>1, <1>2, <1>3, <1>4, LinesType DEF InvTypeOK

LEMMA ReturnSomeType ==
    ASSUME InvTypeOK, NEW o \in Orders, NEW wanted \in [Variants -> 0..MaxQty],
           ReturnSome(o, wanted)
    PROVE  InvTypeOK'
<1> DEFINE put == [v \in Variants |->
                      IF v \notin LinesOf(o, "committed") THEN 0
                      ELSE IF wanted[v] <= Rest(o, v) THEN wanted[v] ELSE Rest(o, v)]
           f   == [v \in Variants |->
                      IF put[v] = 0 THEN res[o][v]
                      ELSE [res[o][v] EXCEPT
                               !.returned = @ + put[v],
                               !.status = IF put[v] = Rest(o, v) THEN "returned" ELSE @]]
<1>1. \A v \in Variants : put[v] \in Int /\ 0 <= put[v] /\ put[v] <= Rest(o, v)
  BY LineFields, InventoryAssumption DEF Rest
<1>2. put \in [Variants -> Int]
  BY <1>1
<1>3. /\ onHand' = [v \in Variants |-> onHand[v] + put[v]]
      /\ sales' = [v \in Variants |-> sales[v] + put[v]]
      /\ res' = [res EXCEPT ![o] = f]
      /\ UNCHANGED <<reserved, manual, events>>
  BY DEF ReturnSome
<1> HIDE DEF put
<1>4. ASSUME NEW v \in Variants
      PROVE  f[v] \in SoundLine
  <2>1. CASE put[v] = 0
    BY <2>1, LineFields
  <2>2. CASE put[v] # 0
    <3> DEFINE line == res[o][v]
               s    == IF put[v] = Rest(o, v) THEN "returned" ELSE line.status
    <3>1. f[v] = [line EXCEPT !.returned = line.returned + put[v], !.status = s]
      BY <2>2
    <3>2. line.returned + put[v] \in 0..MaxQty /\ line.returned + put[v] <= line.qty
      BY <1>1, LineFields, InventoryAssumption DEF Rest
    <3>3. s \in Status /\ s \in Sold /\ line \in Line
      BY <2>2, LineFields DEF Status, Sold, SoundLine, LinesOf, put
    <3> HIDE DEF line, s, f
    <3> QED
      BY <3>1, <3>2, <3>3 DEF Line, SoundLine
  <2> QED
    BY <2>1, <2>2
<1>5. f \in [Variants -> SoundLine]
  BY <1>4
<1> HIDE DEF f
<1> QED
  BY <1>2, <1>3, <1>4, <1>5, LinesType DEF InvTypeOK

LEMMA AdjustType ==
    ASSUME InvTypeOK, NEW kind \in Kinds, NEW vs \in SUBSET Variants,
           NEW qty \in [vs -> Amounts(kind)], Adjust(kind, vs, qty)
    PROVE  InvTypeOK'
BY InventoryAssumption, CrossedVariants
DEF InvTypeOK, Adjust, LevelAfter, Kinds, Amounts

\* Every step keeps the types.
LEMMA TypeStep ==
    ASSUME InvTypeOK, [InvNext]_invVars
    PROVE  InvTypeOK'
<1>1. CASE UNCHANGED invVars
  BY <1>1 DEF invVars, InvTypeOK
<1>2. ASSUME NEW o \in Orders, NEW needs \in [Variants -> 0..MaxQty],
             ReserveStock(o, needs) \/ SellNow(o, needs)
      PROVE  InvTypeOK'
  BY <1>2, ReserveType, SellNowType
<1>3. ASSUME NEW o \in Orders, CommitStock(o) \/ RecoverStock(o) \/ ReturnStock(o)
      PROVE  InvTypeOK'
  BY <1>3, CommitType, RecoverType, ReturnType
<1>4. ASSUME NEW o \in Orders, NEW closed \in {"released", "expired"}, ReleaseStock(o, closed)
      PROVE  InvTypeOK'
  BY <1>4, ReleaseType
<1>5. ASSUME NEW o \in Orders, NEW wanted \in [Variants -> 0..MaxQty], ReturnSome(o, wanted)
      PROVE  InvTypeOK'
  BY <1>5, ReturnSomeType
<1>6. ASSUME NEW kind \in Kinds, NEW vs \in SUBSET Variants,
             NEW qty \in [vs -> Amounts(kind)], Adjust(kind, vs, qty)
      PROVE  InvTypeOK'
  BY <1>6, AdjustType
<1> QED
  BY <1>1, <1>2, <1>3, <1>4, <1>5, <1>6 DEF InvNext

LEMMA TypeInit == InvInit => InvTypeOK
BY InventoryAssumption DEF InvInit, InvTypeOK, NoLine, SoundLine, Sold, Line, Status

\* The balances, the reservation rows and the events keep their types, and no line ever
\* gets back more than was sold: whatever adjust, reserve, commit, release, recover and the
\* two returns do, in any order.
THEOREM TypeCorrect == InvSpec => []InvTypeOK
<1>1. InvTypeOK /\ [InvNext]_invVars => InvTypeOK'
  BY TypeStep
<1> QED
  BY TypeInit, <1>1, PTL DEF InvSpec

-----------------------------------------------------------------------------
(* Counting units: every order owns the units low[o]+1 .. high[o] of one variant. *)

Units(low, high) ==
    {u \in Orders \X (1..MaxQty) : u[2] > low[u[1]] /\ u[2] <= high[u[1]]}

LEMMA UnitsFinite ==
    ASSUME NEW low, NEW high
    PROVE  IsFiniteSet(Units(low, high))
<1>1. IsFiniteSet(1..MaxQty)
  BY FS_Interval, InventoryAssumption
<1>2. IsFiniteSet(Orders \X (1..MaxQty))
  BY <1>1, FS_Product, InventoryAssumption
<1> QED
  BY <1>2, FS_Subset DEF Units

\* The parts of all other orders.
Others(o, low, high) == {u \in Units(low, high) : u[1] # o}

LEMMA OthersFinite ==
    ASSUME NEW o, NEW low, NEW high
    PROVE  IsFiniteSet(Others(o, low, high))
BY UnitsFinite, FS_Subset DEF Others

\* One order's part of the count.
LEMMA UnitsOfOne ==
    ASSUME NEW low \in [Orders -> 0..MaxQty], NEW high \in [Orders -> 0..MaxQty],
           NEW o \in Orders, low[o] <= high[o]
    PROVE  Cardinality(Units(low, high)) =
             Cardinality(Others(o, low, high)) + (high[o] - low[o])
<1> DEFINE all  == Units(low, high)
           rest == Others(o, low, high)
           mine == {o} \X ((low[o] + 1)..high[o])
<1>1. low[o] \in Int /\ high[o] \in Int /\ MaxQty \in Int
      /\ 0 <= low[o] /\ high[o] <= MaxQty
  BY InventoryAssumption
<1>2. IsFiniteSet((low[o] + 1)..high[o])
      /\ Cardinality((low[o] + 1)..high[o]) = high[o] - low[o]
  <2> DEFINE a == low[o] + 1
             b == high[o]
  <2>1. a \in Int /\ b \in Int
    BY <1>1
  <2>2. a > b => b - low[o] = 0
    BY <1>1
  <2>3. b - a + 1 = b - low[o]
    BY <1>1
  <2> HIDE DEF a, b
  <2>4. IsFiniteSet(a..b) /\ Cardinality(a..b) = IF a > b THEN 0 ELSE b - a + 1
    BY <2>1, FS_Interval
  <2>5. IsFiniteSet(a..b) /\ Cardinality(a..b) = b - low[o]
    BY <2>2, <2>3, <2>4
  <2> QED
    BY <2>5 DEF a, b
<1>3. IsFiniteSet({o}) /\ Cardinality({o}) = 1
  BY FS_Singleton
<1>4. IsFiniteSet(mine) /\ Cardinality(mine) = 1 * (high[o] - low[o])
  <2> DEFINE T == (low[o] + 1)..high[o]
             S == {o}
  <2>1. IsFiniteSet(S) /\ IsFiniteSet(T) /\ Cardinality(S) = 1
        /\ Cardinality(T) = high[o] - low[o] /\ mine = S \X T
    BY <1>2, <1>3
  <2> HIDE DEF S, T, mine
  <2>2. IsFiniteSet(S \X T) /\ Cardinality(S \X T) = Cardinality(S) * Cardinality(T)
    BY <2>1, FS_Product
  <2> QED
    BY <2>1, <2>2
<1>5. IsFiniteSet(rest)
  BY UnitsFinite, FS_Subset DEF Others
<1>6. all = rest \cup mine
  <2>1. ASSUME NEW u \in all, u[1] = o
        PROVE  u \in mine
    BY <2>1, <1>1 DEF Units
  <2>2. ASSUME NEW u \in mine
        PROVE  u \in all
    BY <2>2, <1>1 DEF Units
  <2> QED
    BY <2>1, <2>2 DEF Others
<1>7. rest \cap mine = {}
  BY DEF Others
<1>8. Cardinality({}) = 0
  BY FS_EmptySet
<1>9. Cardinality(rest) \in Nat
  BY <1>5, FS_CardinalityType
<1>10. Cardinality(all) = Cardinality(rest) + Cardinality(mine) - 0
  <2> HIDE DEF all, rest, mine
  <2>1. IsFiniteSet(rest) /\ IsFiniteSet(mine)
    BY <1>4, <1>5
  <2>2. Cardinality(rest \cup mine) =
          Cardinality(rest) + Cardinality(mine) - Cardinality(rest \cap mine)
    BY <2>1, FS_Union
  <2> QED
    BY <2>2, <1>6, <1>7, <1>8
<1> HIDE DEF all, rest, mine
<1>11. Cardinality(all) = Cardinality(rest) + (high[o] - low[o])
  BY <1>1, <1>4, <1>9, <1>10
<1> QED
  BY <1>11 DEF all, rest

\* An order that keeps its part leaves the others' parts alone.
LEMMA OthersSame ==
    ASSUME NEW low, NEW high, NEW low2, NEW high2, NEW o \in Orders,
           \A p \in Orders \ {o} : low2[p] = low[p] /\ high2[p] = high[p]
    PROVE  Others(o, low2, high2) = Others(o, low, high)
BY DEF Others, Units

-----------------------------------------------------------------------------
(* What one operation on order o does to the sums of a variant. *)

Held(line) == IF line.status = "active" THEN line.qty ELSE 0
Out(line)  == IF line.status \in Sold THEN line.qty - line.returned ELSE 0

OrderMoves(o) ==
    /\ \A p \in Orders \ {o} : res'[p] = res[p]
    /\ \A v \in Variants :
          /\ reserved'[v] = reserved[v] + Held(res'[o][v]) - Held(res[o][v])
          /\ sales'[v] = sales[v] + Out(res[o][v]) - Out(res'[o][v])
          /\ onHand'[v] = onHand[v] + Out(res[o][v]) - Out(res'[o][v])
          /\ manual'[v] = manual[v]

LEMMA LineAfter ==
    ASSUME InvTypeOK, NEW o \in Orders, NEW f, res' = [res EXCEPT ![o] = f]
    PROVE  res'[o] = f /\ \A p \in Orders \ {o} : res'[p] = res[p]
BY DEF InvTypeOK

LEMMA BalanceFields ==
    ASSUME InvTypeOK, NEW v \in Variants
    PROVE  onHand[v] \in Int /\ reserved[v] \in Int /\ sales[v] \in Int /\ manual[v] \in Int
BY DEF InvTypeOK

LEMMA ReserveMoves ==
    ASSUME InvTypeOK, NEW o \in Orders, NEW needs \in [Variants -> 0..MaxQty],
           ReserveStock(o, needs)
    PROVE  OrderMoves(o)
<1> DEFINE f == [v \in Variants |->
                    IF needs[v] > 0
                    THEN [status |-> "active", qty |-> needs[v], returned |-> 0]
                    ELSE NoLine]
<1>1. res'[o] = f /\ \A p \in Orders \ {o} : res'[p] = res[p]
  BY LineAfter DEF ReserveStock
<1>2. ASSUME NEW v \in Variants
      PROVE  /\ Held(res'[o][v]) = needs[v] /\ Held(res[o][v]) = 0
             /\ Out(res'[o][v]) = 0 /\ Out(res[o][v]) = 0
  BY <1>1, InventoryAssumption DEF ReserveStock, Held, Out, Sold, NoLine
<1> QED
  BY <1>1, <1>2, BalanceFields, InventoryAssumption DEF OrderMoves, ReserveStock

LEMMA SellNowMoves ==
    ASSUME InvTypeOK, NEW o \in Orders, NEW needs \in [Variants -> 0..MaxQty],
           SellNow(o, needs)
    PROVE  OrderMoves(o)
<1> DEFINE f == [v \in Variants |->
                    IF needs[v] > 0
                    THEN [status |-> "committed", qty |-> needs[v], returned |-> 0]
                    ELSE NoLine]
<1>1. res'[o] = f /\ \A p \in Orders \ {o} : res'[p] = res[p]
  BY LineAfter DEF SellNow
<1>2. ASSUME NEW v \in Variants
      PROVE  /\ Held(res'[o][v]) = 0 /\ Held(res[o][v]) = 0
             /\ Out(res'[o][v]) = needs[v] /\ Out(res[o][v]) = 0
  BY <1>1, InventoryAssumption DEF SellNow, Held, Out, Sold, NoLine
<1> QED
  BY <1>1, <1>2, BalanceFields, InventoryAssumption DEF OrderMoves, SellNow

LEMMA CommitMoves ==
    ASSUME InvTypeOK, NEW o \in Orders, CommitStock(o)
    PROVE  OrderMoves(o)
<1> DEFINE taken == [v \in Variants |->
                        IF v \in LinesOf(o, "active") THEN res[o][v].qty ELSE 0]
           f     == [v \in Variants |->
                        IF v \in LinesOf(o, "active")
                        THEN [res[o][v] EXCEPT !.status = "committed"]
                        ELSE res[o][v]]
<1>1. res'[o] = f /\ \A p \in Orders \ {o} : res'[p] = res[p]
  BY LineAfter DEF CommitStock
<1>2. ASSUME NEW v \in Variants
      PROVE  /\ Held(res'[o][v]) = Held(res[o][v]) - taken[v]
             /\ Out(res'[o][v]) = Out(res[o][v]) + taken[v]
             /\ Held(res[o][v]) \in Int /\ Out(res[o][v]) \in Int /\ taken[v] \in Int
  BY <1>1, LineFields, NewStatus, InventoryAssumption DEF LinesOf, Held, Out, Sold, Status
<1>3. ASSUME NEW v \in Variants
      PROVE  /\ onHand'[v] = onHand[v] - taken[v]
             /\ reserved'[v] = reserved[v] - taken[v]
             /\ sales'[v] = sales[v] - taken[v]
             /\ manual'[v] = manual[v]
  BY DEF CommitStock
<1> HIDE DEF taken, f
<1> QED
  BY <1>1, <1>2, <1>3, BalanceFields DEF OrderMoves

LEMMA ReleaseMoves ==
    ASSUME InvTypeOK, NEW o \in Orders, NEW closed \in {"released", "expired"},
           ReleaseStock(o, closed)
    PROVE  OrderMoves(o)
<1> DEFINE f == [v \in Variants |->
                    IF v \in LinesOf(o, "active")
                    THEN [res[o][v] EXCEPT !.status = closed]
                    ELSE res[o][v]]
<1>1. res'[o] = f /\ \A p \in Orders \ {o} : res'[p] = res[p]
  BY LineAfter DEF ReleaseStock
<1>2. ASSUME NEW v \in Variants
      PROVE  /\ Held(res'[o][v]) = 0
             /\ Out(res'[o][v]) = Out(res[o][v])
             /\ Held(res[o][v]) = IF v \in LinesOf(o, "active") THEN res[o][v].qty ELSE 0
             /\ Held(res[o][v]) \in Int /\ Out(res[o][v]) \in Int
  <2>1. closed \in Status /\ closed \notin Sold /\ closed # "active"
    BY DEF Status, Sold
  <2> QED
    BY <2>1, <1>1, LineFields, NewStatus, InventoryAssumption DEF LinesOf, Held, Out, Sold
<1>3. ASSUME NEW v \in Variants
      PROVE  /\ onHand'[v] = onHand[v]
             /\ reserved'[v] =
                  IF v \in LinesOf(o, "active") THEN reserved[v] - res[o][v].qty ELSE reserved[v]
             /\ sales'[v] = sales[v]
             /\ manual'[v] = manual[v]
  BY DEF ReleaseStock
<1> HIDE DEF f
<1> QED
  BY <1>1, <1>2, <1>3, BalanceFields DEF OrderMoves

LEMMA RecoverMoves ==
    ASSUME InvTypeOK, NEW o \in Orders, RecoverStock(o)
    PROVE  OrderMoves(o)
<1> DEFINE taken == [v \in Variants |->
                        IF v \in LinesOf(o, "expired") THEN res[o][v].qty ELSE 0]
           f     == [v \in Variants |->
                        IF v \in LinesOf(o, "expired")
                        THEN [res[o][v] EXCEPT !.status = "committed"]
                        ELSE res[o][v]]
<1>1. res'[o] = f /\ \A p \in Orders \ {o} : res'[p] = res[p]
  BY LineAfter DEF RecoverStock
<1>2. ASSUME NEW v \in Variants
      PROVE  /\ Held(res'[o][v]) = Held(res[o][v])
             /\ Out(res'[o][v]) = Out(res[o][v]) + taken[v]
             /\ Held(res[o][v]) \in Int /\ Out(res[o][v]) \in Int /\ taken[v] \in Int
  BY <1>1, LineFields, NewStatus, InventoryAssumption DEF LinesOf, Held, Out, Sold, Status
<1>3. ASSUME NEW v \in Variants
      PROVE  /\ onHand'[v] = onHand[v] - taken[v]
             /\ reserved'[v] = reserved[v]
             /\ sales'[v] = sales[v] - taken[v]
             /\ manual'[v] = manual[v]
  BY DEF RecoverStock
<1> HIDE DEF taken, f
<1> QED
  BY <1>1, <1>2, <1>3, BalanceFields DEF OrderMoves

LEMMA ReturnMoves ==
    ASSUME InvTypeOK, NEW o \in Orders, ReturnStock(o)
    PROVE  OrderMoves(o)
<1> DEFINE put == [v \in Variants |->
                      IF v \in LinesOf(o, "committed") THEN Rest(o, v) ELSE 0]
           f   == [v \in Variants |->
                      IF v \in LinesOf(o, "committed")
                      THEN [res[o][v] EXCEPT !.status = "returned", !.returned = res[o][v].qty]
                      ELSE res[o][v]]
<1>1. res'[o] = f /\ \A p \in Orders \ {o} : res'[p] = res[p]
  BY LineAfter DEF ReturnStock
<1>2. ASSUME NEW v \in Variants
      PROVE  /\ Held(res'[o][v]) = Held(res[o][v])
             /\ Out(res'[o][v]) = Out(res[o][v]) - put[v]
             /\ Held(res[o][v]) \in Int /\ Out(res[o][v]) \in Int /\ put[v] \in Int
  <2>1. CASE v \notin LinesOf(o, "committed")
    <3>1. res'[o][v] = res[o][v] /\ put[v] = 0
      BY <2>1, <1>1
    <3> HIDE DEF put, f
    <3> QED
      BY <3>1, LineFields, InventoryAssumption DEF Held, Out
  <2>2. CASE v \in LinesOf(o, "committed")
    <3>1. res'[o][v].status = "returned" /\ res'[o][v].qty = res[o][v].qty
          /\ res'[o][v].returned = res[o][v].qty
      BY <2>2, <1>1, LineFields DEF SoundLine, Line
    <3>2. res[o][v].status = "committed" /\ put[v] = res[o][v].qty - res[o][v].returned
      BY <2>2 DEF LinesOf, Rest
    <3> QED
      BY <3>1, <3>2, LineFields, InventoryAssumption DEF Held, Out, Sold
  <2> QED
    BY <2>1, <2>2
<1>3. ASSUME NEW v \in Variants
      PROVE  /\ onHand'[v] = onHand[v] + put[v]
             /\ reserved'[v] = reserved[v]
             /\ sales'[v] = sales[v] + put[v]
             /\ manual'[v] = manual[v]
  BY DEF ReturnStock
<1> HIDE DEF put, f
<1> QED
  BY <1>1, <1>2, <1>3, BalanceFields DEF OrderMoves

LEMMA ReturnSomeMoves ==
    ASSUME InvTypeOK, NEW o \in Orders, NEW wanted \in [Variants -> 0..MaxQty],
           ReturnSome(o, wanted)
    PROVE  OrderMoves(o)
<1> DEFINE put == [v \in Variants |->
                      IF v \notin LinesOf(o, "committed") THEN 0
                      ELSE IF wanted[v] <= Rest(o, v) THEN wanted[v] ELSE Rest(o, v)]
           f   == [v \in Variants |->
                      IF put[v] = 0 THEN res[o][v]
                      ELSE [res[o][v] EXCEPT
                               !.returned = @ + put[v],
                               !.status = IF put[v] = Rest(o, v) THEN "returned" ELSE @]]
<1>1. res'[o] = f /\ \A p \in Orders \ {o} : res'[p] = res[p]
  BY LineAfter DEF ReturnSome
<1>2. ASSUME NEW v \in Variants
      PROVE  /\ Held(res'[o][v]) = Held(res[o][v])
             /\ Out(res'[o][v]) = Out(res[o][v]) - put[v]
             /\ Held(res[o][v]) \in Int /\ Out(res[o][v]) \in Int /\ put[v] \in Int
  <2>1. CASE put[v] = 0
    <3>1. res'[o][v] = res[o][v] /\ put[v] = 0
      BY <2>1, <1>1
    <3> HIDE DEF put, f
    <3> QED
      BY <3>1, LineFields, InventoryAssumption DEF Held, Out
  <2>2. CASE put[v] # 0
    <3>1. res[o][v].status = "committed" /\ put[v] \in Int
      BY <2>2, LineFields, InventoryAssumption DEF LinesOf, Rest
    <3>2. /\ res'[o][v].status \in {"committed", "returned"}
          /\ res'[o][v].qty = res[o][v].qty
          /\ res'[o][v].returned = res[o][v].returned + put[v]
      <4> DEFINE line == res[o][v]
                 s    == IF put[v] = Rest(o, v) THEN "returned" ELSE line.status
                 q    == line.returned + put[v]
      <4>1. res'[o][v] = [line EXCEPT !.returned = q, !.status = s]
        BY <2>2, <1>1
      <4>2. line \in Line /\ s \in {"committed", "returned"}
        BY <3>1, LineFields DEF SoundLine
      <4> HIDE DEF line, s, q
      <4>3. res'[o][v].status = s /\ res'[o][v].qty = line.qty /\ res'[o][v].returned = q
        BY <4>1, <4>2 DEF Line
      <4> QED
        BY <4>2, <4>3 DEF line, q
    <3> HIDE DEF put, f
    <3> QED
      BY <3>1, <3>2, LineFields, InventoryAssumption DEF Held, Out, Sold
  <2> QED
    BY <2>1, <2>2
<1>3. ASSUME NEW v \in Variants
      PROVE  /\ onHand'[v] = onHand[v] + put[v]
             /\ reserved'[v] = reserved[v]
             /\ sales'[v] = sales[v] + put[v]
             /\ manual'[v] = manual[v]
  BY DEF ReturnSome
<1> HIDE DEF put, f
<1> QED
  BY <1>1, <1>2, <1>3, BalanceFields DEF OrderMoves

\* A manual adjustment moves the shelf and the ledger of manual movements together.
StockMoves ==
    /\ UNCHANGED <<res, reserved, sales>>
    /\ \A v \in Variants : onHand'[v] - onHand[v] = manual'[v] - manual[v]

LEMMA AdjustMoves ==
    ASSUME InvTypeOK, NEW kind \in Kinds, NEW vs \in SUBSET Variants,
           NEW qty \in [vs -> Amounts(kind)], Adjust(kind, vs, qty)
    PROVE  StockMoves
<1> DEFINE level == [v \in Variants |->
                        IF v \in vs THEN LevelAfter(kind, v, qty[v]) ELSE onHand[v]]
<1>1. /\ onHand' = level
      /\ manual' = [v \in Variants |-> manual[v] + (level[v] - onHand[v])]
      /\ UNCHANGED <<res, reserved, sales>>
  BY DEF Adjust
<1>2. level \in [Variants -> Int]
  BY <1>1, AdjustType DEF InvTypeOK
<1> HIDE DEF level
<1> QED
  BY <1>1, <1>2, BalanceFields DEF StockMoves

LEMMA StepMoves ==
    ASSUME InvTypeOK, [InvNext]_invVars
    PROVE  (\E o \in Orders : OrderMoves(o)) \/ StockMoves
<1>1. CASE UNCHANGED invVars
  BY <1>1, BalanceFields DEF invVars, StockMoves
<1>2. ASSUME NEW o \in Orders, NEW needs \in [Variants -> 0..MaxQty],
             ReserveStock(o, needs) \/ SellNow(o, needs)
      PROVE  OrderMoves(o)
  BY <1>2, ReserveMoves, SellNowMoves
<1>3. ASSUME NEW o \in Orders, CommitStock(o) \/ RecoverStock(o) \/ ReturnStock(o)
      PROVE  OrderMoves(o)
  BY <1>3, CommitMoves, RecoverMoves, ReturnMoves
<1>4. ASSUME NEW o \in Orders, NEW closed \in {"released", "expired"}, ReleaseStock(o, closed)
      PROVE  OrderMoves(o)
  BY <1>4, ReleaseMoves
<1>5. ASSUME NEW o \in Orders, NEW wanted \in [Variants -> 0..MaxQty], ReturnSome(o, wanted)
      PROVE  OrderMoves(o)
  BY <1>5, ReturnSomeMoves
<1>6. ASSUME NEW kind \in Kinds, NEW vs \in SUBSET Variants,
             NEW qty \in [vs -> Amounts(kind)], Adjust(kind, vs, qty)
      PROVE  StockMoves
  BY <1>6, AdjustMoves
<1> QED
  BY <1>1, <1>2, <1>3, <1>4, <1>5, <1>6 DEF InvNext

-----------------------------------------------------------------------------
(* The sums are the units the reservation rows count. *)

Nothing      == [o \in Orders |-> 0]
HeldIn(r, v) == [o \in Orders |-> Held(r[o][v])]
BackIn(r, v) == [o \in Orders |-> IF r[o][v].status \in Sold THEN r[o][v].returned ELSE 0]
GoneIn(r, v) == [o \in Orders |-> IF r[o][v].status \in Sold THEN r[o][v].qty ELSE 0]

LEMMA RowsBounds ==
    ASSUME NEW r \in [Orders -> [Variants -> SoundLine]], NEW v \in Variants
    PROVE  /\ Nothing \in [Orders -> 0..MaxQty] /\ HeldIn(r, v) \in [Orders -> 0..MaxQty]
           /\ BackIn(r, v) \in [Orders -> 0..MaxQty] /\ GoneIn(r, v) \in [Orders -> 0..MaxQty]
           /\ \A o \in Orders : /\ Nothing[o] <= HeldIn(r, v)[o]
                                /\ BackIn(r, v)[o] <= GoneIn(r, v)[o]
                                /\ HeldIn(r, v)[o] - Nothing[o] = Held(r[o][v])
                                /\ GoneIn(r, v)[o] - BackIn(r, v)[o] = Out(r[o][v])
<1>1. ASSUME NEW o \in Orders
      PROVE  /\ r[o][v].qty \in 0..MaxQty /\ r[o][v].returned \in 0..MaxQty
             /\ r[o][v].returned <= r[o][v].qty
  BY DEF SoundLine, Line
<1> QED
  BY <1>1, InventoryAssumption DEF Held, Out, Nothing, HeldIn, BackIn, GoneIn

LEMMA RowsUnits ==
    ASSUME NEW r \in [Orders -> [Variants -> SoundLine]], NEW v \in Variants
    PROVE  /\ {u \in Orders \X (1..MaxQty) :
                 r[u[1]][v].status = "active" /\ u[2] <= r[u[1]][v].qty}
                = Units(Nothing, HeldIn(r, v))
           /\ {u \in Orders \X (1..MaxQty) :
                 /\ r[u[1]][v].status \in Sold
                 /\ u[2] > r[u[1]][v].returned
                 /\ u[2] <= r[u[1]][v].qty} = Units(BackIn(r, v), GoneIn(r, v))
<1>1. ASSUME NEW o \in Orders
      PROVE  r[o][v].qty \in 0..MaxQty /\ r[o][v].returned \in 0..MaxQty
  BY DEF SoundLine, Line
<1>2. {u \in Orders \X (1..MaxQty) :
         r[u[1]][v].status = "active" /\ u[2] <= r[u[1]][v].qty} = Units(Nothing, HeldIn(r, v))
  BY <1>1, InventoryAssumption DEF Units, Held, Nothing, HeldIn
<1>3. {u \in Orders \X (1..MaxQty) :
         /\ r[u[1]][v].status \in Sold
         /\ u[2] > r[u[1]][v].returned
         /\ u[2] <= r[u[1]][v].qty} = Units(BackIn(r, v), GoneIn(r, v))
  BY <1>1, InventoryAssumption DEF Units, BackIn, GoneIn
<1> QED
  BY <1>2, <1>3

LEMMA CountsMove ==
    ASSUME InvTypeOK, InvTypeOK', NEW o \in Orders, NEW v \in Variants,
           \A p \in Orders \ {o} : res'[p] = res[p]
    PROVE  /\ Cardinality(HeldUnits(v)') =
                Cardinality(HeldUnits(v)) + Held(res'[o][v]) - Held(res[o][v])
           /\ Cardinality(SoldUnits(v)') =
                Cardinality(SoldUnits(v)) + Out(res'[o][v]) - Out(res[o][v])
           /\ Held(res[o][v]) \in Int /\ Held(res'[o][v]) \in Int
           /\ Out(res[o][v]) \in Int /\ Out(res'[o][v]) \in Int
           /\ Cardinality(HeldUnits(v)) \in Int /\ Cardinality(SoldUnits(v)) \in Int
<1>1. res \in [Orders -> [Variants -> SoundLine]] /\ res' \in [Orders -> [Variants -> SoundLine]]
  BY DEF InvTypeOK
<1>2. /\ HeldUnits(v) = Units(Nothing, HeldIn(res, v))
      /\ SoldUnits(v) = Units(BackIn(res, v), GoneIn(res, v))
      /\ HeldUnits(v)' = Units(Nothing, HeldIn(res', v))
      /\ SoldUnits(v)' = Units(BackIn(res', v), GoneIn(res', v))
  BY <1>1, RowsUnits DEF HeldUnits, SoldUnits
<1>3. \A p \in Orders \ {o} : /\ HeldIn(res', v)[p] = HeldIn(res, v)[p]
                              /\ BackIn(res', v)[p] = BackIn(res, v)[p]
                              /\ GoneIn(res', v)[p] = GoneIn(res, v)[p]
  BY DEF HeldIn, BackIn, GoneIn
<1>4. /\ Nothing \in [Orders -> 0..MaxQty]
      /\ HeldIn(res, v) \in [Orders -> 0..MaxQty] /\ HeldIn(res', v) \in [Orders -> 0..MaxQty]
      /\ BackIn(res, v) \in [Orders -> 0..MaxQty] /\ BackIn(res', v) \in [Orders -> 0..MaxQty]
      /\ GoneIn(res, v) \in [Orders -> 0..MaxQty] /\ GoneIn(res', v) \in [Orders -> 0..MaxQty]
      /\ Nothing[o] <= HeldIn(res, v)[o] /\ Nothing[o] <= HeldIn(res', v)[o]
      /\ BackIn(res, v)[o] <= GoneIn(res, v)[o] /\ BackIn(res', v)[o] <= GoneIn(res', v)[o]
  BY <1>1, RowsBounds
<1>5. /\ HeldIn(res, v)[o] - Nothing[o] = Held(res[o][v])
      /\ HeldIn(res', v)[o] - Nothing[o] = Held(res'[o][v])
      /\ GoneIn(res, v)[o] - BackIn(res, v)[o] = Out(res[o][v])
      /\ GoneIn(res', v)[o] - BackIn(res', v)[o] = Out(res'[o][v])
  BY <1>1, RowsBounds
<1>9. /\ Held(res[o][v]) \in Int /\ Held(res'[o][v]) \in Int
      /\ Out(res[o][v]) \in Int /\ Out(res'[o][v]) \in Int
  BY <1>4, <1>5, InventoryAssumption
<1>6. Cardinality(HeldUnits(v)') =
        Cardinality(HeldUnits(v)) + Held(res'[o][v]) - Held(res[o][v])
  <2> DEFINE a == HeldIn(res, v)
             b == HeldIn(res', v)
  <2>1. Others(o, Nothing, a) = Others(o, Nothing, b)
    BY <1>3, OthersSame
  <2>2. Cardinality(Units(Nothing, a)) =
          Cardinality(Others(o, Nothing, a)) + (a[o] - Nothing[o])
    BY <1>4, UnitsOfOne
  <2>3. Cardinality(Units(Nothing, b)) =
          Cardinality(Others(o, Nothing, b)) + (b[o] - Nothing[o])
    BY <1>4, UnitsOfOne
  <2>4. Cardinality(Others(o, Nothing, a)) \in Nat
    BY OthersFinite, FS_CardinalityType
  <2> QED
    BY <1>2, <1>5, <1>9, <2>1, <2>2, <2>3, <2>4
<1>7. Cardinality(SoldUnits(v)') =
        Cardinality(SoldUnits(v)) + Out(res'[o][v]) - Out(res[o][v])
  <2> DEFINE a == BackIn(res, v)
             b == GoneIn(res, v)
             c == BackIn(res', v)
             d == GoneIn(res', v)
  <2>1. Others(o, a, b) = Others(o, c, d)
    BY <1>3, OthersSame
  <2>2. Cardinality(Units(a, b)) = Cardinality(Others(o, a, b)) + (b[o] - a[o])
    BY <1>4, UnitsOfOne
  <2>3. Cardinality(Units(c, d)) = Cardinality(Others(o, c, d)) + (d[o] - c[o])
    BY <1>4, UnitsOfOne
  <2>4. Cardinality(Others(o, a, b)) \in Nat
    BY OthersFinite, FS_CardinalityType
  <2> QED
    BY <1>2, <1>5, <1>9, <2>1, <2>2, <2>3, <2>4
<1>8. Cardinality(HeldUnits(v)) \in Nat /\ Cardinality(SoldUnits(v)) \in Nat
  BY <1>2, UnitsFinite, FS_CardinalityType
<1> QED
  BY <1>6, <1>7, <1>8, <1>9

-----------------------------------------------------------------------------
(* The sums agree with the reservation rows *)

SumsAgree == ReservedIsHeld /\ StockConserved

LEMMA SumsInit == InvInit => SumsAgree
<1> SUFFICES ASSUME InvInit, NEW v \in Variants
             PROVE  /\ reserved[v] = Cardinality(HeldUnits(v))
                    /\ sales[v] = - Cardinality(SoldUnits(v))
                    /\ onHand[v] = manual[v] + sales[v]
  BY DEF SumsAgree, ReservedIsHeld, StockConserved
<1>1. HeldUnits(v) = {} /\ SoldUnits(v) = {}
  BY DEF InvInit, HeldUnits, SoldUnits, NoLine, Sold
<1>2. Cardinality({}) = 0
  BY FS_EmptySet
<1>3. onHand[v] \in Int /\ manual[v] = onHand[v] /\ reserved[v] = 0 /\ sales[v] = 0
  BY InventoryAssumption DEF InvInit
<1> QED
  BY <1>1, <1>2, <1>3

LEMMA SumsStep ==
    ASSUME InvTypeOK, InvTypeOK', SumsAgree, [InvNext]_invVars
    PROVE  SumsAgree'
<1> SUFFICES ASSUME NEW v \in Variants
             PROVE  /\ reserved'[v] = Cardinality(HeldUnits(v)')
                    /\ sales'[v] = - Cardinality(SoldUnits(v)')
                    /\ onHand'[v] = manual'[v] + sales'[v]
  BY DEF SumsAgree, ReservedIsHeld, StockConserved
<1>1. /\ reserved[v] = Cardinality(HeldUnits(v))
      /\ sales[v] = - Cardinality(SoldUnits(v))
      /\ onHand[v] = manual[v] + sales[v]
  BY DEF SumsAgree, ReservedIsHeld, StockConserved
<1>2. ASSUME NEW o \in Orders, OrderMoves(o)
      PROVE  /\ reserved'[v] = Cardinality(HeldUnits(v)')
             /\ sales'[v] = - Cardinality(SoldUnits(v)')
             /\ onHand'[v] = manual'[v] + sales'[v]
  <2>1. \A p \in Orders \ {o} : res'[p] = res[p]
    BY <1>2 DEF OrderMoves
  <2>2. /\ reserved'[v] = reserved[v] + Held(res'[o][v]) - Held(res[o][v])
        /\ sales'[v] = sales[v] + Out(res[o][v]) - Out(res'[o][v])
        /\ onHand'[v] = onHand[v] + Out(res[o][v]) - Out(res'[o][v])
        /\ manual'[v] = manual[v]
    BY <1>2 DEF OrderMoves
  <2> QED
    BY <1>1, <2>1, <2>2, CountsMove, BalanceFields
<1>3. CASE StockMoves
  <2>1. HeldUnits(v)' = HeldUnits(v) /\ SoldUnits(v)' = SoldUnits(v)
    BY <1>3 DEF StockMoves, HeldUnits, SoldUnits
  <2>2. onHand'[v] \in Int /\ manual'[v] \in Int
    BY DEF InvTypeOK
  <2> QED
    BY <1>1, <1>3, <2>1, <2>2, BalanceFields DEF StockMoves
<1> QED
  BY <1>2, <1>3, StepMoves

LEMMA SumsInvariant == InvSpec => []SumsAgree
<1>1. InvTypeOK /\ InvTypeOK' /\ SumsAgree /\ [InvNext]_invVars => SumsAgree'
  BY SumsStep
<1> QED
  BY SumsInit, TypeCorrect, <1>1, PTL DEF InvSpec

\* `reserved_milli` of a balance is always what the active reservations hold: the daily
\* check `reserved_mismatches` finds nothing, whatever order the operations ran in.
THEOREM ReservedCorrect == InvSpec => []ReservedIsHeld
<1>1. SumsAgree => ReservedIsHeld
  BY DEF SumsAgree
<1> QED
  BY SumsInvariant, <1>1, PTL

\* Orders neither create nor lose stock: the shelf is what was put there by hand minus what
\* was sold and has not come back, and `audit_ledger` finds the ledger equal to the balance.
THEOREM StockCorrect == InvSpec => []StockConserved
<1>1. SumsAgree => StockConserved
  BY DEF SumsAgree
<1> QED
  BY SumsInvariant, <1>1, PTL
-----------------------------------------------------------------------------
(* A shelf that ran out, or has less than it owes, was announced. *)

Announced == ShortfallIsFlagged /\ SoldOutIsAnnounced

\* What a step owes to Announced, variant by variant.
AnnouncesAt(v) ==
    /\ events \subseteq events'
    /\ reserved'[v] > onHand'[v] =>
          reserved[v] > onHand[v] \/ <<"oversold", v>> \in events'
    /\ onHand'[v] <= 0 => onHand[v] <= 0 \/ <<"sold_out", v>> \in events'

LEMMA SoldOutEmitted ==
    ASSUME NEW level, NEW v \in Variants, onHand[v] > 0, level[v] <= 0
    PROVE  <<"sold_out", v>> \in EmitSoldOut(level)
BY DEF EmitSoldOut, CrossedToZero

LEMMA AnnouncedStep ==
    ASSUME InvTypeOK, NEW v \in Variants, [InvNext]_invVars
    PROVE  AnnouncesAt(v)
<1> USE BalanceFields, InventoryAssumption
<1>1. CASE UNCHANGED invVars
  BY <1>1 DEF invVars, AnnouncesAt
<1>2. ASSUME NEW o \in Orders, NEW needs \in [Variants -> 0..MaxQty], ReserveStock(o, needs)
      PROVE  AnnouncesAt(v)
  <2>1. /\ needs[v] \in Int /\ needs[v] >= 0
        /\ needs[v] > 0 => needs[v] <= onHand[v] - reserved[v]
        /\ reserved'[v] = reserved[v] + needs[v]
        /\ onHand'[v] = onHand[v] /\ events' = events
    BY <1>2 DEF ReserveStock, Available
  <2> QED
    BY <2>1 DEF AnnouncesAt
<1>3. ASSUME NEW o \in Orders, NEW needs \in [Variants -> 0..MaxQty], SellNow(o, needs)
      PROVE  AnnouncesAt(v)
  <2> DEFINE level == [w \in Variants |-> onHand[w] - needs[w]]
  <2>1. /\ needs[v] \in Int /\ needs[v] >= 0
        /\ needs[v] > 0 => needs[v] <= onHand[v] - reserved[v]
        /\ reserved'[v] = reserved[v] /\ onHand' = level
        /\ level[v] = onHand[v] - needs[v]
        /\ events' = events \cup EmitSoldOut(level)
    BY <1>3 DEF SellNow, Available
  <2> HIDE DEF level
  <2> QED
    BY <2>1, SoldOutEmitted DEF AnnouncesAt
<1>4. ASSUME NEW o \in Orders, CommitStock(o)
      PROVE  AnnouncesAt(v)
  <2> DEFINE taken == [w \in Variants |->
                          IF w \in LinesOf(o, "active") THEN res[o][w].qty ELSE 0]
             level == [w \in Variants |-> onHand[w] - taken[w]]
  <2>1. taken[v] \in Int
    BY LineFields
  <2>2. /\ reserved'[v] = reserved[v] - taken[v] /\ onHand' = level
        /\ level[v] = onHand[v] - taken[v]
        /\ events' = events \cup EmitSoldOut(level)
    BY <1>4 DEF CommitStock
  <2> HIDE DEF taken, level
  <2> QED
    BY <2>1, <2>2, SoldOutEmitted DEF AnnouncesAt
<1>5. ASSUME NEW o \in Orders, NEW closed \in {"released", "expired"}, ReleaseStock(o, closed)
      PROVE  AnnouncesAt(v)
  <2>1. /\ reserved'[v] =
              IF v \in LinesOf(o, "active") THEN reserved[v] - res[o][v].qty ELSE reserved[v]
        /\ onHand'[v] = onHand[v] /\ events' = events
        /\ res[o][v].qty \in Int /\ res[o][v].qty >= 0
    BY <1>5, LineFields DEF ReleaseStock
  <2> QED
    BY <2>1 DEF AnnouncesAt
<1>6. ASSUME NEW o \in Orders, RecoverStock(o)
      PROVE  AnnouncesAt(v)
  <2> DEFINE taken == [w \in Variants |->
                          IF w \in LinesOf(o, "expired") THEN res[o][w].qty ELSE 0]
             level == [w \in Variants |-> onHand[w] - taken[w]]
  <2>1. taken[v] \in Int /\ (taken[v] = 0 \/ taken[v] <= onHand[v] - reserved[v])
    BY <1>6, LineFields DEF RecoverStock, CanRecover, Available
  <2>2. /\ reserved'[v] = reserved[v] /\ onHand' = level
        /\ level[v] = onHand[v] - taken[v]
        /\ events' = events \cup EmitSoldOut(level)
    BY <1>6 DEF RecoverStock
  <2> HIDE DEF taken, level
  <2> QED
    BY <2>1, <2>2, SoldOutEmitted DEF AnnouncesAt
<1>7. ASSUME NEW o \in Orders, ReturnStock(o)
      PROVE  AnnouncesAt(v)
  <2> DEFINE put == [w \in Variants |-> IF w \in LinesOf(o, "committed") THEN Rest(o, w) ELSE 0]
  <2>1. put[v] \in Int /\ put[v] >= 0
    BY LineFields DEF Rest
  <2>2. reserved'[v] = reserved[v] /\ onHand'[v] = onHand[v] + put[v] /\ events' = events
    BY <1>7 DEF ReturnStock
  <2> HIDE DEF put
  <2> QED
    BY <2>1, <2>2 DEF AnnouncesAt
<1>8. ASSUME NEW o \in Orders, NEW wanted \in [Variants -> 0..MaxQty], ReturnSome(o, wanted)
      PROVE  AnnouncesAt(v)
  <2> DEFINE put == [w \in Variants |->
                        IF w \notin LinesOf(o, "committed") THEN 0
                        ELSE IF wanted[w] <= Rest(o, w) THEN wanted[w] ELSE Rest(o, w)]
  <2>1. put[v] \in Int /\ put[v] >= 0
    BY LineFields DEF Rest
  <2>2. reserved'[v] = reserved[v] /\ onHand'[v] = onHand[v] + put[v] /\ events' = events
    BY <1>8 DEF ReturnSome
  <2> HIDE DEF put
  <2> QED
    BY <2>1, <2>2 DEF AnnouncesAt
<1>9. ASSUME NEW kind \in Kinds, NEW vs \in SUBSET Variants,
             NEW qty \in [vs -> Amounts(kind)], Adjust(kind, vs, qty)
      PROVE  AnnouncesAt(v)
  <2> DEFINE level == [w \in Variants |->
                          IF w \in vs THEN LevelAfter(kind, w, qty[w]) ELSE onHand[w]]
  <2>1. /\ onHand' = level /\ reserved' = reserved
        /\ v \notin vs => level[v] = onHand[v]
        /\ events' = events \cup EmitSoldOut(level)
                            \cup ({"oversold"} \X {w \in vs : level[w] < reserved[w]})
    BY <1>9 DEF Adjust
  <2>2. level[v] \in Int
    BY <1>9, <2>1, AdjustType DEF InvTypeOK
  <2> HIDE DEF level
  <2>3. v \in vs /\ level[v] < reserved[v] => <<"oversold", v>> \in events'
    BY <2>1
  <2>4. onHand[v] > 0 /\ level[v] <= 0 => <<"sold_out", v>> \in events'
    BY <2>1, SoldOutEmitted
  <2>5. events \subseteq events'
    BY <2>1
  <2> QED
    BY <2>1, <2>2, <2>3, <2>4, <2>5 DEF AnnouncesAt
<1> QED
  BY <1>1, <1>2, <1>3, <1>4, <1>5, <1>6, <1>7, <1>8, <1>9 DEF InvNext

LEMMA AnnouncedInvariant == InvSpec => []Announced
<1>1. InvInit => Announced
  BY InventoryAssumption DEF InvInit, Announced, ShortfallIsFlagged, SoldOutIsAnnounced
<1>2. InvTypeOK /\ Announced /\ [InvNext]_invVars => Announced'
  <2> SUFFICES ASSUME InvTypeOK, Announced, [InvNext]_invVars, NEW v \in Variants
               PROVE  /\ reserved'[v] > onHand'[v] => <<"oversold", v>> \in events'
                      /\ onHand'[v] <= 0 => <<"sold_out", v>> \in events'
    BY DEF Announced, ShortfallIsFlagged, SoldOutIsAnnounced
  <2> QED
    BY AnnouncedStep DEF AnnouncesAt, Announced, ShortfallIsFlagged, SoldOutIsAnnounced
<1> QED
  BY TypeCorrect, <1>1, <1>2, PTL DEF InvSpec

\* Open orders hold more than the shelf has only after a physical count said so, and then
\* `inventory.oversold` was emitted: no sale, expiry or late recovery ever causes it.
THEOREM ShortfallCorrect == InvSpec => []ShortfallIsFlagged
<1>1. Announced => ShortfallIsFlagged
  BY DEF Announced
<1> QED
  BY AnnouncedInvariant, <1>1, PTL

\* No variant is out of stock without `inventory.sold_out` having been emitted, whichever of
\* the operations took the last unit.
THEOREM SoldOutCorrect == InvSpec => []SoldOutIsAnnounced
<1>1. Announced => SoldOutIsAnnounced
  BY DEF Announced
<1> QED
  BY AnnouncedInvariant, <1>1, PTL
-----------------------------------------------------------------------------
(* Reservation rows only move forward. *)

LEMMA RowStep ==
    ASSUME InvTypeOK, NEW p \in Orders, NEW v \in Variants, [InvNext]_invVars
    PROVE  LineNext(res[p][v].status, res'[p][v].status)
<1> USE DEF LineNext
<1>1. CASE res' = res
  BY <1>1
<1>2. ASSUME NEW o \in Orders, NEW f, res' = [res EXCEPT ![o] = f],
             p # o \/ LineNext(res[o][v].status, f[v].status)
      PROVE  LineNext(res[p][v].status, res'[p][v].status)
  BY <1>2, LineAfter
<1>3. ASSUME NEW o \in Orders, NEW needs \in [Variants -> 0..MaxQty],
             ReserveStock(o, needs) \/ SellNow(o, needs)
      PROVE  LineNext(res[p][v].status, res'[p][v].status)
  <2>1. res[o][v].status = "none"
    BY <1>3 DEF ReserveStock, SellNow, NoLine
  <2>2. CASE ReserveStock(o, needs)
    BY <1>2, <2>1, <2>2 DEF ReserveStock, NoLine
  <2>3. CASE SellNow(o, needs)
    BY <1>2, <2>1, <2>3 DEF SellNow, NoLine
  <2> QED
    BY <1>3, <2>2, <2>3
<1>4. ASSUME NEW o \in Orders, CommitStock(o)
      PROVE  LineNext(res[p][v].status, res'[p][v].status)
  <2>1. v \in LinesOf(o, "active") =>
          /\ res[o][v].status = "active"
          /\ [res[o][v] EXCEPT !.status = "committed"].status = "committed"
    BY LineFields, NewStatus DEF LinesOf, Sold, Status
  <2> QED
    BY <1>2, <1>4, <2>1 DEF CommitStock
<1>5. ASSUME NEW o \in Orders, NEW closed \in {"released", "expired"}, ReleaseStock(o, closed)
      PROVE  LineNext(res[p][v].status, res'[p][v].status)
  <2>1. v \in LinesOf(o, "active") =>
          /\ res[o][v].status = "active"
          /\ [res[o][v] EXCEPT !.status = closed].status = closed
    BY LineFields, NewStatus DEF LinesOf, Sold, Status
  <2> QED
    BY <1>2, <1>5, <2>1 DEF ReleaseStock
<1>6. ASSUME NEW o \in Orders, RecoverStock(o)
      PROVE  LineNext(res[p][v].status, res'[p][v].status)
  <2>1. v \in LinesOf(o, "expired") =>
          /\ res[o][v].status = "expired"
          /\ [res[o][v] EXCEPT !.status = "committed"].status = "committed"
    BY LineFields, NewStatus DEF LinesOf, Sold, Status
  <2> QED
    BY <1>2, <1>6, <2>1 DEF RecoverStock
<1>7. ASSUME NEW o \in Orders, ReturnStock(o)
      PROVE  LineNext(res[p][v].status, res'[p][v].status)
  <2> DEFINE g == [res[o][v] EXCEPT !.status = "returned", !.returned = res[o][v].qty]
  <2>1. g.status = "returned"
    BY LineFields DEF SoundLine, Line
  <2>2. v \in LinesOf(o, "committed") => res[o][v].status = "committed"
    BY DEF LinesOf
  <2> QED
    BY <1>2, <1>7, <2>1, <2>2 DEF ReturnStock
<1>8. ASSUME NEW o \in Orders, NEW wanted \in [Variants -> 0..MaxQty], ReturnSome(o, wanted)
      PROVE  LineNext(res[p][v].status, res'[p][v].status)
  <2> DEFINE put == [w \in Variants |->
                        IF w \notin LinesOf(o, "committed") THEN 0
                        ELSE IF wanted[w] <= Rest(o, w) THEN wanted[w] ELSE Rest(o, w)]
             f   == [w \in Variants |->
                        IF put[w] = 0 THEN res[o][w]
                        ELSE [res[o][w] EXCEPT
                                 !.returned = @ + put[w],
                                 !.status = IF put[w] = Rest(o, w) THEN "returned" ELSE @]]
  <2>1. res' = [res EXCEPT ![o] = f]
    BY <1>8 DEF ReturnSome
  <2>2. CASE put[v] = 0
    BY <1>2, <2>1, <2>2
  <2>3. CASE put[v] # 0
    <3> DEFINE line == res[o][v]
               s    == IF put[v] = Rest(o, v) THEN "returned" ELSE line.status
               q    == line.returned + put[v]
    <3>1. f[v] = [line EXCEPT !.returned = q, !.status = s]
      BY <2>3
    <3>2. line \in Line /\ line.status = "committed" /\ s \in {"committed", "returned"}
      BY <2>3, LineFields DEF SoundLine, LinesOf
    <3> HIDE DEF s, q, f, put
    <3>3. f[v].status = s
      BY <3>1, <3>2 DEF Line
    <3> QED
      BY <1>2, <2>1, <3>2, <3>3
  <2> QED
    BY <2>2, <2>3
<1> QED
  BY <1>1, <1>3, <1>4, <1>5, <1>6, <1>7, <1>8 DEF InvNext, Adjust, invVars

\* A released, expired or returned line is never held again; only an expired one may still
\* be sold, by the late payment that finds its stock.
THEOREM RowsForward == InvSpec => LinesNeverReopen
<1>1. InvTypeOK /\ [InvNext]_invVars =>
        [\A o \in Orders, v \in Variants :
            LineNext(res[o][v].status, res'[o][v].status)]_invVars
  BY RowStep
<1> QED
  BY TypeCorrect, <1>1, PTL DEF InvSpec, LinesNeverReopen
-----------------------------------------------------------------------------
(* The inductive invariant *)

Statuses == OrderStatus \cup {"new"}
Payings == {"no", "money", "free"}

OrderTypeOK ==
    /\ status \in [Orders -> Statuses]
    /\ paid \in [Orders -> Payings]

\* Who is paid is marked as paid, and nobody else is, but who was and is cancelled.
Marked(s, p) ==
    /\ s \in PAID_STATUSES => p # "no"
    /\ s \in {"new", "awaiting_payment", "failed"} => p = "no"

\* What the lines of an order may show, next to "none".
Lines(s, p) ==
    CASE s = "new"              -> {}
      [] s = "awaiting_payment" -> {"active"}
      [] s = "failed"           -> {"expired"}
      [] s \in PAID_STATUSES    -> Sold
      [] s = "cancelled"        -> IF p = "no" THEN {"released"} ELSE Sold

StockInv ==
    /\ InvTypeOK /\ OrderTypeOK
    /\ \A o \in Orders : Marked(status[o], paid[o]) /\ LinesIn(o, Lines(status[o], paid[o]))

-----------------------------------------------------------------------------
(* The machine *)

LEMMA MachineStatuses ==
    /\ PAID_STATUSES \subseteq OrderStatus
    /\ \A s \in OrderStatus :
          s \in PAID_STATUSES \/ s \in {"awaiting_payment", "cancelled", "failed"}
    /\ "new" \notin OrderStatus
    /\ {"awaiting_payment", "cancelled", "failed"} \cap PAID_STATUSES = {}
    /\ {"payment_confirmed", "accepted", "ready_for_pickup", "shipped", "delivered"}
          \subseteq PAID_STATUSES
    /\ "cancelled" \in OrderStatus /\ "failed" \in OrderStatus /\ "awaiting_payment" \in OrderStatus
BY DEF PAID_STATUSES, OrderStatus

\* The operator moves paid orders, to paid statuses, unless it cancels.
LEMMA OperatorMoves ==
    ASSUME NEW now, NEW target, NEW kind, NEW approved, NEW limit, target # "cancelled",
           Allowed(now, target, "operator", kind, approved, limit)
    PROVE  now \in PAID_STATUSES /\ target \in PAID_STATUSES
<1>1. PICK t \in TRANSITIONS : now \in t.sources /\ target = t.target /\ "operator" \in t.actors
  BY DEF Allowed
<1> QED
  BY <1>1 DEF TRANSITIONS, Move, PAID_STATUSES, OrderStatus, AfterPayment

LEMMA CancelSources ==
    ASSUME NEW now, NEW actor, NEW kind, NEW approved, NEW limit,
           Allowed(now, "cancelled", actor, kind, approved, limit)
    PROVE  now = "awaiting_payment" \/ now \in PAID_STATUSES
<1>1. PICK t \in TRANSITIONS : now \in t.sources /\ "cancelled" = t.target
  BY DEF Allowed
<1> QED
  BY <1>1 DEF TRANSITIONS, Move, PAID_STATUSES, OrderStatus, AfterPayment

LEMMA AfterPaidIsPaid ==
    ASSUME NEW auto
    PROVE  AfterPaid(auto) \in PAID_STATUSES /\ AfterPaid(auto) \in Statuses
BY DEF AfterPaid, PAID_STATUSES, OrderStatus, Statuses

\* What the lines of each status are.
LEMMA LinesOfStatus ==
    /\ Lines("new", "no") = {} /\ Lines("awaiting_payment", "no") = {"active"}
    /\ Lines("failed", "no") = {"expired"} /\ Lines("cancelled", "no") = {"released"}
    /\ \A p \in Payings \ {"no"} : Lines("cancelled", p) = Sold
    /\ \A p \in Payings, s \in PAID_STATUSES : Lines(s, p) = Sold
BY MachineStatuses DEF Lines

-----------------------------------------------------------------------------
(* The refinement: every step of an order is a step of the stock, or leaves it alone. *)

LEMMA StockStep ==
    ASSUME [SalesNext]_salesVars
    PROVE  [InvNext]_invVars
<1>1. CASE UNCHANGED salesVars
  BY <1>1 DEF salesVars
<1>2. ASSUME NEW o \in Orders, NEW kind \in OfferedTypes, NEW needs \in [Variants -> 0..MaxQty],
             NEW withTicket, NEW withCoupon, NEW free, NEW auto,
             Place(o, kind, needs, withTicket, withCoupon, free, auto)
      PROVE  InvNext
  BY <1>2 DEF Place, InvNext
<1>3. ASSUME NEW o \in Orders, NEW auto, ConfirmPayment(o, auto) \/ RecoverLatePayment(o, auto)
      PROVE  InvNext
  BY <1>3 DEF ConfirmPayment, RecoverLatePayment, InvNext
<1>4. ASSUME NEW o \in Orders, NEW actor, NEW limit, NEW restock, Cancel(o, actor, limit, restock)
      PROVE  [InvNext]_invVars
  BY <1>4 DEF Cancel, InvNext
<1>5. ASSUME NEW o \in Orders, Expire(o)
      PROVE  InvNext
  BY <1>5 DEF Expire, InvNext
<1>6. ASSUME NEW o \in Orders, NEW wanted \in [Variants -> 0..MaxQty], RefundItems(o, wanted)
      PROVE  InvNext
  BY <1>6 DEF RefundItems, InvNext
<1>7. ASSUME NEW kind \in Kinds, NEW vs \in SUBSET Variants, NEW qty \in [vs -> Amounts(kind)],
             AdjustStock(kind, vs, qty)
      PROVE  InvNext
  BY <1>7 DEF AdjustStock, InvNext
<1>8. ASSUME NEW o \in Orders, NEW target,
             \/ DeadlinePasses(o) \/ StoreMoves(o, target) \/ CarrierDelivered(o)
             \/ CourierPickedUp(o) \/ CourierDelivered(o) \/ Admit(o)
      PROVE  UNCHANGED invVars
  BY <1>8 DEF DeadlinePasses, StoreMoves, CarrierDelivered, CourierPickedUp, CourierDelivered, Admit
<1> QED
  BY <1>1, <1>2, <1>3, <1>4, <1>5, <1>6, <1>7, <1>8 DEF SalesNext

\* The stock under the orders is the one Inventory describes: whatever places, pays, recovers, cancels,
\* expires and returns orders makes calls that any caller may make, so every theorem of Inventory
\* holds of the store's orders.
THEOREM SalesUsesInventory == SalesSpec => InvSpec
<1>1. SalesInit => InvInit
  BY DEF SalesInit
<1> QED
  BY <1>1, StockStep, PTL DEF SalesSpec, InvSpec

\* So the balances reserve what the active rows hold, in every history of the orders.
THEOREM SalesReserved == SalesSpec => []ReservedIsHeld
BY SalesUsesInventory, ReservedCorrect, PTL

\* And an adjustment, a sale or a return is the only thing that changes what a store has on hand:
\* StockConserved, in every history of the orders.
THEOREM SalesStock == SalesSpec => []StockConserved
BY SalesUsesInventory, StockCorrect, PTL

-----------------------------------------------------------------------------
(* What each operation of the stock does to the statuses of the lines of its order *)

OtherLines(o) == \A q \in Orders \ {o} : res'[q] = res[q]
Becomes(o, from, to) ==
    \A v \in Variants : res'[o][v].status = IF res[o][v].status = from THEN to ELSE res[o][v].status

LEMMA ReserveLines ==
    ASSUME InvTypeOK, NEW o \in Orders, NEW needs \in [Variants -> 0..MaxQty],
           NEW s \in {"active", "committed"},
           \/ s = "active" /\ ReserveStock(o, needs)
           \/ s = "committed" /\ SellNow(o, needs)
    PROVE  OtherLines(o) /\ \A v \in Variants : res'[o][v].status \in {s, "none"}
<1> DEFINE f == [v \in Variants |-> IF needs[v] > 0 THEN [status |-> s, qty |-> needs[v], returned |-> 0]
                                                  ELSE NoLine]
<1>1. res' = [res EXCEPT ![o] = f]
  BY DEF ReserveStock, SellNow
<1>2. \A v \in Variants : f[v].status \in {s, "none"}
  BY DEF NoLine
<1> HIDE DEF f
<1> QED
  BY <1>1, <1>2 DEF InvTypeOK, OtherLines

\* Lines of one status become another.
LEMMA StatusBecomes ==
    ASSUME InvTypeOK, NEW o \in Orders, NEW from, NEW to,
           res' = [res EXCEPT ![o] = [v \in Variants |->
                      IF v \in LinesOf(o, from) THEN [res[o][v] EXCEPT !.status = to] ELSE res[o][v]]]
    PROVE  OtherLines(o) /\ Becomes(o, from, to)
<1> DEFINE f == [v \in Variants |->
                    IF v \in LinesOf(o, from) THEN [res[o][v] EXCEPT !.status = to] ELSE res[o][v]]
<1>1. \A v \in Variants : f[v].status = IF res[o][v].status = from THEN to ELSE res[o][v].status
  BY LineFields DEF LinesOf, SoundLine, Line
<1>2. res' = [res EXCEPT ![o] = f]
  OBVIOUS
<1> HIDE DEF f
<1> QED
  BY <1>1, <1>2 DEF InvTypeOK, OtherLines, Becomes

LEMMA CommitLines ==
    ASSUME InvTypeOK, NEW o \in Orders, CommitStock(o)
    PROVE  OtherLines(o) /\ Becomes(o, "active", "committed")
BY StatusBecomes DEF CommitStock

LEMMA RecoverLines ==
    ASSUME InvTypeOK, NEW o \in Orders, RecoverStock(o)
    PROVE  OtherLines(o) /\ Becomes(o, "expired", "committed")
BY StatusBecomes DEF RecoverStock

LEMMA ReleaseLines ==
    ASSUME InvTypeOK, NEW o \in Orders, NEW closed, ReleaseStock(o, closed)
    PROVE  OtherLines(o) /\ Becomes(o, "active", closed)
BY StatusBecomes DEF ReleaseStock

LEMMA ReturnLines ==
    ASSUME InvTypeOK, NEW o \in Orders, ReturnStock(o)
    PROVE  OtherLines(o) /\ Becomes(o, "committed", "returned")
<1> DEFINE f == [v \in Variants |->
                    IF v \in LinesOf(o, "committed")
                    THEN [res[o][v] EXCEPT !.status = "returned", !.returned = res[o][v].qty]
                    ELSE res[o][v]]
<1>1. \A v \in Variants :
        f[v].status = IF res[o][v].status = "committed" THEN "returned" ELSE res[o][v].status
  BY LineFields DEF LinesOf, SoundLine, Line
<1>2. res' = [res EXCEPT ![o] = f]
  BY DEF ReturnStock
<1> HIDE DEF f
<1> QED
  BY <1>1, <1>2 DEF InvTypeOK, OtherLines, Becomes

LEMMA ReturnSomeLines ==
    ASSUME InvTypeOK, NEW o \in Orders, NEW wanted \in [Variants -> 0..MaxQty], ReturnSome(o, wanted)
    PROVE  /\ OtherLines(o)
           /\ \A v \in Variants : \/ res'[o][v].status = res[o][v].status
                                  \/ res[o][v].status \in Sold /\ res'[o][v].status \in Sold
<1> DEFINE put == [v \in Variants |->
                      IF v \notin LinesOf(o, "committed") THEN 0
                      ELSE IF wanted[v] <= Rest(o, v) THEN wanted[v] ELSE Rest(o, v)]
           f   == [v \in Variants |->
                      IF put[v] = 0 THEN res[o][v]
                      ELSE [res[o][v] EXCEPT
                               !.returned = @ + put[v],
                               !.status = IF put[v] = Rest(o, v) THEN "returned" ELSE @]]
<1>1. res' = [res EXCEPT ![o] = f]
  BY DEF ReturnSome
<1>2. \A v \in Variants : put[v] # 0 => res[o][v].status = "committed"
  BY DEF LinesOf
<1> HIDE DEF put
<1>3. \A v \in Variants :
        f[v].status = IF put[v] # 0 /\ put[v] = Rest(o, v) THEN "returned" ELSE res[o][v].status
  BY LineFields DEF SoundLine, Line
<1> HIDE DEF f
<1> QED
  BY <1>1, <1>2, <1>3 DEF InvTypeOK, OtherLines, Sold

-----------------------------------------------------------------------------
(* The stock follows the order *)

\* A step that changes one order keeps the invariant if it does for that order.
LEMMA OneOrder ==
    ASSUME StockInv, InvTypeOK', NEW o \in Orders, NEW s \in Statuses, NEW p \in Payings,
           status' = [status EXCEPT ![o] = s], paid' = [paid EXCEPT ![o] = p],
           OtherLines(o), Marked(s, p),
           \A v \in Variants : res'[o][v].status \in Lines(s, p) \cup {"none"}
    PROVE  StockInv'
<1>1. OrderTypeOK'
  BY DEF StockInv, OrderTypeOK
<1>2. /\ status'[o] = s /\ paid'[o] = p
      /\ \A q \in Orders \ {o} : status'[q] = status[q] /\ paid'[q] = paid[q] /\ res'[q] = res[q]
  BY DEF StockInv, OrderTypeOK, OtherLines
<1>3. ASSUME NEW q \in Orders
      PROVE  /\ Marked(status'[q], paid'[q])
             /\ \A v \in Variants : res'[q][v].status \in Lines(status'[q], paid'[q]) \cup {"none"}
  <2>1. CASE q = o
    BY <2>1, <1>2
  <2>2. CASE q # o
    BY <2>2, <1>2 DEF StockInv, LinesIn
  <2> QED
    BY <2>1, <2>2
<1> QED
  BY <1>1, <1>3 DEF StockInv, LinesIn

\* The lines of an order whose status changes, when those it held take the new one's.
LEMMA LinesFollow ==
    ASSUME StockInv, NEW o \in Orders, NEW s, NEW p, NEW from, NEW to,
           Becomes(o, from, to), Lines(status[o], paid[o]) \subseteq {from} \cup Lines(s, p),
           to \in Lines(s, p), from # "none"
    PROVE  \A v \in Variants : res'[o][v].status \in Lines(s, p) \cup {"none"}
BY DEF StockInv, LinesIn, Becomes

\* `_transition` among paid statuses leaves the stock alone.
LEMMA PaidMoves ==
    ASSUME StockInv, InvTypeOK', NEW o \in Orders, NEW s \in PAID_STATUSES,
           status[o] \in PAID_STATUSES,
           status' = [status EXCEPT ![o] = s], UNCHANGED <<paid, res>>
    PROVE  StockInv'
<1> DEFINE p == paid[o]
<1>1. p \in Payings /\ paid' = [paid EXCEPT ![o] = p] /\ s \in Statuses
  BY MachineStatuses DEF StockInv, OrderTypeOK, Statuses
<1>2. Marked(s, p)
  BY MachineStatuses DEF StockInv, Marked
<1>3. Lines(s, p) = Sold /\ Lines(status[o], p) = Sold
  BY <1>1, LinesOfStatus
<1>4. \A v \in Variants : res'[o][v].status \in Lines(s, p) \cup {"none"}
  BY <1>3 DEF StockInv, LinesIn
<1>5. OtherLines(o)
  BY DEF OtherLines
<1> HIDE DEF p
<1> QED
  BY <1>1, <1>2, <1>4, <1>5, OneOrder

LEMMA PlaceStock ==
    ASSUME StockInv, InvTypeOK', NEW o \in Orders, NEW kind, NEW needs \in [Variants -> 0..MaxQty],
           NEW withTicket, NEW withCoupon, NEW free, NEW auto,
           Place(o, kind, needs, withTicket, withCoupon, free, auto)
    PROVE  StockInv'
<1>1. CASE free
  <2>1. SellNow(o, needs) /\ status' = [status EXCEPT ![o] = AfterPaid(auto)]
        /\ paid' = [paid EXCEPT ![o] = "free"]
    BY <1>1 DEF Place
  <2>2. OtherLines(o) /\ \A v \in Variants : res'[o][v].status \in {"committed", "none"}
    BY <2>1, ReserveLines DEF StockInv
  <2>3. Lines(AfterPaid(auto), "free") = Sold /\ Marked(AfterPaid(auto), "free")
    BY AfterPaidIsPaid, LinesOfStatus, MachineStatuses DEF Marked, Payings
  <2> QED
    BY <2>1, <2>2, <2>3, AfterPaidIsPaid, OneOrder DEF Sold, Payings
<1>2. CASE ~free
  <2>1. /\ ReserveStock(o, needs) /\ status' = [status EXCEPT ![o] = "awaiting_payment"]
        /\ paid' = paid /\ status[o] = "new"
    BY <1>2 DEF Place
  <2>2. OtherLines(o) /\ \A v \in Variants : res'[o][v].status \in {"active", "none"}
    BY <2>1, ReserveLines DEF StockInv
  <2>3. paid[o] = "no" /\ paid' = [paid EXCEPT ![o] = "no"]
    BY <2>1 DEF StockInv, OrderTypeOK, Marked
  <2>4. Marked("awaiting_payment", "no") /\ "awaiting_payment" \in Statuses /\ "no" \in Payings
    BY MachineStatuses DEF Marked, Statuses, Payings
  <2> QED
    BY <2>1, <2>2, <2>3, <2>4, LinesOfStatus, OneOrder
<1> QED
  BY <1>1, <1>2

LEMMA PaymentStock ==
    ASSUME StockInv, InvTypeOK', NEW o \in Orders, NEW auto,
           ConfirmPayment(o, auto) \/ RecoverLatePayment(o, auto)
    PROVE  StockInv'
<1>1. status' = [status EXCEPT ![o] = AfterPaid(auto)] /\ paid' = [paid EXCEPT ![o] = "money"]
  BY DEF ConfirmPayment, RecoverLatePayment, Paid
<1>2. /\ Lines(AfterPaid(auto), "money") = Sold /\ Marked(AfterPaid(auto), "money")
      /\ AfterPaid(auto) \in Statuses /\ "money" \in Payings
  BY AfterPaidIsPaid, LinesOfStatus, MachineStatuses DEF Marked, Payings
<1>3. CASE ConfirmPayment(o, auto)
  <2>1. status[o] = "awaiting_payment" /\ CommitStock(o)
    BY <1>3 DEF ConfirmPayment
  <2>2. OtherLines(o) /\ Becomes(o, "active", "committed")
    BY <2>1, CommitLines DEF StockInv
  <2>3. Lines(status[o], paid[o]) = {"active"}
    BY <2>1, LinesOfStatus DEF StockInv, Marked
  <2> QED
    BY <1>1, <1>2, <2>2, <2>3, LinesFollow, OneOrder DEF Sold
<1>4. CASE RecoverLatePayment(o, auto)
  <2>1. status[o] = "failed" /\ RecoverStock(o)
    BY <1>4 DEF RecoverLatePayment
  <2>2. OtherLines(o) /\ Becomes(o, "expired", "committed")
    BY <2>1, RecoverLines DEF StockInv
  <2>3. Lines(status[o], paid[o]) = {"expired"}
    BY <2>1, LinesOfStatus DEF StockInv, Marked
  <2> QED
    BY <1>1, <1>2, <2>2, <2>3, LinesFollow, OneOrder DEF Sold
<1> QED
  BY <1>3, <1>4

LEMMA CancelStock ==
    ASSUME StockInv, InvTypeOK', NEW o \in Orders, NEW actor, NEW limit, NEW restock,
           Cancel(o, actor, limit, restock)
    PROVE  StockInv'
<1> DEFINE p == paid[o]
<1>1. /\ status' = [status EXCEPT ![o] = "cancelled"] /\ paid' = [paid EXCEPT ![o] = p]
      /\ p \in Payings /\ "cancelled" \in Statuses /\ Marked("cancelled", p)
  BY MachineStatuses DEF Cancel, Transition, StockInv, OrderTypeOK, Statuses, Marked
<1>2. status[o] = "awaiting_payment" \/ status[o] \in PAID_STATUSES
  BY CancelSources DEF Cancel, Transition
<1>3. CASE status[o] = "awaiting_payment"
  <2>1. ReleaseStock(o, "released")
    BY <1>3 DEF Cancel
  <2>2. OtherLines(o) /\ Becomes(o, "active", "released")
    BY <2>1, ReleaseLines DEF StockInv
  <2>3. p = "no"
    BY <1>3 DEF StockInv, Marked
  <2>4. Lines(status[o], p) = {"active"} /\ Lines("cancelled", p) = {"released"}
    BY <1>3, <2>3, LinesOfStatus
  <2>5. \A v \in Variants : res'[o][v].status \in Lines("cancelled", p) \cup {"none"}
    BY <2>2, <2>4, LinesFollow
  <2> HIDE DEF p
  <2> QED
    BY <1>1, <2>2, <2>5, OneOrder
<1>4. CASE status[o] \in PAID_STATUSES
  <2>1. p # "no"
    BY <1>4 DEF StockInv, Marked
  <2>2. Lines(status[o], p) = Sold /\ Lines("cancelled", p) = Sold
    BY <1>1, <1>4, <2>1, LinesOfStatus
  <2>3. ReturnStock(o) \/ UNCHANGED invVars
    BY <1>4, MachineStatuses DEF Cancel
  <2>4. CASE ReturnStock(o)
    <3>1. OtherLines(o) /\ Becomes(o, "committed", "returned")
      BY <2>4, ReturnLines DEF StockInv
    <3>2. \A v \in Variants : res'[o][v].status \in Lines("cancelled", p) \cup {"none"}
      BY <2>2, <3>1, LinesFollow DEF Sold
    <3> HIDE DEF p
    <3> QED
      BY <1>1, <3>1, <3>2, OneOrder
  <2>5. CASE UNCHANGED invVars
    <3>1. OtherLines(o) /\ \A v \in Variants : res'[o][v].status \in Lines("cancelled", p) \cup {"none"}
      BY <2>2, <2>5 DEF invVars, OtherLines, StockInv, LinesIn
    <3> HIDE DEF p
    <3> QED
      BY <1>1, <3>1, OneOrder
  <2> QED
    BY <2>3, <2>4, <2>5
<1> QED
  BY <1>2, <1>3, <1>4

LEMMA ExpireStock ==
    ASSUME StockInv, InvTypeOK', NEW o \in Orders, Expire(o)
    PROVE  StockInv'
<1>1. /\ status[o] = "awaiting_payment" /\ ReleaseStock(o, "expired")
      /\ status' = [status EXCEPT ![o] = "failed"] /\ paid' = paid
  BY DEF Expire, Due, Transition
<1>2. OtherLines(o) /\ Becomes(o, "active", "expired")
  BY <1>1, ReleaseLines DEF StockInv
<1>3. paid[o] = "no" /\ paid' = [paid EXCEPT ![o] = "no"]
  BY <1>1 DEF StockInv, OrderTypeOK, Marked
<1>4. Lines(status[o], paid[o]) = {"active"} /\ Lines("failed", "no") = {"expired"}
  BY <1>1, <1>3, LinesOfStatus
<1>5. Marked("failed", "no") /\ "failed" \in Statuses /\ "no" \in Payings
  BY MachineStatuses DEF Marked, Statuses, Payings
<1> QED
  BY <1>1, <1>2, <1>3, <1>4, <1>5, LinesFollow, OneOrder

LEMMA DeliveryStock ==
    ASSUME StockInv, InvTypeOK', NEW o \in Orders, NEW target,
           \/ StoreMoves(o, target) \/ CarrierDelivered(o)
           \/ CourierPickedUp(o) \/ CourierDelivered(o)
    PROVE  StockInv'
<1>1. CASE StoreMoves(o, target)
  <2>1. status[o] \in PAID_STATUSES /\ target \in PAID_STATUSES
    BY <1>1, OperatorMoves DEF StoreMoves, Transition
  <2> QED
    BY <1>1, <2>1, PaidMoves DEF StoreMoves, Transition, invVars
<1>2. CASE CarrierDelivered(o)
  BY <1>2, PaidMoves, MachineStatuses DEF CarrierDelivered, Transition, invVars
<1>3. CASE CourierPickedUp(o)
  BY <1>3, PaidMoves, MachineStatuses DEF CourierPickedUp, Transition, invVars
<1>4. CASE CourierDelivered(o)
  BY <1>4, PaidMoves, MachineStatuses DEF CourierDelivered, invVars
<1> QED
  BY <1>1, <1>2, <1>3, <1>4

LEMMA RefundStock ==
    ASSUME StockInv, InvTypeOK', NEW o \in Orders, NEW wanted \in [Variants -> 0..MaxQty],
           RefundItems(o, wanted)
    PROVE  StockInv'
<1> DEFINE s == status[o]
           p == paid[o]
<1>1. /\ p = "money" /\ status' = [status EXCEPT ![o] = s] /\ paid' = [paid EXCEPT ![o] = p]
      /\ s \in Statuses /\ p \in Payings /\ Marked(s, p)
  BY DEF RefundItems, orderVars, StockInv, OrderTypeOK
<1>2. s \in PAID_STATUSES \/ s = "cancelled"
  BY <1>1, MachineStatuses DEF Marked, Statuses
<1>3. Lines(s, p) = Sold
  BY <1>1, <1>2, LinesOfStatus
<1>4. /\ OtherLines(o)
      /\ \A v \in Variants : \/ res'[o][v].status = res[o][v].status
                             \/ res[o][v].status \in Sold /\ res'[o][v].status \in Sold
  BY ReturnSomeLines DEF RefundItems, StockInv
<1>5. \A v \in Variants : res'[o][v].status \in Lines(s, p) \cup {"none"}
  BY <1>3, <1>4 DEF StockInv, LinesIn
<1> HIDE DEF s, p
<1> QED
  BY <1>1, <1>4, <1>5, OneOrder

\* Steps that leave status, payment and lines alone.
LEMMA OtherStock ==
    ASSUME StockInv, InvTypeOK', UNCHANGED <<status, paid, res>>
    PROVE  StockInv'
BY DEF StockInv, OrderTypeOK, LinesIn

LEMMA StockInvStep ==
    ASSUME StockInv, [SalesNext]_salesVars
    PROVE  StockInv'
<1>0. InvTypeOK'
  BY StockStep, TypeStep DEF StockInv
<1>1. CASE UNCHANGED salesVars
  BY <1>0, <1>1, OtherStock DEF salesVars, invVars, orderVars
<1>2. ASSUME NEW o \in Orders, NEW kind \in OfferedTypes, NEW needs \in [Variants -> 0..MaxQty],
             NEW withTicket, NEW withCoupon, NEW free, NEW auto,
             Place(o, kind, needs, withTicket, withCoupon, free, auto)
      PROVE  StockInv'
  BY <1>0, <1>2, PlaceStock
<1>3. ASSUME NEW o \in Orders, NEW auto, ConfirmPayment(o, auto) \/ RecoverLatePayment(o, auto)
      PROVE  StockInv'
  BY <1>0, <1>3, PaymentStock
<1>4. ASSUME NEW o \in Orders, NEW actor, NEW limit, NEW restock, Cancel(o, actor, limit, restock)
      PROVE  StockInv'
  BY <1>0, <1>4, CancelStock
<1>5. ASSUME NEW o \in Orders, Expire(o)
      PROVE  StockInv'
  BY <1>0, <1>5, ExpireStock
<1>6. ASSUME NEW o \in Orders, NEW wanted \in [Variants -> 0..MaxQty], RefundItems(o, wanted)
      PROVE  StockInv'
  BY <1>0, <1>6, RefundStock
<1>7. ASSUME NEW kind, NEW vs, NEW qty, AdjustStock(kind, vs, qty)
      PROVE  StockInv'
  BY <1>0, <1>7, OtherStock DEF AdjustStock, Adjust, orderVars
<1>8. ASSUME NEW o \in Orders, NEW target,
             \/ StoreMoves(o, target) \/ CarrierDelivered(o)
             \/ CourierPickedUp(o) \/ CourierDelivered(o)
      PROVE  StockInv'
  BY <1>0, <1>8, DeliveryStock
<1>9. ASSUME NEW o \in Orders, DeadlinePasses(o) \/ Admit(o)
      PROVE  StockInv'
  BY <1>0, <1>9, OtherStock DEF DeadlinePasses, Admit, invVars
<1> QED
  BY <1>1, <1>2, <1>3, <1>4, <1>5, <1>6, <1>7, <1>8, <1>9 DEF SalesNext

LEMMA StockInvInit == SalesInit => StockInv
<1> SUFFICES ASSUME SalesInit PROVE StockInv
  OBVIOUS
<1>1. InvTypeOK
  BY TypeInit DEF SalesInit
<1>2. OrderTypeOK
  BY DEF SalesInit, OrderTypeOK, Statuses, Payings
<1>3. \A o \in Orders : Marked(status[o], paid[o])
  BY MachineStatuses DEF SalesInit, Marked
<1>4. \A o \in Orders, v \in Variants : res[o][v].status = "none"
  BY DEF SalesInit, InvInit, NoLine
<1> QED
  BY <1>1, <1>2, <1>3, <1>4 DEF StockInv, LinesIn

\* An unpaid order holds all its lines, a failed one none, a paid one took them all, a cancelled one
\* gave back what it held: for every number of orders, in every order of payments, expiries,
\* recoveries, cancellations and returns (OrderService with ReservationService).
THEOREM StockFollows == SalesSpec => []StockFollowsOrder
<1>1. StockInv /\ [SalesNext]_salesVars => StockInv'
  BY StockInvStep
<1>2. StockInv => StockFollowsOrder
  BY DEF StockInv, StockFollowsOrder, Lines
<1> QED
  BY StockInvInit, <1>1, <1>2, PTL DEF SalesSpec

-----------------------------------------------------------------------------
(* The coupon's counter *)

Active == {o \in Orders : coupon[o] = "active"}

\* An order that is not placed holds no redemption: so a redemption is never counted twice.
CouponInv ==
    /\ status \in [Orders -> Statuses]
    /\ coupon \in [Orders -> {"none", "active", "released"}]
    /\ \A o \in Orders : status[o] = "new" => coupon[o] = "none"
    /\ CouponCountIsActive

LEMMA ActiveIsFinite == IsFiniteSet(Active)
BY InventoryAssumption, FS_Subset DEF Active

\* Redeeming counts one more: the order held none.
LEMMA RedeemCounts ==
    ASSUME CouponInv, NEW o \in Orders, coupon[o] = "none", RedeemCoupon(o)
    PROVE  /\ CouponCountIsActive'
           /\ coupon' = [coupon EXCEPT ![o] = "active"]
<1>1. Active' = Active \cup {o} /\ o \notin Active
  BY DEF RedeemCoupon, Active, CouponInv
<1>2. Cardinality(Active') = Cardinality(Active) + 1
  BY <1>1, ActiveIsFinite, FS_AddElement
<1> QED
  BY <1>2 DEF RedeemCoupon, Active, CouponInv, CouponCountIsActive

\* Releasing counts one less, and the floor at zero is never needed.
LEMMA ReleaseCounts ==
    ASSUME CouponInv, NEW o \in Orders, ReleaseCoupon(o)
    PROVE  /\ CouponCountIsActive'
           /\ coupon' = [coupon EXCEPT ![o] = IF @ = "active" THEN "released" ELSE @]
<1>1. CASE coupon[o] = "active"
  <2>1. Active' = Active \ {o} /\ o \in Active
    BY <1>1 DEF ReleaseCoupon, Active, CouponInv
  <2>2. Cardinality(Active') = Cardinality(Active) - 1
    BY <2>1, ActiveIsFinite, FS_RemoveElement
  <2>3. Cardinality(Active) \in Nat /\ Cardinality(Active') \in Nat
    BY <2>1, ActiveIsFinite, FS_CardinalityType, FS_RemoveElement
  <2>4. redemptions = Cardinality(Active)
    BY DEF CouponInv, CouponCountIsActive, Active
  <2>5. redemptions' = redemptions - 1
    BY <1>1, <2>2, <2>3, <2>4 DEF ReleaseCoupon
  <2>6. CouponCountIsActive'
    BY <2>2, <2>4, <2>5 DEF CouponCountIsActive, Active
  <2> QED
    BY <1>1, <2>6 DEF ReleaseCoupon, CouponInv
<1>2. CASE coupon[o] # "active"
  BY <1>2 DEF ReleaseCoupon, CouponInv, CouponCountIsActive
<1> QED
  BY <1>1, <1>2

\* What a step that moves one order to a placed status must do to the coupon.
LEMMA OneOrderCoupon ==
    ASSUME CouponInv, NEW o \in Orders, NEW s \in OrderStatus, CouponCountIsActive',
           NEW c \in {"none", "active", "released"},
           status' = [status EXCEPT ![o] = s], coupon' = [coupon EXCEPT ![o] = c]
    PROVE  CouponInv'
BY MachineStatuses DEF CouponInv, Statuses

LEMMA KeptCoupon ==
    ASSUME CouponInv, NEW o \in Orders, NEW s \in OrderStatus,
           status' = [status EXCEPT ![o] = s], UNCHANGED <<coupon, redemptions>>
    PROVE  CouponInv'
BY MachineStatuses DEF CouponInv, CouponCountIsActive, Statuses

\* The machine only names statuses of placed orders.
LEMMA AllowedTarget ==
    ASSUME NEW now, NEW target, NEW actor, NEW kind, NEW approved, NEW limit,
           Allowed(now, target, actor, kind, approved, limit)
    PROVE  target \in OrderStatus
<1>1. PICK t \in TRANSITIONS : target = t.target
  BY DEF Allowed
<1> QED
  BY <1>1 DEF TRANSITIONS, Move, OrderStatus

LEMMA CouponInvStep ==
    ASSUME CouponInv, [SalesNext]_salesVars
    PROVE  CouponInv'
<1>1. ASSUME UNCHANGED <<status, coupon, redemptions>>
      PROVE  CouponInv'
  BY <1>1 DEF CouponInv, CouponCountIsActive
<1>2. ASSUME NEW o \in Orders, NEW kind, NEW needs, NEW withTicket, NEW withCoupon, NEW free, NEW auto,
             Place(o, kind, needs, withTicket, withCoupon, free, auto)
      PROVE  CouponInv'
  <2>1. coupon[o] = "none"
    BY <1>2 DEF Place, CouponInv
  <2>2. \E s \in OrderStatus : status' = [status EXCEPT ![o] = s]
    BY <1>2, AfterPaidIsPaid, MachineStatuses DEF Place
  <2>3. CASE withCoupon
    BY <1>2, <2>1, <2>2, <2>3, RedeemCounts, OneOrderCoupon DEF Place
  <2>4. CASE ~withCoupon
    BY <1>2, <2>2, <2>4, KeptCoupon DEF Place
  <2> QED
    BY <2>3, <2>4
<1>3. ASSUME NEW o \in Orders, NEW auto, ConfirmPayment(o, auto) \/ RecoverLatePayment(o, auto)
      PROVE  CouponInv'
  <2>1. status' = [status EXCEPT ![o] = AfterPaid(auto)] /\ UNCHANGED <<coupon, redemptions>>
    BY <1>3 DEF ConfirmPayment, RecoverLatePayment, Paid
  <2> QED
    BY <2>1, AfterPaidIsPaid, MachineStatuses, KeptCoupon
<1>4. ASSUME NEW o \in Orders, NEW s \in OrderStatus, ReleaseCoupon(o),
             status' = [status EXCEPT ![o] = s]
      PROVE  CouponInv'
  BY <1>4, ReleaseCounts, OneOrderCoupon DEF CouponInv
<1>5. ASSUME NEW o \in Orders, NEW actor, NEW limit, NEW restock, Cancel(o, actor, limit, restock)
      PROVE  CouponInv'
  <2>1. status' = [status EXCEPT ![o] = "cancelled"]
    BY <1>5 DEF Cancel, Transition
  <2>2. ReleaseCoupon(o) \/ UNCHANGED <<coupon, redemptions>>
    BY <1>5 DEF Cancel
  <2> QED
    BY <1>4, <2>1, <2>2, MachineStatuses, KeptCoupon
<1>6. ASSUME NEW o \in Orders, Expire(o)
      PROVE  CouponInv'
  BY <1>4, <1>6, MachineStatuses DEF Expire, Transition
<1>7. ASSUME NEW o \in Orders, NEW target,
             \/ StoreMoves(o, target) \/ CarrierDelivered(o)
             \/ CourierPickedUp(o) \/ CourierDelivered(o)
      PROVE  CouponInv'
  BY <1>7, AllowedTarget, MachineStatuses, KeptCoupon
     DEF StoreMoves, CarrierDelivered, CourierPickedUp, CourierDelivered, Transition
<1>8. ASSUME NEW o \in Orders, NEW wanted, NEW kind, NEW vs, NEW qty,
             \/ RefundItems(o, wanted) \/ DeadlinePasses(o) \/ Admit(o)
      PROVE  UNCHANGED <<status, coupon, redemptions>>
  BY <1>8 DEF RefundItems, DeadlinePasses, Admit, orderVars
<1>9. ASSUME NEW kind, NEW vs, NEW qty, AdjustStock(kind, vs, qty)
      PROVE  UNCHANGED <<status, coupon, redemptions>>
  BY <1>9 DEF AdjustStock, orderVars
<1>10. CASE UNCHANGED salesVars
  BY <1>1, <1>10 DEF salesVars, orderVars
<1> QED
  BY <1>1, <1>2, <1>3, <1>5, <1>6, <1>7, <1>8, <1>9, <1>10 DEF SalesNext

LEMMA CouponInvInit == SalesInit => CouponInv
<1> SUFFICES ASSUME SalesInit PROVE CouponInv
  OBVIOUS
<1>1. {o \in Orders : coupon[o] = "active"} = {}
  BY DEF SalesInit
<1>2. CouponCountIsActive
  BY <1>1, FS_EmptySet DEF SalesInit, CouponCountIsActive
<1> QED
  BY <1>2 DEF SalesInit, CouponInv, Statuses

\* `redemptions_count` counts the redemptions that hold a place, so no mix of expiries, cancellations
\* and late payments loses one or gives one back twice: the row lock's floor at zero hides nothing.
THEOREM CouponCorrect == SalesSpec => []CouponCountIsActive
<1>1. CouponInv /\ [SalesNext]_salesVars => CouponInv'
  BY CouponInvStep
<1>2. CouponInv => CouponCountIsActive
  BY DEF CouponInv
<1> QED
  BY CouponInvInit, <1>1, <1>2, PTL DEF SalesSpec
=============================================================================
