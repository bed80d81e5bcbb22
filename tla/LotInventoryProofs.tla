-------------------------- MODULE LotInventoryProofs --------------------------
(***************************************************************************)
(* Proofs about LotInventory: warehouses and lots agree, what is available *)
(* can be sold, the history adds up to the stock, and nothing that was     *)
(* unfit becomes sellable again.                                           *)
(*                                                                         *)
(* Each step that changes the stock takes goods out (TakesOut), brings     *)
(* goods in (BringsIn), moves them, or gives loose ones a lot; what each   *)
(* of these does to a table of lots is said once, for any table.           *)
(***************************************************************************)
EXTENDS LotInventory, FiniteTheorems

LotsType == [Warehouses -> [Codes -> Lot]]

\* A table of lots of which those that do not exist have no units.
Sound(ls) ==
    /\ ls \in LotsType
    /\ \A w \in Warehouses, c \in Codes : ~ls[w][c].known => ls[w][c].units = 0

\* Lots that exist go on to exist, with their expiry and their block.
Keeps(before, after) ==
    \A w \in Warehouses, c \in Codes : before[w][c].known =>
        /\ after[w][c].known
        /\ after[w][c].expires = before[w][c].expires
        /\ after[w][c].blocked = before[w][c].blocked

Held(ls, w) == [c \in Codes |-> ls[w][c].units]
Total(f) == SumFunctionOnSet(f, Codes)

\* What lots account for is in stock, and all of it is when lots are required.
Within(ls, st, sr) ==
    \A w \in Warehouses : /\ Total(Held(ls, w)) <= st[w]
                          /\ sr => Total(Held(ls, w)) = st[w]

\* What a sale took, and what came back of it.
SaleOK(s) ==
    /\ \A c \in Codes : taken[s][c] > 0 => /\ lots[HomeOf[s]][c].known
                                           /\ ~lots[HomeOf[s]][c].blocked
    /\ \A c \in Codes \ {ReturnCode} : given[s][c] <= taken[s][c]
    /\ ReturnedUnits(s) <= SoldUnits(s)
    /\ ReturnedUnits(s) = SoldUnits(s) =>
           \A c \in Codes \ {ReturnCode} : given[s][c] = taken[s][c]

SalesOK == \A s \in Sales : SaleOK(s)

\* Who runs runs a request.
Asked == \A p \in Procs : tx[p].pc = "run" => tx[p].req \in Requests

FiniteTables == IsFiniteSet(log) /\ IsFiniteSet(Sold)

IInv ==
    /\ TypeOK /\ Sound(lots) /\ Within(lots, stock, strict)
    /\ SalesOK /\ Asked /\ FiniteTables
    /\ StockIsItsHistory /\ AnswersAreTrue

-----------------------------------------------------------------------------
(* Sums over the lots of a warehouse.                                      *)

LEMMA KindsFacts ==
    /\ IsFiniteSet(Codes) /\ IsFiniteSet(Kinds) /\ ReturnCode \in Codes
    /\ Loose \notin Codes /\ Codes \subseteq Kinds /\ Kinds = Codes \cup {Loose}
BY CodesAssumption, FS_AddElement DEF Kinds

\* The units of a set of lots, as the code adds them up.
LEMMA UnitsOfSet ==
    ASSUME NEW ls \in LotsType, NEW w \in Warehouses, NEW set, set \subseteq Codes
    PROVE  /\ SumFunction([c \in set |-> ls[w][c].units]) = SumFunctionOnSet(Held(ls, w), set)
           /\ SumFunctionOnSet(Held(ls, w), set) \in Nat
           /\ \A c \in set : Held(ls, w)[c] \in Nat
<1> DEFINE f == [c \in set |-> ls[w][c].units]
<1>1. IsFiniteSet(set)
  BY KindsFacts, FS_Subset
<1>2. \A c \in set : f[c] = Held(ls, w)[c] /\ Held(ls, w)[c] \in Nat
  BY DEF Held, LotsType, Lot
<1>3. SumFunction(f) = SumFunctionOnSet(f, set)
  BY Zenon DEF SumFunction
<1> HIDE DEF f
<1>4. SumFunctionOnSet(f, set) = SumFunctionOnSet(Held(ls, w), set)
  BY <1>1, <1>2, SumSame
<1>5. SumFunctionOnSet(Held(ls, w), set) \in Nat
  BY <1>1, <1>2, SumNat
<1>6. QED  BY <1>2, <1>3, <1>4, <1>5 DEF f

\* What is loose, in these words.
LEMMA LooseUnits ==
    ASSUME lots \in LotsType, NEW w \in Warehouses
    PROVE  /\ Units(w, Codes) = Total(Held(lots, w)) /\ Total(Held(lots, w)) \in Nat
           /\ Untracked(w) = stock[w] - Total(Held(lots, w))
BY UnitsOfSet DEF Units, Untracked, Total

\* All that was taken is what lots gave and what was loose.
LEMMA AllKinds ==
    ASSUME NEW f \in [Kinds -> Nat]
    PROVE  /\ SumFunction(f) = f[Loose] + Total(f)
           /\ Total(f) \in Nat /\ f[Loose] \in Nat
           /\ \A c \in Codes : f[c] \in Nat
<1>1. \A c \in Kinds : f[c] \in Nat
  OBVIOUS
<1>2. SumFunction(f) = SumFunctionOnSet(f, Kinds)
  BY DEF SumFunction
<1>3. SumFunctionOnSet(f, Codes \cup {Loose}) = f[Loose] + SumFunctionOnSet(f, Codes)
  BY <1>1, KindsFacts, SumAdd
<1>4. SumFunctionOnSet(f, Codes) \in Nat
  BY <1>1, KindsFacts, SumNat
<1>5. QED  BY <1>1, <1>2, <1>3, <1>4, KindsFacts DEF Total

LEMMA NothingFacts ==
    Nothing \in [Kinds -> Nat] /\ Total(Nothing) = 0 /\ SumFunction(Nothing) = 0
<1>1. Nothing \in [Kinds -> Nat] /\ \A c \in Kinds : Nothing[c] = 0
  BY DEF Nothing
<1>2. SumFunctionOnSet(Nothing, Codes) = SumFunctionOnSet(Nothing, {})
  <2>1. {} \subseteq Codes /\ (\A x \in Codes : Nothing[x] \in Int)
           /\ (\A x \in Codes \ {} : Nothing[x] = 0)
    BY <1>1, KindsFacts
  <2>2. QED  BY <2>1, KindsFacts, SumZeroes
<1>3. Total(Nothing) = 0
  BY <1>2, SumEmpty DEF Total
<1>4. QED  BY <1>1, <1>3, AllKinds, KindsFacts

-----------------------------------------------------------------------------
(* Goods that leave lots.                                                  *)

\* Units that can be taken at w, of each lot and of what is loose.
Takes(w, n, take) ==
    /\ take \in [Kinds -> Nat] /\ n \in Nat
    /\ \A c \in Codes : take[c] <= lots[w][c].units
    /\ take[Loose] <= Untracked(w)
    /\ strict => take[Loose] = 0
    /\ n = take[Loose] + Total(take)

LEMMA AllocationTakes ==
    ASSUME TypeOK, Sound(lots), Within(lots, stock, strict), NEW w \in Warehouses, NEW n \in Nat,
           NEW lot, NEW unfitToo, NEW take \in Allocations(w, n, lot, unfitToo)
    PROVE  /\ Takes(w, n, take)
           /\ \A c \in Codes : take[c] > 0 => lots[w][c].known /\ (unfitToo \/ Fit(w, c))
<1> DEFINE candidates == {c \in Codes : /\ lots[w][c].known
                                        /\ lot \in {None, c}
                                        /\ unfitToo \/ Fit(w, c)}
           has == [c \in Kinds |-> IF c = Loose THEN LooseUsable(w, lot)
                                   ELSE IF c \in candidates THEN lots[w][c].units ELSE 0]
<1>1. /\ take \in [Kinds -> 0..n] /\ \A c \in Kinds : take[c] <= has[c]
      /\ SumFunction(take) = n
  BY DEF Allocations
<1>2. take \in [Kinds -> Nat]
  BY <1>1
<1>3. n = take[Loose] + Total(take) /\ take[Loose] \in Nat /\ \A c \in Codes : take[c] \in Nat
  BY <1>1, <1>2, AllKinds
<1>4. \A c \in Codes : lots[w][c].units \in Nat
  BY DEF TypeOK, Lot
<1>5. \A c \in Codes : take[c] <= (IF c \in candidates THEN lots[w][c].units ELSE 0)
  BY <1>1, KindsFacts
<1>6. take[Loose] <= LooseUsable(w, lot)
  BY <1>1, KindsFacts
<1>7. Untracked(w) \in Nat
  <2>1. Total(Held(lots, w)) <= stock[w] /\ stock[w] \in Nat
    BY DEF Within, TypeOK
  <2>2. QED  BY <2>1, LooseUnits DEF Sound
<1>8. take[Loose] <= Untracked(w) /\ (strict => take[Loose] = 0)
  BY <1>3, <1>6, <1>7 DEF LooseUsable
<1>9. \A c \in Codes : take[c] <= lots[w][c].units
  BY <1>3, <1>4, <1>5
<1>10. \A c \in Codes : take[c] > 0 => c \in candidates
  BY <1>3, <1>5
<1>11. QED  BY <1>2, <1>3, <1>8, <1>9, <1>10 DEF Takes

\* A table of lots from which units are taken at w.
LessAt(lot, take) == [c \in Codes |-> [lot[c] EXCEPT !.units = @ - take[c]]]
Less(ls, w, take) == [ls EXCEPT ![w] = LessAt(ls[w], take)]

LEMMA WithoutIsLess == \A w, take : Without(w, take) = Less(lots, w, take)
BY Zenon DEF Without, Less, LessAt

LEMMA LessLots ==
    ASSUME NEW ls, Sound(ls), NEW w \in Warehouses, NEW take \in [Kinds -> Nat],
           \A c \in Codes : take[c] <= ls[w][c].units
    PROVE  /\ Sound(Less(ls, w, take)) /\ Keeps(ls, Less(ls, w, take))
           /\ \A c \in Codes :
                 /\ Less(ls, w, take)[w][c].known = ls[w][c].known
                 /\ Less(ls, w, take)[w][c].expires = ls[w][c].expires
                 /\ Less(ls, w, take)[w][c].blocked = ls[w][c].blocked
                 /\ Less(ls, w, take)[w][c].units = ls[w][c].units - take[c]
           /\ \A v \in Warehouses \ {w} : Less(ls, w, take)[v] = ls[v]
           /\ Total(Held(Less(ls, w, take), w)) = Total(Held(ls, w)) - Total(take)
<1> DEFINE after == Less(ls, w, take)
<1>1. ls \in LotsType /\ \A v \in Warehouses, c \in Codes : ~ls[v][c].known => ls[v][c].units = 0
  BY DEF Sound
<1>2. \A c \in Codes : take[c] \in Nat
  BY KindsFacts
<1>3. \A c \in Codes : /\ ls[w][c] \in Lot
                       /\ after[w][c] = [ls[w][c] EXCEPT !.units = ls[w][c].units - take[c]]
  <2>0. after[w] = LessAt(ls[w], take)
    BY <1>1 DEF Less, LotsType
  <2>1. \A c \in Codes : after[w][c] = [ls[w][c] EXCEPT !.units = ls[w][c].units - take[c]]
    BY <2>0 DEF LessAt
  <2>2. \A c \in Codes : ls[w][c] \in Lot
    BY <1>1 DEF LotsType
  <2> HIDE DEF after
  <2>3. QED  BY <2>1, <2>2
<1>4. \A c \in Codes : /\ after[w][c].known = ls[w][c].known
                       /\ after[w][c].expires = ls[w][c].expires
                       /\ after[w][c].blocked = ls[w][c].blocked
                       /\ after[w][c].units = ls[w][c].units - take[c]
                       /\ after[w][c] \in Lot
  <2>1. TAKE c \in Codes
  <2>2. ls[w][c] \in Lot /\ take[c] \in Nat /\ take[c] <= ls[w][c].units
    BY <1>2, <1>3
  <2>3. after[w][c] = [ls[w][c] EXCEPT !.units = ls[w][c].units - take[c]]
    BY <1>3
  <2> HIDE DEF after
  <2>4. QED  BY <2>2, <2>3 DEF Lot
<1>5. \A v \in Warehouses \ {w} : after[v] = ls[v]
  BY <1>1 DEF Less, LotsType
<1>6. after \in LotsType
  <2>1. after = [v \in Warehouses |-> after[v]]
    BY <1>1 DEF Less, LotsType
  <2>2. after[w] = [c \in Codes |-> after[w][c]]
    BY <1>1 DEF Less, LessAt, LotsType
  <2>3. after[w] \in [Codes -> Lot]
    BY <1>4, <2>2
  <2>4. \A v \in Warehouses : after[v] \in [Codes -> Lot]
    BY <1>1, <1>5, <2>3 DEF LotsType
  <2> HIDE DEF after
  <2>5. QED  BY <2>1, <2>4 DEF LotsType
<1> HIDE DEF after
<1>7. Sound(after)
  <2>1. \A c \in Codes : ~after[w][c].known => after[w][c].units = 0
    BY <1>1, <1>2, <1>4
  <2>2. \A v \in Warehouses, c \in Codes : ~after[v][c].known => after[v][c].units = 0
    BY <1>1, <1>5, <2>1
  <2>3. QED  BY <1>6, <2>2 DEF Sound
<1>8. Keeps(ls, after)
  BY <1>4, <1>5 DEF Keeps
<1>9. Total(Held(after, w)) = Total(Held(ls, w)) - Total(take)
  <2>1. \A c \in Codes : /\ Held(after, w)[c] \in Int /\ take[c] \in Int
                         /\ Held(ls, w)[c] = Held(after, w)[c] + take[c]
    <3>1. TAKE c \in Codes
    <3>2. /\ ls[w][c] \in Lot /\ take[c] \in Nat
          /\ after[w][c].units = ls[w][c].units - take[c]
      BY <1>2, <1>3, <1>4
    <3>3. Held(after, w)[c] = after[w][c].units /\ Held(ls, w)[c] = ls[w][c].units
      BY DEF Held
    <3>4. QED  BY <3>2, <3>3 DEF Lot
  <2>2. Total(Held(ls, w)) = Total(Held(after, w)) + Total(take)
    BY <2>1, KindsFacts, SumPlus DEF Total
  <2>3. Total(Held(after, w)) \in Int /\ Total(take) \in Int
    BY <2>1, KindsFacts, SumInt DEF Total
  <2>4. QED  BY <2>2, <2>3
<1>10. QED  BY <1>4, <1>5, <1>7, <1>8, <1>9 DEF after

-----------------------------------------------------------------------------
(* Goods that come into lots.                                              *)

InputType == [code : Codes, expires : Days \cup {Never}, blocked : BOOLEAN \cup {None}, units : Nat]

\* Each input is for a lot of its own.
Inputs(inputs) ==
    /\ IsFiniteSet(inputs) /\ inputs \subseteq InputType
    /\ \A i, j \in inputs : i.code = j.code => i = j

InputOf(inputs, c) == CHOOSE i \in inputs : i.code = c
Added(inputs) ==
    [c \in Codes |-> IF \E i \in inputs : i.code = c THEN InputOf(inputs, c).units ELSE 0]

LEMMA AddedUnits ==
    ASSUME NEW inputs, Inputs(inputs)
    PROVE  /\ \A i \in inputs : InputOf(inputs, i.code) = i /\ Added(inputs)[i.code] = i.units
           /\ \A c \in Codes : Added(inputs)[c] \in Nat
           /\ SumFunction([i \in inputs |-> i.units]) = Total(Added(inputs))
           /\ Total(Added(inputs)) \in Nat
<1> DEFINE g == [i \in inputs |-> i.units]
           code == [i \in inputs |-> i.code]
           h == Added(inputs)
           coded == {code[i] : i \in inputs}
<1>1. IsFiniteSet(inputs) /\ inputs \subseteq InputType /\ \A i, j \in inputs : i.code = j.code => i = j
  BY DEF Inputs
<1>2. \A i \in inputs : i.code \in Codes /\ i.units \in Nat /\ InputOf(inputs, i.code) = i
  BY <1>1 DEF InputOf, InputType
<1>3. \A i \in inputs : h[i.code] = i.units
  BY <1>2 DEF Added
<1>4. \A c \in Codes : h[c] \in Nat /\ (c \notin coded => h[c] = 0)
  <2>1. TAKE c \in Codes
  <2>2. CASE \E i \in inputs : i.code = c
    BY <1>2, <1>3, <2>2
  <2>3. CASE ~\E i \in inputs : i.code = c
    BY <2>3 DEF Added
  <2>4. QED  BY <2>2, <2>3
<1>5. coded \subseteq Codes
  BY <1>2
<1>6. SumFunctionOnSet(g, inputs) = SumFunctionOnSet(h, coded)
  <2>1. \A i, j \in inputs : code[i] = code[j] => i = j
    BY <1>1
  <2>2. \A i \in inputs : g[i] \in Int /\ h[code[i]] = g[i]
    BY <1>2, <1>3
  <2> HIDE DEF g, h, code
  <2>3. QED  BY <1>1, <2>1, <2>2, SumImage
<1> HIDE DEF h
<1>7. SumFunctionOnSet(h, Codes) = SumFunctionOnSet(h, coded)
  <2>1. (\A c \in Codes : h[c] \in Int) /\ \A c \in Codes \ coded : h[c] = 0
    BY <1>4
  <2> HIDE DEF coded
  <2>2. QED  BY <1>5, <2>1, KindsFacts, SumZeroes
<1>8. SumFunctionOnSet(h, Codes) \in Nat
  BY <1>4, KindsFacts, SumNat
<1>9. SumFunction(g) = SumFunctionOnSet(g, inputs)
  BY Zenon DEF SumFunction
<1>10. QED  BY <1>2, <1>3, <1>4, <1>6, <1>7, <1>8, <1>9 DEF h, Total

LEMMA MoreLots ==
    ASSUME NEW ls, Sound(ls), NEW w \in Warehouses, NEW inputs, Inputs(inputs),
           NEW after, after = With(ls, w, inputs)
    PROVE  /\ Sound(after) /\ Keeps(ls, after)
           /\ \A c \in Codes :
                 /\ after[w][c].units = ls[w][c].units + Added(inputs)[c]
                 /\ ls[w][c].known \/ (~\E i \in inputs : i.code = c) =>
                       /\ after[w][c].expires = ls[w][c].expires
                       /\ after[w][c].blocked = ls[w][c].blocked
           /\ \A i \in inputs : ~ls[w][i.code].known =>
                 /\ after[w][i.code].expires = i.expires
                 /\ i.blocked \in BOOLEAN => after[w][i.code].blocked = i.blocked
           /\ \A v \in Warehouses \ {w} : after[v] = ls[v]
           /\ Total(Held(after, w)) = Total(Held(ls, w)) + Total(Added(inputs))
<1> DEFINE named(c) == \E i \in inputs : i.code = c
<1>1. ls \in LotsType /\ \A v \in Warehouses, c \in Codes : ~ls[v][c].known => ls[v][c].units = 0
  BY DEF Sound
<1>2. \A c \in Codes : ls[w][c] \in Lot
  BY <1>1 DEF LotsType
<1>3. \A i \in inputs : /\ InputOf(inputs, i.code) = i /\ Added(inputs)[i.code] = i.units
                        /\ i \in InputType
  BY AddedUnits DEF Inputs
<1>4. /\ after = [v \in Warehouses |-> after[v]]
      /\ after[w] = [c \in Codes |-> after[w][c]]
      /\ \A v \in Warehouses \ {w} : after[v] = ls[v]
      /\ \A c \in Codes : after[w][c] =
            IF \E i \in inputs : i.code = c
            THEN IF ls[w][c].known
                 THEN [ls[w][c] EXCEPT !.units = @ + InputOf(inputs, c).units]
                 ELSE [known |-> TRUE, expires |-> InputOf(inputs, c).expires,
                       blocked |-> InputOf(inputs, c).blocked = TRUE,
                       units |-> InputOf(inputs, c).units]
            ELSE ls[w][c]
  BY <1>1 DEF With, InputOf, LotsType
<1>5. \A c \in Codes : ~named(c) => after[w][c] = ls[w][c] /\ Added(inputs)[c] = 0
  BY <1>4 DEF Added
<1>6. \A i \in inputs : ls[w][i.code].known =>
          after[w][i.code] = [ls[w][i.code] EXCEPT !.units = ls[w][i.code].units + i.units]
  <2>1. TAKE i \in inputs
  <2>2. HAVE ls[w][i.code].known
  <2>3. i.code \in Codes /\ InputOf(inputs, i.code) = i
    BY <1>3 DEF InputType
  <2>4. after[w][i.code] =
            [ls[w][i.code] EXCEPT !.units = ls[w][i.code].units + InputOf(inputs, i.code).units]
    BY <1>4, <2>2, <2>3, Zenon
  <2>5. QED  BY <2>3, <2>4, Zenon
<1>7. \A i \in inputs : ~ls[w][i.code].known =>
          after[w][i.code] = [known |-> TRUE, expires |-> i.expires,
                              blocked |-> i.blocked = TRUE, units |-> i.units]
  <2>1. TAKE i \in inputs
  <2>2. HAVE ~ls[w][i.code].known
  <2>3. i.code \in Codes /\ InputOf(inputs, i.code) = i
    BY <1>3 DEF InputType
  <2>4. after[w][i.code] =
          [known |-> TRUE, expires |-> InputOf(inputs, i.code).expires,
           blocked |-> InputOf(inputs, i.code).blocked = TRUE,
           units |-> InputOf(inputs, i.code).units]
    BY <1>4, <2>2, <2>3, Zenon
  <2>5. QED  BY <2>3, <2>4, Zenon
<1>8. \A c \in Codes : /\ after[w][c] \in Lot
                       /\ after[w][c].units = ls[w][c].units + Added(inputs)[c]
                       /\ ls[w][c].known => after[w][c].known
                       /\ ls[w][c].known \/ ~named(c) =>
                             /\ after[w][c].expires = ls[w][c].expires
                             /\ after[w][c].blocked = ls[w][c].blocked
                       /\ ~after[w][c].known => after[w][c].units = 0
  <2>1. TAKE c \in Codes
  <2>2. ls[w][c] \in Lot /\ (~ls[w][c].known => ls[w][c].units = 0)
    BY <1>1, <1>2
  <2>3. CASE ~named(c)
    <3>1. after[w][c] = ls[w][c] /\ Added(inputs)[c] = 0
      BY <1>5, <2>3
    <3> HIDE DEF named
    <3>2. QED  BY <2>2, <2>3, <3>1 DEF Lot
  <2>4. CASE named(c)
    <3>1. PICK i \in inputs : i.code = c
      BY <2>4
    <3>2. i \in InputType /\ Added(inputs)[c] = i.units
      BY <1>3, <3>1
    <3>3. CASE ls[w][c].known
      <4>1. after[w][c] = [ls[w][c] EXCEPT !.units = @ + i.units]
        BY <1>6, <3>1, <3>3
      <4> HIDE DEF named
      <4>2. QED  BY <2>2, <3>2, <3>3, <4>1 DEF Lot, InputType
    <3>4. CASE ~ls[w][c].known
      <4>1. after[w][c] = [known |-> TRUE, expires |-> i.expires,
                           blocked |-> i.blocked = TRUE, units |-> i.units]
        BY <1>7, <3>1, <3>4
      <4> HIDE DEF named
      <4>2. QED  BY <2>2, <2>4, <3>2, <3>4, <4>1 DEF Lot, InputType
    <3>5. QED  BY <3>3, <3>4
  <2>5. QED  BY <2>3, <2>4
<1>9. after \in LotsType
  <2>1. after[w] \in [Codes -> Lot]
    BY <1>4, <1>8
  <2>2. \A v \in Warehouses : after[v] \in [Codes -> Lot]
    BY <1>1, <1>4, <2>1 DEF LotsType
  <2>3. QED  BY <1>4, <2>2 DEF LotsType
<1>10. Sound(after)
  <2>1. \A v \in Warehouses, c \in Codes : ~after[v][c].known => after[v][c].units = 0
    BY <1>1, <1>4, <1>8
  <2>2. QED  BY <1>9, <2>1 DEF Sound
<1>11. Keeps(ls, after)
  BY <1>4, <1>8 DEF Keeps
<1>12. Total(Held(after, w)) = Total(Held(ls, w)) + Total(Added(inputs))
  <2>1. \A c \in Codes : /\ Held(ls, w)[c] \in Int /\ Added(inputs)[c] \in Int
                         /\ Held(after, w)[c] = Held(ls, w)[c] + Added(inputs)[c]
    <3>1. TAKE c \in Codes
    <3>2. /\ ls[w][c] \in Lot /\ Added(inputs)[c] \in Nat
          /\ after[w][c].units = ls[w][c].units + Added(inputs)[c]
      BY <1>2, <1>8, AddedUnits
    <3>3. Held(after, w)[c] = after[w][c].units /\ Held(ls, w)[c] = ls[w][c].units
      BY DEF Held
    <3>4. QED  BY <3>2, <3>3 DEF Lot
  <2>2. QED  BY <2>1, KindsFacts, SumPlus DEF Total
<1>13. \A i \in inputs : ~ls[w][i.code].known =>
          /\ after[w][i.code].expires = i.expires
          /\ i.blocked \in BOOLEAN => after[w][i.code].blocked = i.blocked
  <2>1. TAKE i \in inputs
  <2>2. HAVE ~ls[w][i.code].known
  <2> DEFINE lot == [known |-> TRUE, expires |-> i.expires,
                     blocked |-> i.blocked = TRUE, units |-> i.units]
  <2>3. after[w][i.code] = lot
    BY <1>7, <2>2, Zenon
  <2>4. lot.expires = i.expires
    OBVIOUS
  <2>5. i.blocked \in BOOLEAN => lot.blocked = i.blocked
    OBVIOUS
  <2> HIDE DEF lot
  <2>6. QED  BY <2>3, <2>4, <2>5, Zenon
<1>14. QED  BY <1>4, <1>8, <1>10, <1>11, <1>12, <1>13

-----------------------------------------------------------------------------
(* What the steps that move stock leave: warehouses and lots that agree.   *)

Agree == stock \in [Warehouses -> Nat] /\ Sound(lots) /\ Within(lots, stock, strict)

\* What lots account for at each warehouse, and what is in stock there.
LEMMA AgreeFacts ==
    ASSUME Agree, NEW w \in Warehouses
    PROVE  /\ stock[w] \in Nat /\ Total(Held(lots, w)) \in Nat
           /\ Total(Held(lots, w)) <= stock[w]
           /\ strict => Total(Held(lots, w)) = stock[w]
           /\ Untracked(w) = stock[w] - Total(Held(lots, w)) /\ Untracked(w) \in Nat
BY LooseUnits DEF Agree, Within, Sound

\* Two warehouses, or one, after a step.
LEMMA AgreeAfter ==
    ASSUME Agree, strict' = strict, Sound(lots'), stock' \in [Warehouses -> Int],
           NEW v \in Warehouses, NEW w \in Warehouses,
           \A u \in Warehouses \ {v, w} : stock'[u] = stock[u] /\ lots'[u] = lots[u],
           \A u \in {v, w} : /\ Total(Held(lots', u)) <= stock'[u]
                             /\ strict => Total(Held(lots', u)) = stock'[u]
    PROVE  Agree'
<1>1. \A u \in Warehouses : Total(Held(lots', u)) \in Nat
  BY UnitsOfSet DEF Total, Sound
<1>2. \A u \in Warehouses \ {v, w} : Held(lots', u) = Held(lots, u)
  BY DEF Held
<1>3. \A u \in Warehouses : /\ Total(Held(lots', u)) <= stock'[u]
                            /\ strict => Total(Held(lots', u)) = stock'[u]
  BY <1>2, AgreeFacts
<1>4. \A u \in Warehouses : stock'[u] \in Nat
  BY <1>1, <1>3
<1>5. stock' \in [Warehouses -> Nat]
  BY <1>4
<1>6. QED  BY <1>3, <1>5 DEF Agree, Within

LEMMA OutAgrees ==
    ASSUME Agree, strict' = strict, NEW w \in Warehouses, NEW n, NEW take, Takes(w, n, take),
           stock' = [stock EXCEPT ![w] = @ - n], lots' = Without(w, take)
    PROVE  Agree' /\ Keeps(lots, lots')
<1>1. lots' = Less(lots, w, take)
  BY WithoutIsLess
<1>2. /\ take \in [Kinds -> Nat] /\ n \in Nat /\ \A c \in Codes : take[c] <= lots[w][c].units
      /\ take[Loose] \in Nat /\ Total(take) \in Nat /\ n = take[Loose] + Total(take)
      /\ take[Loose] <= Untracked(w) /\ (strict => take[Loose] = 0)
  BY AllKinds DEF Takes
<1>3. Sound(lots)
  BY DEF Agree
<1>4. /\ Sound(lots') /\ Keeps(lots, lots')
      /\ \A u \in Warehouses \ {w} : lots'[u] = lots[u]
      /\ Total(Held(lots', w)) = Total(Held(lots, w)) - Total(take)
  BY <1>1, <1>2, <1>3, LessLots
<1>5. /\ stock' \in [Warehouses -> Int] /\ stock'[w] = stock[w] - n
      /\ \A u \in Warehouses \ {w} : stock'[u] = stock[u]
  BY <1>2 DEF Agree
<1>6. /\ Total(Held(lots', w)) <= stock'[w]
      /\ strict => Total(Held(lots', w)) = stock'[w]
  BY <1>2, <1>4, <1>5, AgreeFacts
<1>7. QED  BY <1>4, <1>5, <1>6, AgreeAfter

LEMMA InAgrees ==
    ASSUME Agree, strict' = strict, NEW w \in Warehouses, NEW n \in Nat,
           NEW inputs, Inputs(inputs), Covered(inputs, n),
           stock' = [stock EXCEPT ![w] = @ + n], lots' = With(lots, w, inputs)
    PROVE  Agree' /\ Keeps(lots, lots')
<1>1. Sound(lots)
  BY DEF Agree
<1>2. /\ Sound(lots') /\ Keeps(lots, lots')
      /\ \A u \in Warehouses \ {w} : lots'[u] = lots[u]
      /\ Total(Held(lots', w)) = Total(Held(lots, w)) + Total(Added(inputs))
  BY <1>1, MoreLots
<1>3. /\ Total(Added(inputs)) \in Nat /\ Total(Added(inputs)) <= n
      /\ strict => Total(Added(inputs)) = n
  BY AddedUnits DEF Covered
<1>4. /\ stock' \in [Warehouses -> Int] /\ stock'[w] = stock[w] + n
      /\ \A u \in Warehouses \ {w} : stock'[u] = stock[u]
  BY DEF Agree
<1>5. /\ Total(Held(lots', w)) <= stock'[w]
      /\ strict => Total(Held(lots', w)) = stock'[w]
  BY <1>2, <1>3, <1>4, AgreeFacts
<1>6. QED  BY <1>2, <1>4, <1>5, AgreeAfter

LEMMA MoveAgrees ==
    ASSUME Agree, strict' = strict, NEW v \in Warehouses, NEW w \in Warehouses, v # w,
           NEW n, NEW take, Takes(v, n, take), NEW inputs, Inputs(inputs), Covered(inputs, n),
           stock' = [stock EXCEPT ![v] = @ - n, ![w] = @ + n],
           lots' = With(Without(v, take), w, inputs)
    PROVE  Agree' /\ Keeps(lots, lots')
<1> DEFINE middle == Less(lots, v, take)
<1>1. lots' = With(middle, w, inputs)
  BY WithoutIsLess
<1>2. /\ take \in [Kinds -> Nat] /\ n \in Nat /\ \A c \in Codes : take[c] <= lots[v][c].units
      /\ take[Loose] \in Nat /\ Total(take) \in Nat /\ n = take[Loose] + Total(take)
      /\ take[Loose] <= Untracked(v) /\ (strict => take[Loose] = 0)
  BY AllKinds DEF Takes
<1>3. Sound(lots)
  BY DEF Agree
<1>4. /\ Sound(middle) /\ Keeps(lots, middle)
      /\ \A u \in Warehouses \ {v} : middle[u] = lots[u]
      /\ Total(Held(middle, v)) = Total(Held(lots, v)) - Total(take)
  BY <1>2, <1>3, LessLots
<1> HIDE DEF middle
<1>5. /\ Sound(lots') /\ Keeps(middle, lots')
      /\ \A u \in Warehouses \ {w} : lots'[u] = middle[u]
      /\ Total(Held(lots', w)) = Total(Held(middle, w)) + Total(Added(inputs))
  BY <1>1, <1>4, MoreLots
<1>6. Total(Held(middle, w)) = Total(Held(lots, w)) /\ Total(Held(lots', v)) = Total(Held(middle, v))
  <2>1. Held(middle, w) = Held(lots, w) /\ Held(lots', v) = Held(middle, v)
    BY <1>4, <1>5 DEF Held
  <2>2. QED  BY <2>1
<1>7. Keeps(lots, lots')
  BY <1>4, <1>5 DEF Keeps
<1>8. /\ Total(Added(inputs)) \in Nat /\ Total(Added(inputs)) <= n
      /\ strict => Total(Added(inputs)) = n
  BY AddedUnits DEF Covered
<1>9. /\ stock' \in [Warehouses -> Int] /\ stock'[v] = stock[v] - n /\ stock'[w] = stock[w] + n
      /\ \A u \in Warehouses \ {v, w} : stock'[u] = stock[u]
  BY <1>2 DEF Agree
<1>10. /\ Total(Held(lots', v)) <= stock'[v]
       /\ strict => Total(Held(lots', v)) = stock'[v]
  BY <1>2, <1>4, <1>6, <1>9, AgreeFacts
<1>11. /\ Total(Held(lots', w)) <= stock'[w]
       /\ strict => Total(Held(lots', w)) = stock'[w]
  <2>1. /\ Total(Held(lots', w)) = Total(Held(lots, w)) + Total(Added(inputs))
        /\ stock'[w] = stock[w] + n
    BY <1>5, <1>6, <1>9
  <2>2. /\ stock[w] \in Nat /\ Total(Held(lots, w)) \in Nat
        /\ Total(Held(lots, w)) <= stock[w]
        /\ strict => Total(Held(lots, w)) = stock[w]
    BY AgreeFacts
  <2>3. QED  BY <1>2, <1>8, <2>1, <2>2
<1>12. \A u \in Warehouses \ {v, w} : lots'[u] = lots[u]
  BY <1>4, <1>5
<1>13. QED  BY <1>5, <1>7, <1>9, <1>10, <1>11, <1>12, AgreeAfter

LEMMA ClassifyAgrees ==
    ASSUME Agree, UNCHANGED <<stock, strict>>, NEW w \in Warehouses, NEW inputs, Inputs(inputs),
           Total(Added(inputs)) <= Untracked(w), Total(Added(inputs)) > 0,
           lots' = With(lots, w, inputs)
    PROVE  Agree' /\ Keeps(lots, lots')
<1>1. Sound(lots)
  BY DEF Agree
<1>2. /\ Sound(lots') /\ Keeps(lots, lots')
      /\ \A u \in Warehouses \ {w} : lots'[u] = lots[u]
      /\ Total(Held(lots', w)) = Total(Held(lots, w)) + Total(Added(inputs))
  BY <1>1, MoreLots
<1>3. Total(Added(inputs)) \in Nat
  BY AddedUnits
<1>4. /\ Total(Held(lots', w)) <= stock'[w]
      /\ strict => Total(Held(lots', w)) = stock'[w]
  BY <1>2, <1>3, AgreeFacts
<1>5. stock' \in [Warehouses -> Int] /\ \A u \in Warehouses \ {w} : stock'[u] = stock[u]
  BY DEF Agree
<1>6. QED  BY <1>2, <1>4, <1>5, AgreeAfter

-----------------------------------------------------------------------------
(* The inputs of the operations.                                           *)

LEMMA NoInput == Inputs({})
BY FS_EmptySet DEF Inputs

LEMMA OneInput ==
    ASSUME NEW c \in Codes, NEW e \in Days \cup {Never}, NEW b \in BOOLEAN \cup {None}, NEW n \in Nat
    PROVE  /\ Inputs({Input(c, e, b, n)})
           /\ Total(Added({Input(c, e, b, n)})) = n
<1> DEFINE i == Input(c, e, b, n)
           h == Added({i})
<1>1. i \in InputType /\ i.code = c /\ i.units = n
  BY DEF Input, InputType
<1>2. Inputs({i})
  BY <1>1, FS_Singleton DEF Inputs
<1> HIDE DEF i
<1>3. \A d \in Codes : h[d] = IF d = c THEN n ELSE 0
  BY <1>1 DEF Added, InputOf
<1>4. Total(h) = n
  <2>1. {c} \subseteq Codes /\ (\A d \in Codes : h[d] \in Int) /\ \A d \in Codes \ {c} : h[d] = 0
    BY <1>3
  <2>2. SumFunctionOnSet(h, Codes) = SumFunctionOnSet(h, {c})
    <3> HIDE DEF h
    <3>1. QED  BY <2>1, KindsFacts, SumZeroes
  <2>3. SumFunctionOnSet(h, {} \cup {c}) = h[c] + SumFunctionOnSet(h, {})
    <3> HIDE DEF h
    <3>1. QED  BY <2>1, FS_EmptySet, SumAdd
  <2>4. h[c] = n /\ SumFunctionOnSet(h, {}) = 0 /\ {} \cup {c} = {c}
    BY <1>3, SumEmpty
  <2> HIDE DEF h
  <2>5. QED  BY <2>2, <2>3, <2>4 DEF Total
<1>5. QED  BY <1>2, <1>4 DEF i

\* A lot of which nothing is said but its expiry.
LEMMA NewLotInput ==
    \A c \in Codes, e \in Days \cup {Never}, n \in Nat :
        /\ Inputs({Input(c, e, None, n)})
        /\ Total(Added({Input(c, e, None, n)})) = n
BY OneInput

\* Each lot that was taken, as it is at w.
LEMMA LotInputs ==
    ASSUME Agree, NEW w \in Warehouses, NEW take, \A c \in Codes : take[c] \in Nat
    PROVE  /\ Inputs(TransferInputs(w, take))
           /\ \A c \in Codes : Added(TransferInputs(w, take))[c] = take[c]
           /\ Total(Added(TransferInputs(w, take))) = Total(take)
           /\ \A i \in TransferInputs(w, take) :
                 /\ take[i.code] > 0 /\ i.code \in Codes
                 /\ i.expires = lots[w][i.code].expires /\ i.blocked = lots[w][i.code].blocked
<1> DEFINE S == {d \in Codes : take[d] > 0}
           in == [c \in S |-> Input(c, lots[w][c].expires, lots[w][c].blocked, take[c])]
           all == TransferInputs(w, take)
<1>1. \A c \in Codes : lots[w][c] \in Lot
  BY DEF Agree, Sound, LotsType
<1>2. \A c \in S : /\ in[c] \in InputType /\ in[c].code = c /\ in[c].units = take[c]
                   /\ in[c].expires = lots[w][c].expires /\ in[c].blocked = lots[w][c].blocked
  BY <1>1 DEF Input, InputType, Lot
<1>3. all = {in[c] : c \in S}
  BY DEF TransferInputs
<1>4. IsFiniteSet(all)
  <2>1. IsFiniteSet(S)
    BY KindsFacts, FS_Subset
  <2>2. in \in Surjection(S, all)
    BY <1>3 DEF Surjection
  <2> HIDE DEF S, in, all
  <2>3. QED  BY <2>1, <2>2, FS_Surjection
<1> HIDE DEF all, in
<1>5. Inputs(all)
  BY <1>2, <1>3, <1>4 DEF Inputs
<1>6. \A c \in Codes : Added(all)[c] = take[c]
  <2>1. TAKE c \in Codes
  <2>2. CASE c \in S
    <3>1. in[c] \in all /\ in[c].code = c /\ in[c].units = take[c]
      BY <1>2, <1>3, <2>2
    <3>2. Added(all)[in[c].code] = in[c].units
      BY <1>5, <3>1, AddedUnits
    <3>3. QED  BY <3>1, <3>2
  <2>3. CASE c \notin S
    <3>1. ~\E i \in all : i.code = c
      BY <1>2, <1>3, <2>3
    <3>2. Added(all)[c] = 0
      BY <3>1 DEF Added
    <3>3. QED  BY <2>3, <3>2
  <2>4. QED  BY <2>2, <2>3
<1>7. Total(Added(all)) = Total(take)
  BY <1>6, KindsFacts, SumSame DEF Total
<1>8. QED  BY <1>2, <1>3, <1>5, <1>6, <1>7 DEF all

-----------------------------------------------------------------------------
(* What a process does when it runs its request.                           *)

TxType == [pc : {"idle", "run", "done"}, req : Requests \cup {None},
           strict : BOOLEAN, ans : {"none", "ok", "conflict", "refused"}]

\* It ends with an answer, without a change of the tables.
Answered(p) ==
    /\ UNCHANGED tables
    /\ \E ans \in {"ok", "conflict", "refused"} :
          /\ Done(p, ans)
          /\ ans = "ok" => \E row \in log : row.req = tx[p].req

TakesOut(p) ==
    LET w == tx[p].req.at
    IN  /\ tx[p].req.op # "TRANSFER"
        /\ \E n \in Nat, take \in [Kinds -> Nat] :
              /\ Takes(w, n, take) /\ Record(p, -n)
              /\ stock' = [stock EXCEPT ![w] = @ - n] /\ lots' = Without(w, take)

BringsIn(p) ==
    LET w == tx[p].req.at
    IN  /\ tx[p].req.op \in {"IN", "ADJUST_UP", "RECEIPT", "COUNT"}
        /\ \E n \in Nat \ {0}, inputs \in SUBSET InputType :
              /\ Inputs(inputs) /\ Covered(inputs, n) /\ Record(p, n)
              /\ stock' = [stock EXCEPT ![w] = @ + n] /\ lots' = With(lots, w, inputs)

Moves(p) ==
    LET q == tx[p].req
    IN  /\ q.op = "TRANSFER" /\ q.at # q.to
        /\ \E take \in [Kinds -> Nat] :
              /\ Takes(q.at, q.units, take) /\ Record(p, 0)
              /\ Accepts(q.to, TransferInputs(q.at, take), q.units)
              /\ stock' = [stock EXCEPT ![q.at] = @ - q.units, ![q.to] = @ + q.units]
              /\ lots' = With(Without(q.at, take), q.to, TransferInputs(q.at, take))

Labels(p) ==
    LET q == tx[p].req
    IN  /\ q.op = "CLASSIFY" /\ ~lots[q.at][q.code].known
        /\ q.units > 0 /\ q.units <= Untracked(q.at)
        /\ lots' = With(lots, q.at, {Input(q.code, q.expires, None, q.units)})
        /\ Record(p, 0) /\ UNCHANGED stock

\* A count that found what it expected.
Confirms(p) == tx[p].req.op = "COUNT" /\ Record(p, 0) /\ UNCHANGED <<stock, lots>>

LEMMA RequestFields ==
    ASSUME NEW q \in Requests
    PROVE  /\ q \in Request /\ q.at \in Warehouses /\ q.to \in Warehouses /\ q.units \in Nat
           /\ q.lot \in Codes \cup {None} /\ q.code \in Codes \cup {None}
           /\ q.expires \in Days \cup {Never} /\ q.expected \in Nat
           /\ q.op # "COUNT" => q.units > 0
           /\ q.op = "CLASSIFY" => q.code # None
BY RequestsAssumption DEF Request

LEMMA RefuseAnswers ==
    ASSUME NEW p \in Procs, NEW refused, Refuse(p, refused)
    PROVE  Answered(p)
BY DEF Refuse, Answered

LEMMA ResolveAnswers ==
    ASSUME NEW p \in Procs, Resolve(p)
    PROVE  Answered(p)
<1>1. PICK row \in WithKey(tx[p].req) : Done(p, Answer(row, tx[p].req))
  BY DEF Resolve
<1>2. row \in log
  BY DEF WithKey
<1>3. /\ Answer(row, tx[p].req) \in {"ok", "conflict"}
      /\ Answer(row, tx[p].req) = "ok" => row.req = tx[p].req
  BY DEF Answer, SameData
<1>4. UNCHANGED tables
  BY DEF Resolve
<1>5. QED  BY <1>1, <1>2, <1>3, <1>4 DEF Answered

LEMMA TakeOutCases ==
    ASSUME TypeOK, Agree, NEW p \in Procs, tx[p].req \in Requests, tx[p].req.op # "TRANSFER",
           NEW n \in Nat, NEW lot, NEW unfitToo, TakeOut(p, n, lot, unfitToo)
    PROVE  Answered(p) \/ TakesOut(p)
<1> DEFINE w == tx[p].req.at
<1>1. w \in Warehouses
  BY RequestFields
<1>2. CASE \E take \in Allocations(w, n, lot, unfitToo) :
              stock' = [stock EXCEPT ![w] = @ - n] /\ lots' = Without(w, take) /\ Record(p, -n)
  <2>1. PICK take \in Allocations(w, n, lot, unfitToo) :
              stock' = [stock EXCEPT ![w] = @ - n] /\ lots' = Without(w, take) /\ Record(p, -n)
    BY <1>2
  <2>2. Takes(w, n, take)
    BY <1>1, AllocationTakes DEF Agree
  <2>3. take \in [Kinds -> Nat]
    BY <2>2 DEF Takes
  <2>4. QED  BY <2>1, <2>2, <2>3 DEF TakesOut
<1>3. QED  BY <1>2, RefuseAnswers, ResolveAnswers DEF TakeOut

LEMMA BringInCases ==
    ASSUME NEW p \in Procs, tx[p].req.op \in {"IN", "ADJUST_UP", "RECEIPT", "COUNT"},
           NEW n \in Nat \ {0}, NEW inputs, Inputs(inputs), BringIn(p, n, inputs)
    PROVE  Answered(p) \/ BringsIn(p)
<1> DEFINE w == tx[p].req.at
<1>1. CASE /\ Accepts(w, inputs, n)
           /\ stock' = [stock EXCEPT ![w] = @ + n] /\ lots' = With(lots, w, inputs) /\ Record(p, n)
  <2>1. Covered(inputs, n) /\ inputs \in SUBSET InputType
    BY <1>1 DEF Accepts, Inputs
  <2>2. QED  BY <1>1, <2>1 DEF BringsIn
<1>2. QED  BY <1>1, RefuseAnswers, ResolveAnswers DEF BringIn

LEMMA ManualCases ==
    ASSUME TypeOK, Agree, NEW p \in Procs, tx[p].req \in Requests, RegisterManualMovement(p)
    PROVE  Answered(p) \/ TakesOut(p) \/ BringsIn(p)
<1> DEFINE q == tx[p].req
<1>1. q.units \in Nat /\ (q.op # "COUNT" => q.units > 0)
  BY RequestFields
<1>2. CASE Running(p, {"IN", "ADJUST_UP"}) /\ BringIn(p, q.units, {})
  <2>1. q.op \in {"IN", "ADJUST_UP"}
    BY <1>2 DEF Running
  <2>2. q.units \in Nat \ {0}
    BY <1>1, <2>1
  <2>3. QED  BY <1>2, <2>1, <2>2, NoInput, BringInCases
<1>3. CASE Running(p, {"OUT", "ADJUST_DOWN"}) /\ TakeOut(p, q.units, None, FALSE)
  <2>1. q.op # "TRANSFER"
    BY <1>3 DEF Running
  <2>2. QED  BY <1>1, <1>3, <2>1, TakeOutCases
<1>4. QED  BY <1>2, <1>3 DEF RegisterManualMovement

LEMMA TransferCases ==
    ASSUME TypeOK, Agree, NEW p \in Procs, tx[p].req \in Requests, Transfer(p)
    PROVE  Answered(p) \/ Moves(p)
<1> DEFINE q == tx[p].req
           ways == Allocations(q.at, q.units, None, TRUE)
           good == {take \in ways : Accepts(q.to, TransferInputs(q.at, take), q.units)}
<1>1. q.op = "TRANSFER" /\ q.at \in Warehouses /\ q.units \in Nat
  BY RequestFields DEF Transfer, Running
<1>2. CASE /\ q.at # q.to
           /\ \E take \in good :
                 /\ stock' = [stock EXCEPT ![q.at] = @ - q.units, ![q.to] = @ + q.units]
                 /\ lots' = With(Without(q.at, take), q.to, TransferInputs(q.at, take))
                 /\ Record(p, 0)
  <2>1. PICK take \in good :
                 /\ stock' = [stock EXCEPT ![q.at] = @ - q.units, ![q.to] = @ + q.units]
                 /\ lots' = With(Without(q.at, take), q.to, TransferInputs(q.at, take))
                 /\ Record(p, 0)
    BY <1>2
  <2>2. Takes(q.at, q.units, take)
    BY <1>1, AllocationTakes DEF Agree
  <2>3. take \in [Kinds -> Nat]
    BY <2>2 DEF Takes
  <2>4. QED  BY <1>1, <1>2, <2>1, <2>2, <2>3 DEF Moves
<1>3. QED  BY <1>2, RefuseAnswers, ResolveAnswers DEF Transfer

LEMMA ReceiptCases ==
    ASSUME TypeOK, Agree, NEW p \in Procs, tx[p].req \in Requests, Receipt(p)
    PROVE  Answered(p) \/ BringsIn(p)
<1> DEFINE q == tx[p].req
<1>1. q.op = "RECEIPT" /\ q.units \in Nat \ {0} /\ q.at \in Warehouses
  BY RequestFields DEF Receipt, Running
<1>2. CASE Refuse(p, ~LotIsThere(q))
  BY <1>2, RefuseAnswers
<1> DEFINE in == CASE q.lot # None -> IntoLot(q.at, q.lot, q.units)
                   [] q.code # None -> {Input(q.code, q.expires, None, q.units)}
                   [] OTHER -> {}
<1>3. CASE BringIn(p, q.units, in)
  <2>1. CASE q.lot # None
    <3>1. q.lot \in Codes /\ q.code = None
      BY <2>1, RequestFields, RequestsAssumption
    <3>2. lots[q.at][q.lot] \in Lot
      BY <1>1, <3>1 DEF TypeOK
    <3>3. Inputs(IntoLot(q.at, q.lot, q.units))
      BY <1>1, <3>1, <3>2, OneInput DEF IntoLot, Lot
    <3>4. in = IntoLot(q.at, q.lot, q.units)
      BY <2>1, <3>1
    <3> HIDE DEF in
    <3>5. QED  BY <1>1, <1>3, <3>3, <3>4, BringInCases
  <2>2. CASE q.lot = None /\ q.code # None
    <3>1. q.code \in Codes /\ q.expires \in Days \cup {Never}
      BY <2>2, RequestFields
    <3>2. Inputs({Input(q.code, q.expires, None, q.units)})
      BY <1>1, <3>1, OneInput
    <3>3. in = {Input(q.code, q.expires, None, q.units)}
      BY <2>2
    <3> HIDE DEF in
    <3>4. QED  BY <1>1, <1>3, <3>2, <3>3, BringInCases
  <2>3. CASE q.lot = None /\ q.code = None
    <3>1. in = {}
      BY <2>3
    <3> HIDE DEF in
    <3>2. QED  BY <1>1, <1>3, <3>1, NoInput, BringInCases
  <2>4. QED  BY <2>1, <2>2, <2>3
<1>4. QED  BY <1>2, <1>3, Zenon DEF Receipt

LEMMA LeaveCases ==
    ASSUME TypeOK, Agree, NEW p \in Procs, tx[p].req \in Requests, Leave(p)
    PROVE  Answered(p) \/ TakesOut(p)
<1>1. tx[p].req.op # "TRANSFER" /\ tx[p].req.units \in Nat
  BY RequestFields DEF Leave, Running
<1>2. QED  BY <1>1, RefuseAnswers, TakeOutCases DEF Leave

LEMMA ClassifyCases ==
    ASSUME TypeOK, Agree, NEW p \in Procs, tx[p].req \in Requests, Classify(p)
    PROVE  Answered(p) \/ Labels(p)
<1>1. tx[p].req.op = "CLASSIFY" /\ tx[p].req.units > 0
  BY RequestFields DEF Classify, Running
<1>2. QED  BY <1>1, RefuseAnswers DEF Classify, Labels, FitsLoose

LEMMA CountCases ==
    ASSUME TypeOK, Agree, NEW p \in Procs, tx[p].req \in Requests, Count(p)
    PROVE  Answered(p) \/ TakesOut(p) \/ BringsIn(p) \/ Confirms(p)
<1> DEFINE q == tx[p].req
           delta == q.units - q.expected
           in == IF q.lot = None THEN {} ELSE IntoLot(q.at, q.lot, delta)
<1>1. q.op = "COUNT" /\ q.units \in Nat /\ q.expected \in Nat /\ q.at \in Warehouses
  BY RequestFields DEF Count, Running
<1>2. CASE Refuse(p, ~MayCount(p))
  BY <1>2, RefuseAnswers
<1>3. CASE delta = 0 /\ Record(p, 0) /\ UNCHANGED <<stock, lots>>
  BY <1>1, <1>3 DEF Confirms
<1>4. CASE delta > 0 /\ BringIn(p, delta, in)
  <2>1. delta \in Nat \ {0}
    BY <1>1, <1>4
  <2>2. Inputs(in)
    <3>1. CASE q.lot = None
      BY <3>1, NoInput
    <3>2. CASE q.lot # None
      <4>1. q.lot \in Codes
        BY <3>2, RequestFields
      <4>2. lots[q.at][q.lot] \in Lot
        BY <1>1, <4>1 DEF TypeOK
      <4> HIDE DEF delta
      <4>3. QED  BY <2>1, <3>2, <4>1, <4>2, OneInput DEF IntoLot, Lot
    <3>3. QED  BY <3>1, <3>2
  <2> HIDE DEF in, delta
  <2>3. QED  BY <1>1, <1>4, <2>1, <2>2, BringInCases
<1>5. CASE delta < 0 /\ TakeOut(p, -delta, q.lot, TRUE)
  <2>1. -delta \in Nat
    BY <1>1, <1>5
  <2> HIDE DEF delta
  <2>2. QED  BY <1>1, <1>5, <2>1, TakeOutCases
<1>6. QED  BY <1>2, <1>3, <1>4, <1>5, Zenon DEF Count

LEMMA RunCases ==
    ASSUME TypeOK, Agree, Asked, NEW p \in Procs, Run(p)
    PROVE  /\ tx[p].pc = "run" /\ tx[p].req \in Requests
           /\ \/ Answered(p) \/ TakesOut(p) \/ BringsIn(p)
              \/ Moves(p) \/ Labels(p) \/ Confirms(p)
<1>1. tx[p].pc = "run"
  BY DEF Run, RegisterManualMovement, Transfer, Register, Receipt, Leave, Classify, Count, Running
<1>2. tx[p].req \in Requests
  BY <1>1 DEF Asked
<1>3. QED  BY <1>1, <1>2, ManualCases, TransferCases, ReceiptCases, LeaveCases, ClassifyCases,
              CountCases DEF Run, Register

-----------------------------------------------------------------------------
(* The parts of the invariant that a step leaves or carries on.            *)

\* A process that ends.
LEMMA DoneTx ==
    ASSUME TypeOK, Asked, AnswersAreTrue, NEW p \in Procs, NEW ans \in {"ok", "conflict", "refused"},
           Done(p, ans), log \subseteq log',
           ans = "ok" => \E row \in log' : row.req = tx[p].req
    PROVE  tx' \in [Procs -> TxType] /\ Asked' /\ AnswersAreTrue'
<1>1. tx \in [Procs -> TxType]
  BY DEF TypeOK, TxType
<1>2. tx' = [tx EXCEPT ![p] = [tx[p] EXCEPT !.pc = "done", !.ans = ans]]
  BY <1>1 DEF Done, TxType
<1>3. /\ tx' \in [Procs -> TxType]
      /\ \A r \in Procs \ {p} : tx'[r] = tx[r]
      /\ tx'[p].pc = "done" /\ tx'[p].ans = ans /\ tx'[p].req = tx[p].req
  BY <1>1, <1>2 DEF TxType
<1>4. Asked'
  BY <1>3 DEF Asked
<1>5. AnswersAreTrue'
  <2>1. ASSUME NEW r \in Procs, tx'[r].ans = "ok"
        PROVE  \E row \in log' : row.req = tx'[r].req
    BY <1>3, <2>1 DEF AnswersAreTrue
  <2>2. QED  BY <2>1 DEF AnswersAreTrue
<1>6. QED  BY <1>3, <1>4, <1>5

\* A process that looks for its key, or that is idle again.
LEMMA OtherTx ==
    ASSUME TypeOK, Asked, AnswersAreTrue, NEW p \in Procs,
           \/ \E q \in Requests : Look(p, q)
           \/ Finish(p)
           \/ Abort(p)
    PROVE  UNCHANGED tables /\ tx' \in [Procs -> TxType] /\ Asked' /\ AnswersAreTrue'
<1>1. tx \in [Procs -> TxType] /\ strict \in BOOLEAN
  BY DEF TypeOK, TxType
<1>2. UNCHANGED tables
  BY DEF Look, Finish, Abort
<1>3. PICK t \in TxType : /\ tx' = [tx EXCEPT ![p] = t]
                          /\ t.pc = "run" => t.req \in Requests
                          /\ t.ans = "ok" => \E row \in log : row.req = t.req
  <2>1. CASE \E q \in Requests : Look(p, q)
    <3>1. PICK q \in Requests : Look(p, q)
      BY <2>1
    <3> DEFINE asked == [IdleTx EXCEPT !.req = q]
    <3>2. asked \in TxType /\ asked.req = q /\ asked.ans = "none"
      <4>1. IdleTx \in TxType /\ IdleTx.ans = "none"
        BY DEF IdleTx, TxType
      <4>2. QED  BY <4>1 DEF TxType
    <3> HIDE DEF asked
    <3>3. CASE \E row \in WithKey(q) :
                  tx' = [tx EXCEPT ![p] = [asked EXCEPT !.pc = "done", !.ans = Answer(row, q)]]
      <4>1. PICK row \in WithKey(q) :
                  tx' = [tx EXCEPT ![p] = [asked EXCEPT !.pc = "done", !.ans = Answer(row, q)]]
        BY <3>3
      <4>2. /\ Answer(row, q) \in {"ok", "conflict"} /\ row \in log
            /\ Answer(row, q) = "ok" => row.req = q
        BY DEF Answer, SameData, WithKey
      <4> DEFINE t == [asked EXCEPT !.pc = "done", !.ans = Answer(row, q)]
      <4>3. t \in TxType /\ t.pc = "done" /\ t.req = q /\ t.ans = Answer(row, q)
        BY <3>2, <4>2 DEF TxType
      <4> HIDE DEF t
      <4>4. QED  BY <4>1, <4>2, <4>3 DEF t
    <3>4. CASE tx' = [tx EXCEPT ![p] = [asked EXCEPT !.pc = "run", !.strict = strict]]
      <4> DEFINE t == [asked EXCEPT !.pc = "run", !.strict = strict]
      <4>1. t \in TxType /\ t.req = q /\ t.ans = "none"
        BY <1>1, <3>2 DEF TxType
      <4> HIDE DEF t
      <4>2. QED  BY <3>4, <4>1 DEF t
    <3>5. QED  BY <3>1, <3>3, <3>4, Zenon DEF Look, asked
  <2>2. CASE Finish(p) \/ Abort(p)
    <3>1. tx' = [tx EXCEPT ![p] = IdleTx]
      BY <2>2 DEF Finish, Abort
    <3>2. IdleTx \in TxType /\ IdleTx.pc = "idle" /\ IdleTx.ans = "none"
      BY DEF IdleTx, TxType
    <3>3. QED  BY <3>1, <3>2
  <2>3. QED  BY <2>1, <2>2
<1>4. /\ tx' \in [Procs -> TxType] /\ tx'[p] = t
      /\ \A r \in Procs \ {p} : tx'[r] = tx[r]
  BY <1>1, <1>3
<1>5. Asked'
  BY <1>3, <1>4 DEF Asked
<1>6. AnswersAreTrue'
  <2>1. log' = log
    BY <1>2 DEF tables
  <2>2. ASSUME NEW r \in Procs, tx'[r].ans = "ok"
        PROVE  \E row \in log' : row.req = tx'[r].req
    BY <1>3, <1>4, <2>1, <2>2 DEF AnswersAreTrue
  <2>3. QED  BY <2>2 DEF AnswersAreTrue
<1>7. QED  BY <1>2, <1>4, <1>5, <1>6

\* Lots that stay keep what sales know of them.
LEMMA SalesKept ==
    ASSUME SalesOK, Keeps(lots, lots'), UNCHANGED <<taken, given>>
    PROVE  SalesOK'
<1>1. ASSUME NEW s \in Sales
      PROVE  SaleOK(s)'
  <2>1. SaleOK(s) /\ HomeOf[s] \in Warehouses
    BY SalesAssumption DEF SalesOK
  <2>2. \A c \in Codes : taken'[s][c] > 0 => /\ lots'[HomeOf[s]][c].known
                                             /\ ~lots'[HomeOf[s]][c].blocked
    BY <2>1 DEF SaleOK, Keeps
  <2>3. QED  BY <2>1, <2>2 DEF SaleOK, ReturnedUnits, SoldUnits
<1>2. QED  BY <1>1 DEF SalesOK

RowType == [req : Requests, change : Int]

Moved(w) == SumFunction([row \in {r \in log : r.req.at = w} |-> row.change])
Carried(w) ==
    SumFunction([row \in {r \in log : r.req.op = "TRANSFER"} |->
        (IF row.req.to = w THEN row.req.units ELSE 0)
        - (IF row.req.at = w THEN row.req.units ELSE 0)])
Traded(w) ==
    SumFunction([s \in {x \in Sold : HomeOf[x] = w} |-> ReturnedUnits(s) - SoldUnits(s)])

\* What a row of the log says that came to w.
Came(row, w) ==
    (IF row.req.at = w THEN row.change ELSE 0)
    + (IF row.req.op # "TRANSFER" THEN 0
       ELSE (IF row.req.to = w THEN row.req.units ELSE 0)
            - (IF row.req.at = w THEN row.req.units ELSE 0))

LEMMA HistoryParts ==
    StockIsItsHistory <=>
        \A w \in Warehouses : stock[w] = Stock0[w] + Moved(w) + Carried(w) + Traded(w)
BY DEF StockIsItsHistory, Moved, Carried, Traded

\* One row more.
LEMMA RowMore ==
    ASSUME log \subseteq RowType, IsFiniteSet(log), NEW row \in RowType, row \notin log,
           log' = log \cup {row}, NEW w \in Warehouses
    PROVE  /\ Moved(w) \in Int /\ Carried(w) \in Int /\ Moved(w)' \in Int /\ Carried(w)' \in Int
           /\ Moved(w)' + Carried(w)' = Moved(w) + Carried(w) + Came(row, w)
<1>1. \A r \in RowType : r.change \in Int /\ r.req.units \in Int
  BY RequestFields DEF RowType
<1> DEFINE S == {r \in log : r.req.at = w}
           e == [r \in RowType |-> r.change]
<1>2. IsFiniteSet(S) /\ row \notin S
  BY FS_Subset
<1>3. \A r \in S \cup {row} : e[r] \in Int
  BY <1>1
<1>4. Moved(w) = SumFunction([r \in S |-> e[r]])
  <2>1. [r \in S |-> r.change] = [r \in S |-> e[r]]
    OBVIOUS
  <2>2. QED  BY <2>1 DEF Moved
<1>5. Moved(w) \in Int /\ Moved(w)' = Moved(w) + (IF row.req.at = w THEN row.change ELSE 0)
  <2>1. SumFunction([r \in S |-> e[r]]) \in Int
        /\ SumFunction([r \in S \cup {row} |-> e[r]]) = SumFunction([r \in S |-> e[r]]) + e[row]
    <3> HIDE DEF S, e
    <3>1. QED  BY <1>2, <1>3, SumExtend
  <2>2. CASE row.req.at = w
    <3>1. {r \in log' : r.req.at = w} = S \cup {row}
      BY <2>2
    <3>2. [r \in S \cup {row} |-> r.change] = [r \in S \cup {row} |-> e[r]]
      OBVIOUS
    <3>3. Moved(w)' = SumFunction([r \in S \cup {row} |-> e[r]])
      BY <3>1, <3>2, Zenon DEF Moved
    <3>4. e[row] = row.change
      OBVIOUS
    <3> HIDE DEF S, e
    <3>5. QED  BY <1>4, <2>1, <2>2, <3>3, <3>4
  <2>3. CASE row.req.at # w
    <3>1. {r \in log' : r.req.at = w} = {r \in log : r.req.at = w}
      BY <2>3
    <3>2. Moved(w)' = Moved(w)
      BY <3>1, Zenon DEF Moved
    <3> HIDE DEF S, e
    <3>3. QED  BY <1>4, <2>1, <2>3, <3>2
  <2>4. QED  BY <2>2, <2>3
<1> DEFINE T == {r \in log : r.req.op = "TRANSFER"}
           f == [r \in RowType |-> (IF r.req.to = w THEN r.req.units ELSE 0)
                                   - (IF r.req.at = w THEN r.req.units ELSE 0)]
<1>6. IsFiniteSet(T) /\ row \notin T
  BY FS_Subset
<1>7. \A r \in T \cup {row} : f[r] \in Int
  BY <1>1
<1>8. Carried(w) = SumFunction([r \in T |-> f[r]])
  <2>1. [r \in T |-> (IF r.req.to = w THEN r.req.units ELSE 0)
                     - (IF r.req.at = w THEN r.req.units ELSE 0)] = [r \in T |-> f[r]]
    OBVIOUS
  <2>2. QED  BY <2>1 DEF Carried
<1>9. /\ Carried(w) \in Int
      /\ Carried(w)' = Carried(w) + (IF row.req.op # "TRANSFER" THEN 0 ELSE f[row])
  <2>1. SumFunction([r \in T |-> f[r]]) \in Int
        /\ SumFunction([r \in T \cup {row} |-> f[r]]) = SumFunction([r \in T |-> f[r]]) + f[row]
    <3> HIDE DEF T, f
    <3>1. QED  BY <1>6, <1>7, SumExtend
  <2>2. CASE row.req.op = "TRANSFER"
    <3>1. {r \in log' : r.req.op = "TRANSFER"} = T \cup {row}
      BY <2>2
    <3>2. [r \in T \cup {row} |-> (IF r.req.to = w THEN r.req.units ELSE 0)
                     - (IF r.req.at = w THEN r.req.units ELSE 0)] = [r \in T \cup {row} |-> f[r]]
      OBVIOUS
    <3>3. Carried(w)' = SumFunction([r \in T \cup {row} |-> f[r]])
      BY <3>1, <3>2, Zenon DEF Carried
    <3> HIDE DEF T, f
    <3>4. QED  BY <1>8, <2>1, <2>2, <3>3
  <2>3. CASE row.req.op # "TRANSFER"
    <3>1. {r \in log' : r.req.op = "TRANSFER"} = {r \in log : r.req.op = "TRANSFER"}
      BY <2>3
    <3>2. Carried(w)' = Carried(w)
      BY <3>1, Zenon DEF Carried
    <3> HIDE DEF T, f
    <3>3. QED  BY <1>8, <2>1, <2>3, <3>2
  <2>4. QED  BY <2>2, <2>3
<1>10. f[row] = (IF row.req.to = w THEN row.req.units ELSE 0)
                - (IF row.req.at = w THEN row.req.units ELSE 0)
  OBVIOUS
<1> HIDE DEF S, T, e, f
<1>11. row.change \in Int /\ row.req.units \in Int
  BY <1>1
<1>12. QED  BY <1>5, <1>9, <1>10, <1>11 DEF Came

LEMMA SaleNumbers ==
    ASSUME TypeOK, NEW s \in Sales
    PROVE  /\ taken[s] \in [Kinds -> Nat] /\ given[s] \in [Kinds -> Nat]
           /\ SoldUnits(s) = taken[s][Loose] + Total(taken[s])
           /\ ReturnedUnits(s) = given[s][Loose] + Total(given[s])
           /\ SoldUnits(s) \in Nat /\ ReturnedUnits(s) \in Nat
<1>1. taken[s] \in [Kinds -> Nat] /\ given[s] \in [Kinds -> Nat]
  BY DEF TypeOK
<1>2. QED  BY <1>1, AllKinds DEF SoldUnits, ReturnedUnits

LEMMA TradedInt ==
    ASSUME TypeOK, FiniteTables, NEW w
    PROVE  /\ Traded(w) \in Int
           /\ Traded(w) = SumFunctionOnSet([s \in Sales |-> ReturnedUnits(s) - SoldUnits(s)],
                                           {x \in Sold : HomeOf[x] = w})
           /\ IsFiniteSet({x \in Sold : HomeOf[x] = w})
<1> DEFINE S == {x \in Sold : HomeOf[x] = w}
           f == [s \in S |-> ReturnedUnits(s) - SoldUnits(s)]
           g == [s \in Sales |-> ReturnedUnits(s) - SoldUnits(s)]
<1>1. IsFiniteSet(S) /\ S \subseteq Sales
  BY FS_Subset DEF FiniteTables, Sold
<1>2. \A s \in S : f[s] = g[s] /\ f[s] \in Int
  BY <1>1, SaleNumbers
<1>3. Traded(w) = SumFunctionOnSet(f, S)
  BY Zenon DEF Traded, SumFunction
<1> HIDE DEF f, g, S
<1>4. SumFunctionOnSet(f, S) = SumFunctionOnSet(g, S) /\ SumFunctionOnSet(f, S) \in Int
  BY <1>1, <1>2, SumSame, SumInt
<1>5. QED  BY <1>1, <1>3, <1>4 DEF g, S

\* The tables beside stock and lots.
Rest ==
    /\ strict \in BOOLEAN /\ today \in Days /\ log \subseteq RowType
    /\ taken \in [Sales -> [Kinds -> Nat]] /\ given \in [Sales -> [Kinds -> Nat]]

LEMMA Parts ==
    IInv <=> /\ Agree /\ Rest /\ tx \in [Procs -> TxType]
             /\ SalesOK /\ Asked /\ FiniteTables /\ StockIsItsHistory /\ AnswersAreTrue
<1>1. TypeOK <=> /\ stock \in [Warehouses -> Nat] /\ lots \in LotsType /\ Rest
                 /\ tx \in [Procs -> TxType]
  BY DEF TypeOK, Rest, LotsType, RowType, TxType
<1>2. Sound(lots) => lots \in LotsType
  BY DEF Sound
<1>3. QED  BY <1>1, <1>2, Zenon DEF IInv, Agree

LEMMA PartsAfter ==
    (/\ Agree /\ Rest /\ tx \in [Procs -> TxType]
     /\ SalesOK /\ Asked /\ FiniteTables /\ StockIsItsHistory /\ AnswersAreTrue)' => IInv'
<1>1. \/ IInv
      \/ ~(/\ Agree /\ Rest /\ tx \in [Procs -> TxType]
           /\ SalesOK /\ Asked /\ FiniteTables /\ StockIsItsHistory /\ AnswersAreTrue)
  BY Parts
<1>2. QED  BY <1>1, PTL

\* The rest, when a movement goes on record.
LEMMA RecordKeeps ==
    ASSUME IInv, NEW p \in Procs, tx[p].req \in Requests, NEW n \in Int, Record(p, n),
           \A w \in Warehouses :
               stock'[w] = stock[w] + Came([req |-> tx[p].req, change |-> n], w),
           Agree', Keeps(lots, lots')
    PROVE  IInv'
<1> DEFINE row == [req |-> tx[p].req, change |-> n]
<1>1. /\ ~KeyUsed(tx[p].req) /\ log' = log \cup {row} /\ Done(p, "ok")
      /\ UNCHANGED <<strict, today, taken, given>>
  BY DEF Record
<1>2. TypeOK /\ Asked /\ AnswersAreTrue /\ FiniteTables /\ SalesOK /\ StockIsItsHistory /\ Rest
  BY Parts DEF IInv
<1>3. row \in RowType /\ row.req = tx[p].req
  BY DEF RowType
<1>4. row \notin log
  BY <1>1, <1>3 DEF KeyUsed, WithKey
<1>5. tx' \in [Procs -> TxType] /\ Asked' /\ AnswersAreTrue'
  BY <1>1, <1>2, <1>3, DoneTx
<1>6. SalesOK'
  BY <1>1, <1>2, SalesKept
<1>7. FiniteTables'
  BY <1>1, <1>2, FS_AddElement DEF FiniteTables, Sold
<1>8. Rest'
  BY <1>1, <1>2, <1>3 DEF Rest
<1>9. StockIsItsHistory'
  <2>1. ASSUME NEW w \in Warehouses
        PROVE  stock'[w] = Stock0[w] + Moved(w)' + Carried(w)' + Traded(w)'
    <3>1. /\ Moved(w) \in Int /\ Carried(w) \in Int /\ Moved(w)' \in Int /\ Carried(w)' \in Int
          /\ Moved(w)' + Carried(w)' = Moved(w) + Carried(w) + Came(row, w)
      BY <1>1, <1>2, <1>3, <1>4, RowMore DEF Rest, FiniteTables
    <3>2. Traded(w)' = Traded(w) /\ Traded(w) \in Int
      BY <1>1, <1>2, TradedInt DEF Traded, Sold, ReturnedUnits, SoldUnits
    <3>3. stock[w] = Stock0[w] + Moved(w) + Carried(w) + Traded(w)
      BY <1>2, HistoryParts
    <3>4. Stock0[w] \in Nat
      BY StockAssumption
    <3>5. stock'[w] = stock[w] + Came(row, w)
      OBVIOUS
    <3>6. Came(row, w) \in Int
      BY <1>3, RequestFields DEF Came, RowType
    <3>7. \A a, b, c, d, e, m, k, t \in Int :
              a + b = m + k + c /\ d = e + m + k + t => d + c = e + a + b + t
      OBVIOUS
    <3>8. stock[w] \in Int
      BY <3>1, <3>2, <3>3, <3>4
    <3> HIDE DEF row
    <3>9. QED  BY <3>1, <3>2, <3>3, <3>4, <3>5, <3>6, <3>7, <3>8
  <2>2. QED  BY <2>1, Zenon DEF StockIsItsHistory, Moved, Carried, Traded
<1>10. QED  BY <1>5, <1>6, <1>7, <1>8, <1>9, PartsAfter

LEMMA CameOther ==
    ASSUME NEW p, tx[p].req.op # "TRANSFER", NEW n \in Int, NEW w
    PROVE  Came([req |-> tx[p].req, change |-> n], w) = IF tx[p].req.at = w THEN n ELSE 0
BY DEF Came

LEMMA QuietKeeps ==
    ASSUME IInv, UNCHANGED tables, tx' \in [Procs -> TxType], Asked', AnswersAreTrue'
    PROVE  IInv'
<1>1. /\ Agree /\ Rest /\ SalesOK /\ FiniteTables /\ StockIsItsHistory
      /\ UNCHANGED <<stock, lots, strict, today, log, taken, given>>
  BY Parts DEF tables
<1>2. Agree' /\ Rest' /\ FiniteTables'
  BY <1>1 DEF Agree, Rest, FiniteTables, Sold
<1>3. SalesOK'
  <2>1. Keeps(lots, lots')
    BY <1>1 DEF Keeps
  <2>2. QED  BY <1>1, <2>1, SalesKept
<1>4. StockIsItsHistory'
  BY <1>1, Zenon DEF StockIsItsHistory, Sold, ReturnedUnits, SoldUnits
<1>5. QED  BY <1>2, <1>3, <1>4, PartsAfter

LEMMA RunKeeps ==
    ASSUME IInv, NEW p \in Procs, Run(p)
    PROVE  IInv'
<1> DEFINE q == tx[p].req
<1>1. TypeOK /\ Agree /\ Asked /\ AnswersAreTrue /\ stock \in [Warehouses -> Nat]
  BY Parts DEF IInv, Agree
<1>2. tx[p].pc = "run" /\ q \in Requests
  BY <1>1, RunCases
<1>3. q.at \in Warehouses /\ q.to \in Warehouses /\ q.units \in Nat
  BY <1>2, RequestFields
<1>4. CASE Answered(p)
  <2>1. UNCHANGED tables
    BY <1>4 DEF Answered
  <2>2. PICK ans \in {"ok", "conflict", "refused"} :
            Done(p, ans) /\ (ans = "ok" => \E row \in log : row.req = tx[p].req)
    BY <1>4 DEF Answered
  <2>3. log' = log
    BY <2>1 DEF tables
  <2>4. tx' \in [Procs -> TxType] /\ Asked' /\ AnswersAreTrue'
    BY <1>1, <2>2, <2>3, DoneTx
  <2>5. QED  BY <2>1, <2>4, QuietKeeps
<1>5. CASE TakesOut(p)
  <2>1. q.op # "TRANSFER"
    BY <1>5 DEF TakesOut
  <2>2. PICK n \in Nat, take \in [Kinds -> Nat] :
              /\ Takes(q.at, n, take) /\ Record(p, -n)
              /\ stock' = [stock EXCEPT ![q.at] = @ - n] /\ lots' = Without(q.at, take)
    BY <1>5 DEF TakesOut
  <2>3. strict' = strict
    BY <2>2 DEF Record
  <2>4. Agree' /\ Keeps(lots, lots')
    BY <1>1, <1>3, <2>2, <2>3, OutAgrees
  <2>5. -n \in Int
    OBVIOUS
  <2>6. \A w \in Warehouses : stock'[w] = stock[w] + Came([req |-> q, change |-> -n], w)
    <3>1. \A w \in Warehouses : Came([req |-> q, change |-> -n], w) = IF q.at = w THEN -n ELSE 0
      BY <2>1, <2>5, CameOther
    <3> HIDE DEF q
    <3>2. QED  BY <1>1, <1>3, <2>2, <3>1
  <2>7. QED  BY <1>2, <2>2, <2>4, <2>5, <2>6, RecordKeeps
<1>6. CASE BringsIn(p)
  <2>1. q.op # "TRANSFER"
    BY <1>6 DEF BringsIn
  <2>2. PICK n \in Nat \ {0}, inputs \in SUBSET InputType :
              /\ Inputs(inputs) /\ Covered(inputs, n) /\ Record(p, n)
              /\ stock' = [stock EXCEPT ![q.at] = @ + n] /\ lots' = With(lots, q.at, inputs)
    BY <1>6 DEF BringsIn
  <2>3. strict' = strict
    BY <2>2 DEF Record
  <2>4. Agree' /\ Keeps(lots, lots')
    BY <1>1, <1>3, <2>2, <2>3, InAgrees
  <2>5. n \in Int
    OBVIOUS
  <2>6. \A w \in Warehouses : stock'[w] = stock[w] + Came([req |-> q, change |-> n], w)
    <3>1. \A w \in Warehouses : Came([req |-> q, change |-> n], w) = IF q.at = w THEN n ELSE 0
      BY <2>1, <2>5, CameOther
    <3> HIDE DEF q
    <3>2. QED  BY <1>1, <1>3, <2>2, <3>1
  <2>7. QED  BY <1>2, <2>2, <2>4, <2>5, <2>6, RecordKeeps
<1>7. CASE Moves(p)
  <2>1. q.op = "TRANSFER" /\ q.at # q.to
    BY <1>7 DEF Moves
  <2> DEFINE inputs(take) == TransferInputs(q.at, take)
  <2>2. PICK take \in [Kinds -> Nat] :
              /\ Takes(q.at, q.units, take) /\ Record(p, 0)
              /\ Accepts(q.to, inputs(take), q.units)
              /\ stock' = [stock EXCEPT ![q.at] = @ - q.units, ![q.to] = @ + q.units]
              /\ lots' = With(Without(q.at, take), q.to, inputs(take))
    BY <1>7 DEF Moves
  <2>3. strict' = strict
    BY <2>2 DEF Record
  <2>4. Inputs(inputs(take)) /\ Covered(inputs(take), q.units)
    BY <1>1, <1>3, <2>2, LotInputs, KindsFacts DEF Accepts
  <2>5. Agree' /\ Keeps(lots, lots')
    <3> HIDE DEF inputs, q
    <3>1. QED  BY <1>1, <1>3, <2>1, <2>2, <2>3, <2>4, MoveAgrees
  <2>6. \A w \in Warehouses : stock'[w] = stock[w] + Came([req |-> q, change |-> 0], w)
    <3>1. \A w \in Warehouses : Came([req |-> q, change |-> 0], w)
              = (IF q.to = w THEN q.units ELSE 0) - (IF q.at = w THEN q.units ELSE 0)
      <4> HIDE DEF q
      <4>1. QED  BY <1>3, <2>1 DEF Came
    <3> HIDE DEF q, inputs
    <3>2. QED  BY <1>1, <1>3, <2>1, <2>2, <3>1
  <2>7. Record(p, 0) /\ 0 \in Int
    BY <2>2
  <2> HIDE DEF inputs
  <2>8. QED  BY <1>2, <2>5, <2>6, <2>7, RecordKeeps
<1>8. CASE Labels(p)
  <2> DEFINE inputs == {Input(q.code, q.expires, None, q.units)}
  <2>1. /\ q.op = "CLASSIFY" /\ q.units > 0 /\ q.units <= Untracked(q.at)
        /\ lots' = With(lots, q.at, inputs) /\ Record(p, 0) /\ UNCHANGED stock
    BY <1>8 DEF Labels
  <2>2. q.code \in Codes /\ q.expires \in Days \cup {Never}
    BY <1>2, <2>1, RequestFields
  <2>3. Inputs(inputs) /\ Total(Added(inputs)) = q.units
    <3>1. q.units \in Nat
      BY <1>3
    <3> HIDE DEF q
    <3>2. QED  BY <2>2, <3>1, NewLotInput
  <2>4. strict' = strict
    BY <2>1 DEF Record
  <2>5. Agree' /\ Keeps(lots, lots')
    <3> HIDE DEF inputs
    <3>1. QED  BY <1>1, <1>3, <2>1, <2>3, <2>4, ClassifyAgrees
  <2>6. \A w \in Warehouses : stock'[w] = stock[w] + Came([req |-> q, change |-> 0], w)
    BY <1>1, <2>1, CameOther
  <2>7. Record(p, 0) /\ 0 \in Int
    BY <2>1
  <2> HIDE DEF inputs
  <2>8. QED  BY <1>2, <2>5, <2>6, <2>7, RecordKeeps
<1>9. CASE Confirms(p)
  <2>1. q.op = "COUNT" /\ Record(p, 0) /\ UNCHANGED <<stock, lots>>
    BY <1>9 DEF Confirms
  <2>2. strict' = strict
    BY <2>1 DEF Record
  <2>3. Agree' /\ Keeps(lots, lots')
    BY <1>1, <2>1, <2>2 DEF Agree, Keeps
  <2>4. \A w \in Warehouses : stock'[w] = stock[w] + Came([req |-> q, change |-> 0], w)
    BY <1>1, <2>1, CameOther
  <2>5. QED  BY <1>2, <2>1, <2>3, <2>4, RecordKeeps
<1>10. QED  BY <1>1, <1>4, <1>5, <1>6, <1>7, <1>8, <1>9, RunCases

\* What the log adds up to are numbers.
LEMMA HistoryInt ==
    ASSUME log \subseteq RowType, IsFiniteSet(log), NEW w
    PROVE  Moved(w) \in Int /\ Carried(w) \in Int
<1>1. \A r \in RowType : r.change \in Int /\ r.req.units \in Int
  BY RequestFields DEF RowType
<1> DEFINE S == {r \in log : r.req.at = w}
           e == [r \in S |-> r.change]
           T == {r \in log : r.req.op = "TRANSFER"}
           f == [r \in T |-> (IF r.req.to = w THEN r.req.units ELSE 0)
                             - (IF r.req.at = w THEN r.req.units ELSE 0)]
<1>2. IsFiniteSet(S) /\ IsFiniteSet(T)
  BY FS_Subset
<1>3. (\A r \in S : e[r] \in Int) /\ \A r \in T : f[r] \in Int
  BY <1>1
<1>4. Moved(w) = SumFunctionOnSet(e, S) /\ Carried(w) = SumFunctionOnSet(f, T)
  BY Zenon DEF Moved, Carried, SumFunction
<1> HIDE DEF S, T, e, f
<1>5. QED  BY <1>2, <1>3, <1>4, SumInt

-----------------------------------------------------------------------------
(* Sales and their returns.                                                *)

LEMMA TradedAlways ==
    TypeOK /\ FiniteTables =>
        \A w : /\ Traded(w) \in Int
               /\ Traded(w) = SumFunctionOnSet([s \in Sales |-> ReturnedUnits(s) - SoldUnits(s)],
                                               {x \in Sold : HomeOf[x] = w})
BY TradedInt

LEMMA TradedAfter ==
    (TypeOK /\ FiniteTables =>
        \A w : /\ Traded(w) \in Int
               /\ Traded(w) = SumFunctionOnSet([s \in Sales |-> ReturnedUnits(s) - SoldUnits(s)],
                                               {x \in Sold : HomeOf[x] = w}))'
BY TradedAlways, PTL

\* Nothing came back of a sale that was not made.
LEMMA NotSold ==
    ASSUME TypeOK, SalesOK, NEW s \in Sales, taken[s] = Nothing
    PROVE  SoldUnits(s) = 0 /\ ReturnedUnits(s) = 0 /\ \A c \in Codes : given[s][c] = 0
<1>1. SoldUnits(s) = 0
  BY NothingFacts DEF SoldUnits
<1>2. ReturnedUnits(s) = 0 /\ given[s][Loose] = 0 /\ Total(given[s]) = 0
  <2>1. ReturnedUnits(s) <= SoldUnits(s)
    BY DEF SalesOK, SaleOK
  <2>2. /\ ReturnedUnits(s) = given[s][Loose] + Total(given[s])
        /\ Total(given[s]) \in Nat /\ given[s][Loose] \in Nat /\ given[s] \in [Kinds -> Nat]
    BY SaleNumbers, AllKinds
  <2>3. QED  BY <1>1, <2>1, <2>2
<1>3. \A c \in Codes : given[s][c] = 0
  <2>1. \A c \in Codes : given[s][c] \in Nat
    BY SaleNumbers, AllKinds
  <2>2. \A c \in Codes : given[s][c] <= Total(given[s])
    BY <2>1, KindsFacts, SumPart DEF Total
  <2>3. QED  BY <1>2, <2>1, <2>2
<1>4. QED  BY <1>1, <1>2, <1>3

\* A sale goes on: it is made, or some of it comes back.
LEMMA TradeKeeps ==
    ASSUME IInv, NEW s \in Sales, UNCHANGED <<strict, today, log, tx>>,
           taken' \in [Sales -> [Kinds -> Nat]], given' \in [Sales -> [Kinds -> Nat]],
           \A x \in Sales \ {s} : taken'[x] = taken[x] /\ given'[x] = given[x],
           taken'[s] # Nothing, SaleOK(s)', Agree', Keeps(lots, lots'),
           \A w \in Warehouses : stock'[w] = stock[w] +
               IF HomeOf[s] = w THEN (ReturnedUnits(s) - SoldUnits(s))'
                                     - (ReturnedUnits(s) - SoldUnits(s)) ELSE 0
    PROVE  IInv'
<1>1. /\ TypeOK /\ Asked /\ AnswersAreTrue /\ FiniteTables /\ SalesOK /\ StockIsItsHistory
      /\ Rest /\ tx \in [Procs -> TxType]
  BY Parts DEF IInv
<1>2. Rest' /\ tx' \in [Procs -> TxType] /\ Asked' /\ AnswersAreTrue'
  BY <1>1 DEF Rest, Asked, AnswersAreTrue
<1>3. SalesOK'
  <2>1. ASSUME NEW x \in Sales \ {s}
        PROVE  SaleOK(x)'
    <3>1. SaleOK(x) /\ HomeOf[x] \in Warehouses /\ taken'[x] = taken[x] /\ given'[x] = given[x]
      BY <1>1, SalesAssumption DEF SalesOK
    <3>2. \A c \in Codes : taken'[x][c] > 0 => /\ lots'[HomeOf[x]][c].known
                                               /\ ~lots'[HomeOf[x]][c].blocked
      BY <3>1 DEF SaleOK, Keeps
    <3>3. QED  BY <3>1, <3>2 DEF SaleOK, ReturnedUnits, SoldUnits
  <2>2. QED  BY <2>1 DEF SalesOK
<1>4. Sold' = Sold \cup {s}
  BY DEF Sold
<1>5. FiniteTables'
  BY <1>1, <1>4, FS_AddElement DEF FiniteTables
<1>6. TypeOK'
  BY <1>2 DEF TypeOK, Agree, Sound, Rest, LotsType, RowType, TxType
<1> DEFINE f == [x \in Sales |-> ReturnedUnits(x) - SoldUnits(x)]
           g == [x \in Sales |-> ReturnedUnits(x)' - SoldUnits(x)']
           S(w) == {x \in Sold : HomeOf[x] = w}
<1>7. \A w : /\ Traded(w) \in Int /\ Traded(w) = SumFunctionOnSet(f, S(w))
             /\ Traded(w)' \in Int
             /\ Traded(w)' = SumFunctionOnSet(g, {x \in Sold' : HomeOf[x] = w})
  BY <1>1, <1>5, <1>6, TradedAlways, TradedAfter
<1>8. \A x \in Sales \ {s} : f[x] = g[x]
  BY DEF ReturnedUnits, SoldUnits
<1>9. (\A x \in Sales : f[x] \in Int /\ g[x] \in Int) /\ (s \notin Sold => f[s] = 0)
  <2>1. \A x \in Sales : f[x] \in Int
    BY <1>1, SaleNumbers
  <2>2. \A x \in Sales : g[x] \in Int
    <3>1. ASSUME NEW x \in Sales
          PROVE  (SoldUnits(x) \in Nat /\ ReturnedUnits(x) \in Nat)'
      BY <1>6, AllKinds DEF TypeOK, SoldUnits, ReturnedUnits
    <3>2. QED  BY <3>1
  <2>3. s \notin Sold => f[s] = 0
    BY <1>1, NotSold DEF Sold
  <2>4. QED  BY <2>1, <2>2, <2>3
<1>10. \A w : IsFiniteSet(S(w)) /\ S(w) \subseteq Sales
  BY <1>1, FS_Subset DEF FiniteTables, Sold
<1>11. \A w : Traded(w)' = Traded(w) + IF HomeOf[s] = w THEN g[s] - f[s] ELSE 0
  <2>1. TAKE w
  <2>2. CASE HomeOf[s] # w
    <3>1. {x \in Sold' : HomeOf[x] = w} = S(w) /\ s \notin S(w)
      BY <1>4, <2>2
    <3>2. \A x \in S(w) : f[x] = g[x]
      BY <1>8, <1>10, <3>1
    <3> DEFINE d == g[s] - f[s]
    <3> HIDE DEF f, g, S, d
    <3>3. SumFunctionOnSet(f, S(w)) = SumFunctionOnSet(g, S(w))
      BY <1>10, <3>2, SumSame
    <3>4. Traded(w)' = Traded(w) /\ Traded(w) \in Int
      BY <1>7, <3>1, <3>3
    <3>5. Traded(w)' = Traded(w) + IF HomeOf[s] = w THEN d ELSE 0
      BY <2>2, <3>4
    <3>6. QED  BY <3>5 DEF d
  <2>3. CASE HomeOf[s] = w /\ s \in Sold
    <3>1. {x \in Sold' : HomeOf[x] = w} = S(w) /\ s \in S(w)
      BY <1>4, <2>3
    <3> HIDE DEF f, g, S
    <3>2. SumFunctionOnSet(g, S(w)) = SumFunctionOnSet(f, S(w)) + (g[s] - f[s])
      BY <1>8, <1>9, <1>10, <3>1, SumChange
    <3>3. QED  BY <1>7, <2>3, <3>1, <3>2
  <2>4. CASE HomeOf[s] = w /\ s \notin Sold
    <3>1. {x \in Sold' : HomeOf[x] = w} = S(w) \cup {s} /\ s \notin S(w)
      BY <1>4, <2>4
    <3>2. \A x \in S(w) : f[x] = g[x]
      BY <1>8, <1>10, <3>1
    <3>3. \A x \in S(w) \cup {s} : g[x] \in Int
      BY <1>9, <1>10
    <3> HIDE DEF f, g, S
    <3>4. SumFunctionOnSet(f, S(w)) = SumFunctionOnSet(g, S(w))
      BY <1>10, <3>2, SumSame
    <3>5. SumFunctionOnSet(g, S(w) \cup {s}) = g[s] + SumFunctionOnSet(g, S(w))
      BY <1>10, <3>1, <3>3, SumAdd
    <3>6. g[s] \in Int /\ f[s] = 0
      BY <1>9, <2>4
    <3>7. Traded(w)' = g[s] + Traded(w) /\ Traded(w) \in Int
      BY <1>7, <3>1, <3>4, <3>5
    <3>8. QED  BY <2>4, <3>6, <3>7
  <2>5. QED  BY <2>2, <2>3, <2>4
<1>12. StockIsItsHistory'
  <2>1. ASSUME NEW w \in Warehouses
        PROVE  stock'[w] = Stock0[w] + Moved(w)' + Carried(w)' + Traded(w)'
    <3>1. Moved(w)' = Moved(w) /\ Carried(w)' = Carried(w)
      BY DEF Moved, Carried
    <3>2. Moved(w) \in Int /\ Carried(w) \in Int
      BY <1>1, HistoryInt DEF Rest, FiniteTables
    <3>3. stock[w] = Stock0[w] + Moved(w) + Carried(w) + Traded(w)
      BY <1>1, HistoryParts
    <3>4. Stock0[w] \in Nat /\ Traded(w) \in Int
      BY <1>7, StockAssumption
    <3> DEFINE d == IF HomeOf[s] = w THEN g[s] - f[s] ELSE 0
    <3>5. d \in Int
      <4>1. f[s] \in Int /\ g[s] \in Int
        BY <1>9
      <4> HIDE DEF f, g
      <4>2. QED  BY <4>1
    <3>6. stock'[w] = stock[w] + d
      OBVIOUS
    <3>7. Traded(w)' = Traded(w) + d
      BY <1>11
    <3> HIDE DEF d
    <3>8. QED  BY <3>1, <3>2, <3>3, <3>4, <3>5, <3>6, <3>7
  <2>2. QED  BY <2>1, Zenon DEF StockIsItsHistory, Moved, Carried, Traded
<1>13. QED  BY <1>2, <1>3, <1>5, <1>12, PartsAfter

\* A sale takes goods that may be sold.
Sells(s) ==
    LET w == HomeOf[s]
    IN  /\ taken[s] = Nothing /\ UNCHANGED <<strict, today, log, given, tx>>
        /\ \E n \in Nat \ {0}, take \in [Kinds -> Nat] :
              /\ Takes(w, n, take)
              /\ \A c \in Codes : take[c] > 0 => lots[w][c].known /\ Fit(w, c)
              /\ stock' = [stock EXCEPT ![w] = @ - n] /\ lots' = Without(w, take)
              /\ taken' = [taken EXCEPT ![s] = take]

LEMMA SellCases ==
    ASSUME TypeOK, Agree, NEW s \in Sales, Sell(s)
    PROVE  Sells(s)
<1> DEFINE w == HomeOf[s]
<1>1. w \in Warehouses
  BY SalesAssumption
<1>2. PICK n \in 1..MaxUnits : \E take \in Allocations(w, n, None, FALSE) :
          /\ stock' = [stock EXCEPT ![w] = @ - n] /\ lots' = Without(w, take)
          /\ taken' = [taken EXCEPT ![s] = take]
  BY DEF Sell
<1>3. PICK take \in Allocations(w, n, None, FALSE) :
          /\ stock' = [stock EXCEPT ![w] = @ - n] /\ lots' = Without(w, take)
          /\ taken' = [taken EXCEPT ![s] = take]
  BY <1>2
<1>4. n \in Nat \ {0}
  BY SalesAssumption
<1>5. /\ Takes(w, n, take)
      /\ \A c \in Codes : take[c] > 0 => lots[w][c].known /\ Fit(w, c)
  <2> HIDE DEF w
  <2>1. Sound(lots) /\ Within(lots, stock, strict)
    BY DEF Agree
  <2>2. QED  BY <1>1, <1>4, <2>1, AllocationTakes
<1>6. take \in [Kinds -> Nat]
  BY <1>5 DEF Takes
<1>7. QED  BY <1>3, <1>4, <1>5, <1>6 DEF Sells, Sell

LEMMA SellKeeps ==
    ASSUME IInv, NEW s \in Sales, Sell(s)
    PROVE  IInv'
<1> DEFINE w == HomeOf[s]
<1>1. /\ TypeOK /\ Agree /\ SalesOK /\ w \in Warehouses /\ Rest /\ stock \in [Warehouses -> Nat]
      /\ Sells(s)
  BY Parts, SalesAssumption, SellCases DEF IInv, Agree
<1>2. taken[s] = Nothing /\ UNCHANGED <<strict, today, log, given, tx>>
  BY <1>1 DEF Sells
<1>3. PICK n \in Nat \ {0}, take \in [Kinds -> Nat] :
          /\ Takes(w, n, take)
          /\ \A c \in Codes : take[c] > 0 => lots[w][c].known /\ Fit(w, c)
          /\ stock' = [stock EXCEPT ![w] = @ - n] /\ lots' = Without(w, take)
          /\ taken' = [taken EXCEPT ![s] = take]
  BY <1>1 DEF Sells
<1>4. n \in Nat /\ n > 0
  OBVIOUS
<1>5. /\ Takes(w, n, take)
      /\ \A c \in Codes : take[c] > 0 => lots[w][c].known /\ Fit(w, c)
  BY <1>3
<1>6. Agree' /\ Keeps(lots, lots')
  <2> HIDE DEF w
  <2>1. QED  BY <1>1, <1>2, <1>3, <1>5, OutAgrees
<1>7. take \in [Kinds -> Nat] /\ SumFunction(take) = n
  <2>1. take \in [Kinds -> Nat] /\ n = take[Loose] + Total(take)
    BY <1>5 DEF Takes
  <2>2. QED  BY <2>1, AllKinds
<1>8. /\ taken' \in [Sales -> [Kinds -> Nat]] /\ taken'[s] = take
      /\ \A x \in Sales \ {s} : taken'[x] = taken[x]
  BY <1>1, <1>3, <1>7 DEF Rest
<1>9. taken'[s] # Nothing
  BY <1>4, <1>7, <1>8, NothingFacts
<1>10. SoldUnits(s) = 0 /\ ReturnedUnits(s) = 0 /\ \A c \in Codes : given[s][c] = 0
  BY <1>1, <1>2, NotSold
<1>11. SoldUnits(s)' = n /\ ReturnedUnits(s)' = 0
  BY <1>2, <1>7, <1>8, <1>10 DEF SoldUnits, ReturnedUnits
<1>12. SaleOK(s)'
  <2>1. \A c \in Codes : taken'[s][c] > 0 => lots'[w][c].known /\ ~lots'[w][c].blocked
    <3>1. \A c \in Codes : take[c] > 0 => lots[w][c].known /\ ~lots[w][c].blocked
      BY <1>5 DEF Fit
    <3>2. QED  BY <1>1, <1>6, <1>8, <3>1 DEF Keeps
  <2>2. \A c \in Codes \ {ReturnCode} : given'[s][c] <= taken'[s][c]
    <3>1. \A c \in Codes : take[c] \in Nat
      BY <1>7, KindsFacts
    <3>2. QED  BY <1>2, <1>8, <1>10, <3>1
  <2>3. ReturnedUnits(s)' <= SoldUnits(s)' /\ ReturnedUnits(s)' # SoldUnits(s)'
    BY <1>4, <1>11
  <2>4. QED  BY <2>1, <2>2, <2>3 DEF SaleOK
<1>13. given' \in [Sales -> [Kinds -> Nat]] /\ \A x \in Sales \ {s} : given'[x] = given[x]
  BY <1>1, <1>2 DEF Rest
<1>14. \A v \in Warehouses : stock'[v] = stock[v] +
           IF HomeOf[s] = v THEN (ReturnedUnits(s) - SoldUnits(s))'
                                 - (ReturnedUnits(s) - SoldUnits(s)) ELSE 0
  <2>1. (ReturnedUnits(s) - SoldUnits(s))' - (ReturnedUnits(s) - SoldUnits(s)) = -n
    BY <1>4, <1>10, <1>11
  <2>2. \A v \in Warehouses : stock'[v] = stock[v] + IF HomeOf[s] = v THEN -n ELSE 0
    BY <1>1, <1>3, <1>4
  <2>3. QED  BY <2>1, <2>2, Zenon
<1>15. QED  BY <1>2, <1>6, <1>8, <1>9, <1>12, <1>13, <1>14, TradeKeeps

\* What the lines of a return bring back.
LEMMA Restored ==
    ASSUME TypeOK, NEW s \in Sales, NEW m \in Nat, NEW n \in Nat,
           NEW first \in Restorations(s, Nothing, m),
           NEW second \in Restorations(s, Booked(first), n),
           NEW back, back = [c \in Kinds |-> first[c] + second[c]]
    PROVE  /\ back \in [Kinds -> Nat] /\ SumFunction(back) = m + n
           /\ \A c \in Codes : back[c] > 0 => taken[s][c] > 0
           /\ \A c \in Codes : back[c] <= taken[s][c]
           /\ ~strict => back[Loose] <= taken[s][Loose]
           /\ \/ \A c \in Kinds : back[c] <= taken[s][c]
              \/ \A c \in Codes \ {ReturnCode} : back[c] = taken[s][c]
<1> DEFINE booked == Booked(first)
<1>1. taken[s] \in [Kinds -> Nat]
  BY SaleNumbers
<1>2. /\ first \in [Kinds -> Nat] /\ SumFunction(first) = m
      /\ \A c \in Kinds : first[c] <= taken[s][c]
      /\ first[Loose] > 0 => \A c \in Codes : first[c] = taken[s][c]
  <2>1. /\ first \in [Kinds -> 0..m] /\ SumFunction(first) = m
        /\ \A c \in Kinds : first[c] <= LeftToRestore(s, Nothing)[c]
        /\ first[Loose] > 0 => \A c \in Codes : first[c] = LeftToRestore(s, Nothing)[c]
    BY DEF Restorations
  <2>2. \A c \in Kinds : LeftToRestore(s, Nothing)[c] = taken[s][c]
    BY <1>1 DEF LeftToRestore, Nothing, Positive
  <2>3. QED  BY <2>1, <2>2, KindsFacts
<1>3. /\ booked \in [Kinds -> Nat]
      /\ \A c \in Codes \ {ReturnCode} : booked[c] = first[c]
      /\ \A c \in Codes : booked[c] >= first[c]
      /\ ~strict \/ first[Loose] = 0 => \A c \in Kinds : booked[c] = first[c]
  BY <1>2, KindsFacts DEF Booked
<1> HIDE DEF booked
<1>4. /\ second \in [Kinds -> Nat] /\ SumFunction(second) = n
      /\ \A c \in Kinds : second[c] <= Positive(taken[s][c] - booked[c])
  BY DEF Restorations, LeftToRestore, booked
<1>5. \A c \in Kinds : /\ first[c] \in Nat /\ second[c] \in Nat /\ back[c] = first[c] + second[c]
                       /\ taken[s][c] \in Nat /\ booked[c] \in Nat
  BY <1>1, <1>2, <1>3, <1>4
<1>6. back \in [Kinds -> Nat] /\ SumFunction(back) = m + n
  <2>1. SumFunctionOnSet(back, Kinds) = SumFunctionOnSet(first, Kinds) + SumFunctionOnSet(second, Kinds)
    BY <1>5, KindsFacts, SumPlus
  <2>2. DOMAIN back = Kinds /\ DOMAIN first = Kinds /\ DOMAIN second = Kinds
    BY <1>2, <1>4
  <2>3. QED  BY <1>2, <1>4, <1>5, <2>1, <2>2 DEF SumFunction
<1>7. \A c \in Kinds : back[c] > 0 => taken[s][c] > 0
  BY <1>2, <1>4, <1>5 DEF Positive
<1>8. \A c \in Kinds : booked[c] = first[c] => back[c] <= taken[s][c]
  BY <1>2, <1>4, <1>5 DEF Positive
<1>9. \/ \A c \in Kinds : booked[c] = first[c]
      \/ \A c \in Codes \ {ReturnCode} : back[c] = taken[s][c]
  <2>1. CASE first[Loose] > 0
    <3>1. \A c \in Codes : first[c] = taken[s][c]
      BY <1>2, <2>1
    <3>2. \A c \in Codes \ {ReturnCode} : second[c] = 0
      BY <1>3, <1>4, <1>5, <3>1, KindsFacts DEF Positive
    <3>3. ASSUME NEW c \in Codes \ {ReturnCode}
          PROVE  back[c] = taken[s][c]
      <4>1. c \in Kinds /\ first[c] = taken[s][c] /\ second[c] = 0
        BY <3>1, <3>2, KindsFacts
      <4>2. QED  BY <1>5, <4>1
    <3>4. QED  BY <3>3
  <2>2. CASE first[Loose] = 0
    BY <1>3, <2>2
  <2>3. first[Loose] \in Nat
    BY <1>5, KindsFacts
  <2>4. QED  BY <2>1, <2>2, <2>3
<1>10. ASSUME NEW c \in Codes
       PROVE  back[c] <= taken[s][c]
  <2>1. /\ first[c] \in Nat /\ second[c] \in Nat /\ back[c] = first[c] + second[c]
        /\ taken[s][c] \in Nat /\ booked[c] \in Nat /\ booked[c] >= first[c]
        /\ first[c] <= taken[s][c] /\ second[c] <= Positive(taken[s][c] - booked[c])
    BY <1>2, <1>3, <1>4, <1>5, KindsFacts
  <2>2. QED  BY <2>1 DEF Positive
<1>11. ~strict => back[Loose] <= taken[s][Loose]
  BY <1>3, <1>8, KindsFacts
<1>12. QED  BY <1>6, <1>7, <1>8, <1>9, <1>10, <1>11, KindsFacts

\* What goes on record of it.
LEMMA BookedUnits ==
    ASSUME strict \in BOOLEAN, NEW back \in [Kinds -> Nat]
    PROVE  /\ Booked(back) \in [Kinds -> Nat]
           /\ \A c \in Codes : Booked(back)[c] >= back[c]
           /\ \A c \in Codes \ {ReturnCode} : Booked(back)[c] = back[c]
           /\ Booked(back)[Loose] = (IF strict THEN 0 ELSE back[Loose])
           /\ SumFunction(Booked(back)) = SumFunction(back)
<1> DEFINE b == Booked(back)
<1>1. /\ b \in [Kinds -> Nat] /\ \A c \in Codes \ {ReturnCode} : b[c] = back[c]
      /\ ~strict => b = back
      /\ strict => b[Loose] = 0 /\ b[ReturnCode] = back[ReturnCode] + back[Loose]
  BY KindsFacts DEF Booked
<1> HIDE DEF b
<1>2. b[Loose] = (IF strict THEN 0 ELSE back[Loose])
  BY <1>1
<1>3. \A c \in Codes : b[c] >= back[c]
  <2>1. ASSUME NEW c \in Codes
        PROVE  b[c] >= back[c]
    <3>1. b[c] \in Nat /\ back[c] \in Nat /\ back[Loose] \in Nat
      BY <1>1, KindsFacts
    <3>2. b[c] = back[c] \/ b[c] = back[c] + back[Loose]
      BY <1>1
    <3>3. QED  BY <3>1, <3>2
  <2>2. QED  BY <2>1
<1>4. CASE strict
  <2>1. \A c \in Codes : b[c] \in Int /\ back[c] \in Int
    BY <1>1, KindsFacts
  <2>2. Total(b) = Total(back) + (b[ReturnCode] - back[ReturnCode])
    BY <1>1, <2>1, KindsFacts, SumChange DEF Total
  <2>3. /\ SumFunction(b) = b[Loose] + Total(b) /\ SumFunction(back) = back[Loose] + Total(back)
        /\ Total(back) \in Nat /\ back[Loose] \in Nat
    BY <1>1, AllKinds
  <2>4. QED  BY <1>1, <1>2, <1>3, <1>4, <2>1, <2>2, <2>3, KindsFacts DEF b
<1>5. QED  BY <1>1, <1>2, <1>3, <1>4 DEF b

\* Where a lot that sold goods stands for goods without one, no input does: the
\* lot would have to be blocked.
LEMMA ReturnsInputs ==
    ASSUME TypeOK, Agree, NEW w \in Warehouses, NEW back \in [Kinds -> Nat], NEW n,
           \A c \in Codes : back[c] > 0 => lots[w][c].known /\ ~lots[w][c].blocked,
           Accepts(w, ReturnInputs(w, back), n)
    PROVE  /\ Inputs(ReturnInputs(w, back))
           /\ \A i \in ReturnInputs(w, back) :
                 \/ i.blocked = TRUE
                 \/ back[i.code] > 0 /\ i.units = back[i.code]
<1> DEFINE of == TransferInputs(w, back)
           apart == Input(ReturnCode, Never, TRUE, back[Loose])
           all == ReturnInputs(w, back)
<1>1. \A c \in Codes : back[c] \in Nat
  BY KindsFacts
<1>2. /\ Inputs(of)
      /\ \A i \in of : back[i.code] > 0 /\ i.code \in Codes /\ i.units = back[i.code]
  <2>1. Inputs(of) /\ \A i \in of : back[i.code] > 0 /\ i.code \in Codes
    BY <1>1, LotInputs
  <2>2. \A i \in of : i.units = back[i.code]
    BY DEF TransferInputs, Input
  <2>3. QED  BY <2>1, <2>2
<1>3. apart \in InputType /\ apart.code = ReturnCode /\ apart.blocked = TRUE
  BY KindsFacts DEF Input, InputType
<1>4. all = of \cup (IF strict /\ back[Loose] > 0 THEN {apart} ELSE {})
  BY Zenon DEF ReturnInputs, TransferInputs
<1> HIDE DEF of, apart, all
<1>5. CASE ~(strict /\ back[Loose] > 0)
  <2>1. all = of
    BY <1>4, <1>5
  <2>2. QED  BY <1>2, <2>1 DEF all
<1>6. CASE strict /\ back[Loose] > 0
  <2>1. all = of \cup {apart}
    BY <1>4, <1>6
  <2>2. \A i \in of : i.code # ReturnCode
    <3>1. ASSUME back[ReturnCode] > 0
          PROVE  FALSE
      <4>1. lots[w][ReturnCode].known /\ ~lots[w][ReturnCode].blocked
            /\ lots[w][ReturnCode] \in Lot
        BY <3>1, KindsFacts DEF TypeOK
      <4>2. Compatible(w, apart)
        BY <2>1 DEF Accepts, all
      <4>3. TRUE \in {None, lots[w][ReturnCode].blocked}
        BY <1>3, <4>1, <4>2 DEF Compatible
      <4>4. QED  BY <4>1, <4>3, NoneAssumption DEF Lot
    <3>2. QED  BY <1>2, <3>1
  <2>3. IsFiniteSet(all)
    BY <1>2, <2>1, FS_AddElement DEF Inputs
  <2>4. QED  BY <1>2, <1>3, <2>1, <2>2, <2>3 DEF Inputs, all
<1>7. QED  BY <1>5, <1>6

\* A return brings back what the sale took, of lots that exist and are not blocked.
Refunds(s) ==
    LET w == HomeOf[s]
    IN  /\ given[s] = Nothing /\ UNCHANGED <<strict, today, log, taken, tx>>
        /\ \E k \in Nat \ {0}, back \in [Kinds -> Nat] :
              /\ k <= SoldUnits(s) /\ SumFunction(back) = k
              /\ \A c \in Codes : back[c] > 0 => lots[w][c].known /\ ~lots[w][c].blocked
              /\ \A c \in Codes : back[c] <= taken[s][c]
              /\ ~strict => back[Loose] <= taken[s][Loose]
              /\ \/ \A c \in Kinds : back[c] <= taken[s][c]
                 \/ \A c \in Codes \ {ReturnCode} : back[c] = taken[s][c]
              /\ Inputs(ReturnInputs(w, back)) /\ Accepts(w, ReturnInputs(w, back), k)
              /\ stock' = [stock EXCEPT ![w] = @ + k]
              /\ lots' = With(lots, w, ReturnInputs(w, back))
              /\ given' = [given EXCEPT ![s] = Booked(back)]

LEMMA RefundCases ==
    ASSUME IInv, NEW s \in Sales, Refund(s)
    PROVE  Refunds(s)
<1> DEFINE w == HomeOf[s]
<1>1. /\ TypeOK /\ Agree /\ SaleOK(s) /\ w \in Warehouses /\ Rest /\ MaxUnits \in Nat
      /\ stock \in [Warehouses -> Nat]
  BY Parts, SalesAssumption DEF IInv, Agree, SalesOK
<1>2. given[s] = Nothing /\ UNCHANGED <<strict, today, log, taken, tx>>
  BY DEF Refund
<1>3. PICK m \in 1..MaxUnits, n \in 0..MaxUnits :
        \E first \in Restorations(s, Nothing, m) :
        \E second \in Restorations(s, Booked(first), n) :
           LET back == [c \in Kinds |-> first[c] + second[c]]
           IN  /\ m + n <= SoldUnits(s)
               /\ Accepts(w, ReturnInputs(w, back), m + n)
               /\ stock' = [stock EXCEPT ![w] = @ + m + n]
               /\ lots' = With(lots, w, ReturnInputs(w, back))
               /\ given' = [given EXCEPT ![s] = Booked(back)]
  BY Zenon DEF Refund
<1>4. PICK first \in Restorations(s, Nothing, m) :
        \E second \in Restorations(s, Booked(first), n) :
           LET back == [c \in Kinds |-> first[c] + second[c]]
           IN  /\ m + n <= SoldUnits(s)
               /\ Accepts(w, ReturnInputs(w, back), m + n)
               /\ stock' = [stock EXCEPT ![w] = @ + m + n]
               /\ lots' = With(lots, w, ReturnInputs(w, back))
               /\ given' = [given EXCEPT ![s] = Booked(back)]
  BY <1>3
<1>5. PICK second \in Restorations(s, Booked(first), n) :
           LET back == [c \in Kinds |-> first[c] + second[c]]
           IN  /\ m + n <= SoldUnits(s)
               /\ Accepts(w, ReturnInputs(w, back), m + n)
               /\ stock' = [stock EXCEPT ![w] = @ + m + n]
               /\ lots' = With(lots, w, ReturnInputs(w, back))
               /\ given' = [given EXCEPT ![s] = Booked(back)]
  BY <1>4
<1> DEFINE back == [c \in Kinds |-> first[c] + second[c]]
           k == m + n
<1>6. /\ k <= SoldUnits(s) /\ Accepts(w, ReturnInputs(w, back), k)
      /\ stock' = [stock EXCEPT ![w] = @ + m + n]
      /\ lots' = With(lots, w, ReturnInputs(w, back))
      /\ given' = [given EXCEPT ![s] = Booked(back)]
  BY <1>5
<1>7. m \in Nat /\ n \in Nat /\ k \in Nat /\ k > 0
  BY <1>1
<1>8. /\ back \in [Kinds -> Nat] /\ SumFunction(back) = k
      /\ \A c \in Codes : back[c] > 0 => taken[s][c] > 0
      /\ \A c \in Codes : back[c] <= taken[s][c]
      /\ ~strict => back[Loose] <= taken[s][Loose]
      /\ \/ \A c \in Kinds : back[c] <= taken[s][c]
         \/ \A c \in Codes \ {ReturnCode} : back[c] = taken[s][c]
  BY <1>1, <1>7, Restored
<1>9. stock' = [stock EXCEPT ![w] = @ + k]
  <2>1. stock[w] + m + n = stock[w] + k
    BY <1>1, <1>7
  <2> HIDE DEF k, w, back
  <2>2. QED  BY <1>6, <2>1
<1> HIDE DEF back, k, w
<1>10. \A c \in Codes : back[c] > 0 => lots[w][c].known /\ ~lots[w][c].blocked
  BY <1>1, <1>8 DEF SaleOK, w
<1>11. Inputs(ReturnInputs(w, back))
  BY <1>1, <1>6, <1>8, <1>10, ReturnsInputs
<1>12. k \in Nat \ {0}
  BY <1>7
<1>13. QED  BY <1>2, <1>6, <1>8, <1>9, <1>10, <1>11, <1>12 DEF Refunds, w

LEMMA RefundKeeps ==
    ASSUME IInv, NEW s \in Sales, Refund(s)
    PROVE  IInv'
<1> DEFINE w == HomeOf[s]
<1>1. /\ TypeOK /\ Agree /\ SaleOK(s) /\ w \in Warehouses /\ Rest /\ MaxUnits \in Nat
      /\ stock \in [Warehouses -> Nat] /\ Refunds(s)
  BY Parts, SalesAssumption, RefundCases DEF IInv, Agree, SalesOK
<1>2. given[s] = Nothing /\ UNCHANGED <<strict, today, log, taken, tx>>
  BY <1>1 DEF Refunds
<1>3. PICK k \in Nat \ {0}, back \in [Kinds -> Nat] :
        /\ k <= SoldUnits(s) /\ SumFunction(back) = k
        /\ \A c \in Codes : back[c] > 0 => lots[w][c].known /\ ~lots[w][c].blocked
        /\ \A c \in Codes : back[c] <= taken[s][c]
        /\ \/ \A c \in Kinds : back[c] <= taken[s][c]
           \/ \A c \in Codes \ {ReturnCode} : back[c] = taken[s][c]
        /\ Inputs(ReturnInputs(w, back)) /\ Covered(ReturnInputs(w, back), k)
        /\ stock' = [stock EXCEPT ![w] = @ + k]
        /\ lots' = With(lots, w, ReturnInputs(w, back))
        /\ given' = [given EXCEPT ![s] = Booked(back)]
  BY <1>1 DEF Refunds, Accepts
<1> HIDE DEF w
<1>4. /\ Booked(back) \in [Kinds -> Nat] /\ SumFunction(Booked(back)) = k
      /\ \A c \in Codes \ {ReturnCode} : Booked(back)[c] = back[c]
  BY <1>1, <1>3, BookedUnits DEF Rest
<1>5. Agree' /\ Keeps(lots, lots')
  BY <1>1, <1>2, <1>3, InAgrees
<1>6. /\ given' \in [Sales -> [Kinds -> Nat]] /\ given'[s] = Booked(back)
      /\ \A x \in Sales \ {s} : given'[x] = given[x]
      /\ taken' = taken /\ taken \in [Sales -> [Kinds -> Nat]]
  BY <1>1, <1>2, <1>3, <1>4 DEF Rest
<1>7. /\ SoldUnits(s)' = SoldUnits(s) /\ SoldUnits(s) \in Nat
      /\ ReturnedUnits(s)' = k /\ ReturnedUnits(s) = 0
  <2>1. SoldUnits(s) \in Nat
    BY <1>1, SaleNumbers
  <2>2. QED  BY <1>2, <1>4, <1>6, <2>1, NothingFacts DEF SoldUnits, ReturnedUnits
<1>8. taken'[s] # Nothing
  BY <1>3, <1>6, <1>7, NothingFacts DEF SoldUnits
<1>9. SaleOK(s)'
  <2>1. \A c \in Codes : taken'[s][c] > 0 => /\ lots'[HomeOf[s]][c].known
                                             /\ ~lots'[HomeOf[s]][c].blocked
    BY <1>1, <1>5, <1>6 DEF SaleOK, Keeps, w
  <2>2. \A c \in Codes \ {ReturnCode} : given'[s][c] <= taken'[s][c]
    BY <1>3, <1>4, <1>6
  <2>3. ReturnedUnits(s)' <= SoldUnits(s)'
    BY <1>3, <1>7
  <2>4. ASSUME k = SoldUnits(s)
        PROVE  \A c \in Codes \ {ReturnCode} : back[c] = taken[s][c]
    <3>1. CASE \A c \in Kinds : back[c] <= taken[s][c]
      <4>1. taken[s] \in [Kinds -> Nat]
        BY <1>6
      <4>2. \A c \in Kinds : back[c] \in Int /\ taken[s][c] \in Int /\ back[c] <= taken[s][c]
        BY <1>3, <3>1, <4>1
      <4>3. SumFunctionOnSet(back, Kinds) = SumFunctionOnSet(taken[s], Kinds)
        BY <1>3, <2>4, <4>1 DEF SoldUnits, SumFunction
      <4>4. QED  BY <4>2, <4>3, KindsFacts, SumEqual
    <3>2. QED  BY <1>3, <3>1
  <2>5. ReturnedUnits(s)' = SoldUnits(s)' =>
            \A c \in Codes \ {ReturnCode} : given'[s][c] = taken'[s][c]
    BY <1>4, <1>6, <1>7, <2>4
  <2>6. QED  BY <2>1, <2>2, <2>3, <2>5 DEF SaleOK
<1>10. \A v \in Warehouses : stock'[v] = stock[v] +
           IF HomeOf[s] = v THEN (ReturnedUnits(s) - SoldUnits(s))'
                                 - (ReturnedUnits(s) - SoldUnits(s)) ELSE 0
  <2>1. (ReturnedUnits(s) - SoldUnits(s))' - (ReturnedUnits(s) - SoldUnits(s)) = k
    BY <1>3, <1>7
  <2>2. \A v \in Warehouses : stock'[v] = stock[v] + IF HomeOf[s] = v THEN k ELSE 0
    BY <1>1, <1>3 DEF w
  <2>3. QED  BY <2>1, <2>2, Zenon
<1>11. QED  BY <1>2, <1>5, <1>6, <1>8, <1>9, <1>10, TradeKeeps

\* Lots are required only where nothing is loose.
LEMMA TrackKeeps ==
    ASSUME IInv, NEW required \in BOOLEAN, Track(required)
    PROVE  IInv'
<1>1. /\ Agree /\ Rest /\ tx \in [Procs -> TxType]
      /\ SalesOK /\ Asked /\ FiniteTables /\ StockIsItsHistory /\ AnswersAreTrue
  BY Parts
<1>2. /\ UNCHANGED <<stock, lots, today, log, taken, given, tx>> /\ strict' = required
      /\ required => \A w \in Warehouses : Positive(Untracked(w)) = 0
  BY DEF Track
<1>3. Agree'
  <2>1. \A w \in Warehouses : Total(Held(lots, w)) <= stock[w]
    BY <1>1, AgreeFacts
  <2>2. required => \A w \in Warehouses : Total(Held(lots, w)) = stock[w]
    <3>1. ASSUME required, NEW w \in Warehouses
          PROVE  Total(Held(lots, w)) = stock[w]
      <4>1. Positive(Untracked(w)) = 0
        BY <1>2, <3>1
      <4>2. QED  BY <1>1, <4>1, AgreeFacts DEF Positive
    <3>2. QED  BY <3>1
  <2>3. QED  BY <1>1, <1>2, <2>1, <2>2 DEF Agree, Within
<1>4. Rest' /\ FiniteTables' /\ Asked' /\ AnswersAreTrue' /\ (tx \in [Procs -> TxType])'
  BY <1>1, <1>2 DEF Rest, FiniteTables, Sold, Asked, AnswersAreTrue
<1>5. SalesOK'
  BY <1>1, <1>2, SalesKept DEF Keeps
<1>6. StockIsItsHistory'
  BY <1>1, <1>2, Zenon DEF StockIsItsHistory, Sold, ReturnedUnits, SoldUnits
<1>7. QED  BY <1>3, <1>4, <1>5, <1>6, PartsAfter

LEMMA NextDayKeeps ==
    ASSUME IInv, NextDay
    PROVE  IInv'
<1>1. /\ Agree /\ Rest /\ tx \in [Procs -> TxType]
      /\ SalesOK /\ Asked /\ FiniteTables /\ StockIsItsHistory /\ AnswersAreTrue
  BY Parts
<1>2. /\ UNCHANGED <<stock, lots, strict, log, taken, given, tx>>
      /\ today < LastDay /\ today' = today + 1
  BY DEF NextDay
<1>3. today' \in Days
  BY <1>1, <1>2, CalendarAssumption DEF Rest, Days
<1>4. /\ Agree' /\ Rest' /\ FiniteTables' /\ Asked' /\ AnswersAreTrue'
      /\ (tx \in [Procs -> TxType])'
  BY <1>1, <1>2, <1>3 DEF Agree, Rest, FiniteTables, Sold, Asked, AnswersAreTrue
<1>5. SalesOK'
  BY <1>1, <1>2, SalesKept DEF Keeps
<1>6. StockIsItsHistory'
  BY <1>1, <1>2, Zenon DEF StockIsItsHistory, Sold, ReturnedUnits, SoldUnits
<1>7. QED  BY <1>4, <1>5, <1>6, PartsAfter

-----------------------------------------------------------------------------
(* The invariant, and what it says of warehouses, lots and the history.    *)

LEMMA InitHolds == Init => IInv
<1> SUFFICES ASSUME Init
             PROVE  IInv
  OBVIOUS
<1>1. /\ stock = Stock0 /\ lots = [w \in Warehouses |-> [c \in Codes |-> NoLot]]
      /\ strict = FALSE /\ today = 0 /\ log = {}
      /\ taken = [s \in Sales |-> Nothing] /\ given = [s \in Sales |-> Nothing]
      /\ tx = [p \in Procs |-> IdleTx]
  BY DEF Init
<1>2. Sound(lots)
  <2>1. NoLot \in Lot /\ NoLot.units = 0
    BY CalendarAssumption DEF NoLot, Lot
  <2>2. QED  BY <1>1, <2>1 DEF Sound, LotsType
<1>3. \A w \in Warehouses : Total(Held(lots, w)) = 0
  <2>1. TAKE w \in Warehouses
  <2>2. \A c \in Codes : Held(lots, w)[c] = 0
    BY <1>1 DEF Held, NoLot
  <2>3. SumFunctionOnSet(Held(lots, w), Codes) = SumFunctionOnSet(Held(lots, w), {})
    <3>1. {} \subseteq Codes /\ (\A c \in Codes : Held(lots, w)[c] \in Int)
          /\ \A c \in Codes \ {} : Held(lots, w)[c] = 0
      BY <2>2
    <3>2. QED  BY <3>1, KindsFacts, SumZeroes
  <2>4. QED  BY <2>3, SumEmpty DEF Total
<1>4. Agree
  BY <1>1, <1>2, <1>3, StockAssumption DEF Agree, Within
<1>5. Rest
  <2>1. today \in Days
    BY <1>1, CalendarAssumption DEF Days
  <2>2. taken \in [Sales -> [Kinds -> Nat]] /\ given \in [Sales -> [Kinds -> Nat]]
    BY <1>1, NothingFacts
  <2>3. QED  BY <1>1, <2>1, <2>2 DEF Rest
<1>6. tx \in [Procs -> TxType] /\ Asked /\ AnswersAreTrue
  <2>1. IdleTx \in TxType /\ IdleTx.pc = "idle" /\ IdleTx.ans = "none"
    BY DEF IdleTx, TxType
  <2>2. QED  BY <1>1, <2>1 DEF Asked, AnswersAreTrue
<1>7. FiniteTables /\ Sold = {}
  BY <1>1, FS_EmptySet DEF FiniteTables, Sold
<1>8. SalesOK
  <2>1. \A c \in Kinds : Nothing[c] = 0
    BY DEF Nothing
  <2>2. \A s \in Sales : taken[s] = Nothing /\ given[s] = Nothing
    BY <1>1
  <2>3. QED  BY <2>1, <2>2, NothingFacts, KindsFacts DEF SalesOK, SaleOK, SoldUnits, ReturnedUnits
<1>9. StockIsItsHistory
  <2>1. ASSUME NEW w \in Warehouses
        PROVE  stock[w] = Stock0[w] + Moved(w) + Carried(w) + Traded(w)
    <3>1. \A f : DOMAIN f = {} => SumFunction(f) = 0
      BY SumEmpty DEF SumFunction
    <3>2. Moved(w) = 0
      <4>1. {r \in log : r.req.at = w} = {}
        BY <1>1
      <4>2. QED  BY <3>1, <4>1 DEF Moved
    <3>3. Carried(w) = 0
      <4>1. {r \in log : r.req.op = "TRANSFER"} = {}
        BY <1>1
      <4>2. QED  BY <3>1, <4>1 DEF Carried
    <3>4. Traded(w) = 0
      <4>1. {x \in Sold : HomeOf[x] = w} = {}
        BY <1>7
      <4>2. QED  BY <3>1, <4>1 DEF Traded
    <3>5. stock[w] = Stock0[w] /\ Stock0[w] \in Nat
      BY <1>1, StockAssumption
    <3>6. QED  BY <3>2, <3>3, <3>4, <3>5
  <2>2. QED  BY <2>1, HistoryParts
<1>10. QED  BY <1>4, <1>5, <1>6, <1>7, <1>8, <1>9, Parts

LEMMA NextKeeps == IInv /\ [Next]_vars => IInv'
<1> SUFFICES ASSUME IInv, [Next]_vars
             PROVE  IInv'
  OBVIOUS
<1>1. TypeOK /\ Asked /\ AnswersAreTrue
  BY DEF IInv
<1>2. ASSUME NEW p \in Procs, (\E q \in Requests : Look(p, q)) \/ Finish(p) \/ Abort(p)
      PROVE  IInv'
  BY <1>1, <1>2, OtherTx, QuietKeeps
<1>3. ASSUME NEW p \in Procs, Run(p)
      PROVE  IInv'
  BY <1>3, RunKeeps
<1>4. ASSUME NEW s \in Sales, Sell(s) \/ Refund(s)
      PROVE  IInv'
  BY <1>4, SellKeeps, RefundKeeps
<1>5. ASSUME NEW required \in BOOLEAN, Track(required)
      PROVE  IInv'
  BY <1>5, TrackKeeps
<1>6. CASE NextDay
  BY <1>6, NextDayKeeps
<1>7. CASE UNCHANGED vars
  <2>1. UNCHANGED tables /\ tx' = tx
    BY <1>7 DEF vars
  <2>2. tx \in [Procs -> TxType] /\ log' = log
    BY <2>1, Parts DEF tables
  <2>3. QED  BY <1>1, <2>1, <2>2, QuietKeeps DEF Asked, AnswersAreTrue
<1>8. QED  BY <1>2, <1>3, <1>4, <1>5, <1>6, <1>7 DEF Next, Others

\* The invariant behind the others: who runs runs a request; a lot that does not
\* exist has no units; what a sale took it took of lots that exist and are not
\* blocked; and what the lots account for is in stock.
THEOREM Invariance == Spec => []IInv
BY InitHolds, NextKeeps, PTL DEF Spec

\* In every warehouse the lots account for no more than there is, and for all
\* of it while lots are required, though what a count decides on may be stale
\* and old sales come back.
THEOREM LotsAgree == Spec => []LotsOK
<1>1. IInv => LotsOK
  <2> SUFFICES ASSUME IInv
               PROVE  LotsOK
    OBVIOUS
  <2>1. TypeOK /\ Agree /\ lots \in LotsType
    BY Parts DEF IInv, Sound
  <2>2. ASSUME NEW w \in Warehouses
        PROVE  Units(w, Codes) <= stock[w] /\ (strict => Untracked(w) = 0)
    BY <2>1, LooseUnits, AgreeFacts
  <2>3. QED  BY <2>1, <2>2 DEF LotsOK, LotsWithinStock, StrictHasNoLoose
<1>2. QED  BY <1>1, Invariance, PTL

\* What was done is on record once, what is on record is what was done, a client
\* told ok is on record, and a return gives each lot back what the sale took.
THEOREM HistoryTrue == Spec => []HistoryIsTrue
<1>1. IInv => HistoryIsTrue
  BY DEF IInv, HistoryIsTrue, ReturnsRestoreLots, SalesOK, SaleOK
<1>2. QED  BY <1>1, Invariance, PTL

-----------------------------------------------------------------------------
(* What is available can be sold.                                          *)

\* The order of allocateLots, of what a warehouse has of each kind.
Ordered(has, expires, candidates, take) ==
    /\ \A c, d \in candidates : expires[d] < expires[c] /\ take[c] > 0 => take[d] = has[d]
    /\ take[Loose] > 0 => \A c \in candidates : take[c] = has[c]
    /\ Cardinality({c \in candidates : take[c] \in 1..(has[c] - 1)}) <= 1

\* As many units as there are can be taken in that order: whole lots, those that
\* expire first before the others, and some of the last.
LEMMA OrderedExists ==
    ASSUME NEW has \in [Kinds -> Nat], NEW candidates, candidates \subseteq Codes,
           \A c \in Codes \ candidates : has[c] = 0,
           NEW expires, \A c \in candidates : expires[c] \in Int,
           NEW n \in Nat, n > 0, n <= SumFunction(has)
    PROVE  \E take \in [Kinds -> 0..n] : /\ \A c \in Kinds : take[c] <= has[c]
                                         /\ SumFunction(take) = n
                                         /\ Ordered(has, expires, candidates, take)
<1>1. /\ \A c \in Kinds : has[c] \in Nat
      /\ SumFunction(has) = has[Loose] + Total(has) /\ Total(has) \in Nat /\ has[Loose] \in Nat
  BY AllKinds
<1>2. IsFiniteSet(candidates) /\ \A c \in Codes : c \in Kinds /\ c # Loose
  BY KindsFacts, FS_Subset
<1>3. Total(has) = SumFunctionOnSet(has, candidates)
  <2>1. \A c \in Codes : has[c] \in Int
    BY <1>1, <1>2
  <2>2. QED  BY <2>1, KindsFacts, SumZeroes DEF Total
<1>4. \A take \in [Kinds -> Nat] :
          SumFunction(take) = n => take \in [Kinds -> 0..n]
  <2>1. ASSUME NEW take \in [Kinds -> Nat], SumFunction(take) = n, NEW c \in Kinds
        PROVE  take[c] \in 0..n
    <3>1. \A d \in Kinds : take[d] \in Nat
      OBVIOUS
    <3>2. take[c] <= SumFunctionOnSet(take, Kinds) /\ SumFunctionOnSet(take, Kinds) = n
      BY <2>1, <3>1, KindsFacts, SumPart DEF SumFunction
    <3>3. QED  BY <3>1, <3>2
  <2>2. QED  BY <2>1
<1>5. CASE Total(has) <= n
  <2> DEFINE take == [c \in Kinds |-> IF c = Loose THEN n - Total(has) ELSE has[c]]
  <2>1. /\ take \in [Kinds -> Nat] /\ take[Loose] = n - Total(has)
        /\ \A c \in Codes : take[c] = has[c]
    BY <1>1, <1>2, <1>5, KindsFacts
  <2> HIDE DEF take
  <2>2. Total(take) = Total(has)
    BY <2>1, KindsFacts, SumSame DEF Total
  <2>3. SumFunction(take) = n
    <3>1. SumFunction(take) = take[Loose] + Total(take)
      BY <2>1, AllKinds
    <3>2. QED  BY <1>1, <2>1, <2>2, <3>1
  <2>4. \A c \in Kinds : take[c] <= has[c]
    BY <1>1, <2>1, KindsFacts
  <2>5. Ordered(has, expires, candidates, take)
    <3>1. \A c \in candidates : take[c] = has[c]
      BY <2>1
    <3>2. {c \in candidates : take[c] \in 1..(has[c] - 1)} = {}
      BY <1>1, <1>2, <3>1
    <3>3. Cardinality({c \in candidates : take[c] \in 1..(has[c] - 1)}) <= 1
      BY <3>2, FS_EmptySet
    <3>4. QED  BY <3>1, <3>3 DEF Ordered
  <2>6. QED  BY <1>4, <2>1, <2>3, <2>4, <2>5
<1>6. CASE n < Total(has)
  <2> DEFINE Full(S) == /\ n <= SumFunctionOnSet(has, S)
                        /\ \A c \in S, d \in candidates : expires[d] < expires[c] => d \in S
             T == {S \in SUBSET candidates : Full(S)}
  <2>1. candidates \in T
    BY <1>1, <1>3, <1>6
  <2>2. PICK U \in T : \A V \in T : V \subseteq U => V = U
    <3>1. T \subseteq SUBSET candidates /\ T # {}
      BY <2>1
    <3> HIDE DEF T
    <3>2. QED  BY <1>2, <3>1, MinimalSubset
  <2>3. U \subseteq candidates /\ Full(U) /\ IsFiniteSet(U) /\ U # {}
    <3>1. U \subseteq candidates /\ Full(U)
      BY <2>2
    <3>2. IsFiniteSet(U)
      BY <1>2, <3>1, FS_Subset
    <3>3. U # {}
      BY <3>1, SumEmpty
    <3>4. QED  BY <3>1, <3>2, <3>3
  <2>4. PICK x \in U : \A y \in U : expires[y] <= expires[x]
    <3>1. \A y \in U : expires[y] \in Int
      BY <2>3
    <3>2. QED  BY <2>3, <3>1, Greatest
  <2> DEFINE rest == SumFunctionOnSet(has, U \ {x})
  <2>5. rest < n /\ rest \in Nat
    <3>1. rest \in Nat
      <4>1. IsFiniteSet(U \ {x}) /\ \A c \in U \ {x} : has[c] \in Nat
        BY <1>1, <1>2, <2>3, FS_RemoveElement
      <4>2. QED  BY <4>1, SumNat
    <3>2. \A c \in U \ {x}, d \in candidates : expires[d] < expires[c] => d \in U \ {x}
      <4>1. TAKE c \in U \ {x}, d \in candidates
      <4>2. HAVE expires[d] < expires[c]
      <4>3. d \in U
        BY <2>3, <4>2
      <4>4. expires[c] <= expires[x] /\ expires[c] \in Int /\ expires[x] \in Int /\ expires[d] \in Int
        BY <2>3, <2>4
      <4>5. QED  BY <4>2, <4>3, <4>4
    <3>3. ASSUME n <= rest
          PROVE  FALSE
      <4>1. U \ {x} \in T
        BY <2>3, <3>2, <3>3
      <4>2. QED  BY <2>2, <2>4, <4>1
    <3>4. QED  BY <3>1, <3>3
  <2>6. n <= has[x] + rest
    <3>1. SumFunctionOnSet(has, U) = has[x] + rest
      BY <1>1, <1>2, <2>3, SumRemove
    <3>2. QED  BY <2>3, <3>1
  <2> DEFINE take == [c \in Kinds |-> IF c = x THEN n - rest
                                      ELSE IF c \in U THEN has[c] ELSE 0]
  <2>7. x \in Codes /\ x \in Kinds /\ x # Loose /\ Loose \notin U /\ has[x] \in Nat
    BY <1>1, <1>2, <2>3
  <2> HIDE DEF rest, Full, T
  <2>8. /\ take \in [Kinds -> Nat] /\ take[x] = n - rest
        /\ \A c \in U \ {x} : take[c] = has[c]
        /\ \A c \in Kinds \ U : take[c] = 0
    BY <1>1, <1>2, <2>3, <2>5, <2>7
  <2> HIDE DEF take
  <2>9. Total(take) = n
    <3>1. \A c \in Codes : take[c] \in Int
      BY <1>2, <2>8
    <3>2. U \subseteq Codes /\ \A c \in Codes \ U : take[c] = 0
      BY <1>2, <2>3, <2>8
    <3>3. SumFunctionOnSet(take, Codes) = SumFunctionOnSet(take, U)
      BY <3>1, <3>2, KindsFacts, SumZeroes
    <3>4. SumFunctionOnSet(take, U) = take[x] + SumFunctionOnSet(take, U \ {x})
      BY <2>3, <3>1, <3>2, SumRemove
    <3>5. SumFunctionOnSet(take, U \ {x}) = rest
      <4>1. IsFiniteSet(U \ {x})
        BY <2>3, FS_RemoveElement
      <4>2. QED  BY <2>8, <4>1, SumSame DEF rest
    <3>6. QED  BY <2>5, <2>8, <3>3, <3>4, <3>5 DEF Total
  <2>10. SumFunction(take) = n
    <3>1. SumFunction(take) = take[Loose] + Total(take) /\ take[Loose] = 0
      BY <2>7, <2>8, AllKinds, KindsFacts
    <3>2. QED  BY <2>9, <3>1
  <2>11. \A c \in Kinds : take[c] <= has[c]
    BY <1>1, <2>5, <2>6, <2>7, <2>8
  <2>12. Ordered(has, expires, candidates, take)
    <3>1. ASSUME NEW c \in candidates, NEW d \in candidates, expires[d] < expires[c], take[c] > 0
          PROVE  take[d] = has[d]
      <4>1. c \in U
        BY <1>2, <2>8, <3>1
      <4>2. d \in U
        BY <2>3, <3>1, <4>1 DEF Full
      <4>3. expires[c] <= expires[x] /\ expires[c] \in Int /\ expires[x] \in Int /\ expires[d] \in Int
        BY <2>3, <2>4, <4>1
      <4>4. d # x
        BY <3>1, <4>3
      <4>5. QED  BY <2>8, <4>2, <4>4
    <3>2. take[Loose] = 0
      BY <2>7, <2>8, KindsFacts
    <3>3. {c \in candidates : take[c] \in 1..(has[c] - 1)} \subseteq {x}
      <4>1. ASSUME NEW c \in candidates, c # x
            PROVE  take[c] \notin 1..(has[c] - 1)
        <5>1. take[c] = has[c] \/ take[c] = 0
          BY <1>2, <2>8, <4>1
        <5>2. QED  BY <1>1, <1>2, <5>1
      <4>2. QED  BY <4>1
    <3>4. Cardinality({c \in candidates : take[c] \in 1..(has[c] - 1)}) <= 1
      <4> DEFINE P == {c \in candidates : take[c] \in 1..(has[c] - 1)}
      <4>1. IsFiniteSet({x}) /\ Cardinality({x}) = 1 /\ P \in SUBSET {x}
        BY <3>3, FS_Singleton
      <4> HIDE DEF P
      <4>2. Cardinality(P) <= 1
        BY <4>1, FS_Subset
      <4>3. QED  BY <4>2 DEF P
    <3>5. QED  BY <3>1, <3>2, <3>4 DEF Ordered
  <2>13. QED  BY <1>4, <2>8, <2>10, <2>11, <2>12
<1>7. QED  BY <1>1, <1>5, <1>6

\* What a sale may take at w, of each kind.
CanSell(w) == {c \in Codes : lots[w][c].known /\ Fit(w, c)}
HasToSell(w) ==
    [c \in Kinds |-> IF c = Loose THEN IF strict THEN 0 ELSE Untracked(w)
                     ELSE IF c \in CanSell(w) THEN lots[w][c].units ELSE 0]

LEMMA SaleAllocations ==
    ASSUME NEW w \in Warehouses, NEW n \in Nat
    PROVE  Allocations(w, n, None, FALSE) =
               {take \in [Kinds -> 0..n] :
                   /\ \A c \in Kinds : take[c] <= HasToSell(w)[c]
                   /\ SumFunction(take) = n
                   /\ Ordered(HasToSell(w), [c \in Codes |-> lots[w][c].expires],
                              CanSell(w), take)}
<1> DEFINE candidates == {c \in Codes : /\ lots[w][c].known
                                        /\ None \in {None, c}
                                        /\ FALSE \/ Fit(w, c)}
           has == [c \in Kinds |-> IF c = Loose THEN LooseUsable(w, None)
                                   ELSE IF c \in candidates THEN lots[w][c].units ELSE 0]
           InOrder(take) ==
               /\ \A c, d \in candidates :
                     lots[w][d].expires < lots[w][c].expires /\ take[c] > 0 => take[d] = has[d]
               /\ take[Loose] > 0 => \A c \in candidates : take[c] = has[c]
               /\ Cardinality({c \in candidates : take[c] \in 1..(has[c] - 1)}) <= 1
           e == [c \in Codes |-> lots[w][c].expires]
<1>1. candidates = CanSell(w)
  BY DEF CanSell
<1>2. has = HasToSell(w)
  BY <1>1 DEF HasToSell, LooseUsable
<1>3. \A c \in candidates : e[c] = lots[w][c].expires
  OBVIOUS
<1>4. \A take : InOrder(take) <=> Ordered(HasToSell(w), e, CanSell(w), take)
  <2> HIDE DEF candidates, has, e
  <2>1. \A take : InOrder(take) <=> Ordered(has, e, candidates, take)
    BY <1>3 DEF Ordered
  <2>2. QED  BY <1>1, <1>2, <2>1
<1>5. Allocations(w, n, None, FALSE) =
          {take \in [Kinds -> 0..n] : /\ \A c \in Kinds : take[c] <= has[c]
                                      /\ SumFunction(take) = n
                                      /\ InOrder(take)}
  BY Zenon DEF Allocations
<1> HIDE DEF candidates, has, e, InOrder
<1>6. QED  BY <1>2, <1>4, <1>5 DEF e

\* usableBalances adds up what allocateLots may take.
LEMMA AvailableUnits ==
    ASSUME TypeOK, Agree, NEW w \in Warehouses
    PROVE  /\ HasToSell(w) \in [Kinds -> Nat]
           /\ Available(w) = SumFunction(HasToSell(w))
<1> DEFINE h == Held(lots, w)
           U == {c \in Codes : lots[w][c].blocked \/ lots[w][c].expires < today}
           has == HasToSell(w)
<1>1. \A c \in Codes : /\ lots[w][c] \in Lot /\ h[c] = lots[w][c].units /\ h[c] \in Nat
                       /\ ~lots[w][c].known => h[c] = 0
  BY DEF TypeOK, Agree, Sound, Lot, Held
<1>2. /\ stock[w] \in Nat /\ Total(h) \in Nat /\ Total(h) <= stock[w]
      /\ strict => Total(h) = stock[w]
      /\ Untracked(w) = stock[w] - Total(h) /\ Untracked(w) \in Nat
  BY AgreeFacts
<1>3. /\ has \in [Kinds -> Nat]
      /\ has[Loose] = IF strict THEN 0 ELSE Untracked(w)
      /\ \A c \in Codes : has[c] = IF c \in CanSell(w) THEN lots[w][c].units ELSE 0
  BY <1>1, <1>2, KindsFacts DEF HasToSell
<1>4. Unavailable(w) = SumFunctionOnSet(h, U)
  <2>1. lots \in LotsType /\ U \subseteq Codes
    BY DEF Agree, Sound
  <2>2. SumFunction([c \in U |-> lots[w][c].units]) = SumFunctionOnSet(h, U)
    BY <2>1, UnitsOfSet
  <2>3. QED  BY <2>2, Zenon DEF Unavailable, Units
<1>5. \A c \in Codes : /\ c \in U => has[c] = 0
                       /\ c \notin U => has[c] = h[c]
  <2>1. TAKE c \in Codes
  <2>2. lots[w][c].expires \in Int /\ today \in Int
    BY <1>1, CalendarAssumption DEF Lot, Days, TypeOK
  <2>3. c \in CanSell(w) <=> lots[w][c].known /\ c \notin U
    BY <2>2 DEF CanSell, Fit
  <2>4. QED  BY <1>1, <1>3, <2>3
<1> HIDE DEF h, has, U
<1>6. Total(h) = SumFunctionOnSet(h, U) + SumFunctionOnSet(h, Codes \ U)
  <2>1. U \subseteq Codes /\ \A c \in Codes : h[c] \in Int
    BY <1>1 DEF U
  <2>2. QED  BY <2>1, KindsFacts, SumSplit DEF Total
<1>7. Total(has) = SumFunctionOnSet(h, Codes \ U)
  <2>1. Codes \ U \subseteq Codes /\ IsFiniteSet(Codes \ U)
    BY KindsFacts, FS_Subset
  <2>2. (\A c \in Codes : has[c] \in Int) /\ \A c \in Codes \ (Codes \ U) : has[c] = 0
    BY <1>3, <1>5, KindsFacts
  <2>3. SumFunctionOnSet(has, Codes) = SumFunctionOnSet(has, Codes \ U)
    BY <2>1, <2>2, KindsFacts, SumZeroes
  <2>4. SumFunctionOnSet(has, Codes \ U) = SumFunctionOnSet(h, Codes \ U)
    BY <1>5, <2>1, SumSame
  <2>5. QED  BY <2>3, <2>4 DEF Total
<1>8. SumFunction(has) = has[Loose] + Total(has) /\ Total(has) \in Nat
  BY <1>3, AllKinds
<1>9. Unavailable(w) = Total(h) - Total(has)
  <2>1. Unavailable(w) + Total(has) = Total(h)
    BY <1>4, <1>6, <1>7
  <2>2. Unavailable(w) \in Int
    <3>1. IsFiniteSet(U) /\ \A c \in U : h[c] \in Int
      BY <1>1, KindsFacts, FS_Subset DEF U
    <3>2. QED  BY <1>4, <3>1, SumInt
  <2>3. QED  BY <1>2, <1>8, <2>1, <2>2
<1>10. Available(w) = has[Loose] + Total(has)
  BY <1>2, <1>3, <1>8, <1>9 DEF Available, Positive
<1>11. QED  BY <1>3, <1>8, <1>10 DEF has

\* The two computations of what can be sold agree: of the screens, which takes
\* from the stock what lots keep from it, and of the sale, which walks the lots.
THEOREM AvailableCanBeSold == Spec => []AvailableIsSellable
<1>1. ASSUME TypeOK, Agree, NEW w \in Warehouses, NEW n \in 1..(stock[w] + 1)
      PROVE  Allocations(w, n, None, FALSE) # {} <=> n <= Available(w)
  <2> DEFINE has == HasToSell(w)
             e == [c \in Codes |-> lots[w][c].expires]
  <2>1. n \in Nat /\ n > 0
    BY <1>1 DEF TypeOK
  <2>2. has \in [Kinds -> Nat] /\ Available(w) = SumFunction(has)
    BY <1>1, AvailableUnits
  <2>3. CanSell(w) \subseteq Codes
    BY DEF CanSell
  <2>4. Allocations(w, n, None, FALSE) =
            {take \in [Kinds -> 0..n] : /\ \A c \in Kinds : take[c] <= has[c]
                                        /\ SumFunction(take) = n
                                        /\ Ordered(has, e, CanSell(w), take)}
    BY <2>1, SaleAllocations
  <2>5. ASSUME n <= Available(w)
        PROVE  Allocations(w, n, None, FALSE) # {}
    <3>1. \A c \in Codes \ CanSell(w) : has[c] = 0
      BY KindsFacts DEF HasToSell
    <3>2. \A c \in CanSell(w) : e[c] \in Int
      BY <1>1, CalendarAssumption DEF TypeOK, Lot, Days, CanSell
    <3> HIDE DEF has, e
    <3>3. \E take \in [Kinds -> 0..n] : /\ \A c \in Kinds : take[c] <= has[c]
                                        /\ SumFunction(take) = n
                                        /\ Ordered(has, e, CanSell(w), take)
      BY <2>1, <2>2, <2>3, <2>5, <3>1, <3>2, OrderedExists
    <3>4. QED  BY <2>4, <3>3
  <2> HIDE DEF has, e
  <2>6. ASSUME NEW take \in Allocations(w, n, None, FALSE)
        PROVE  n <= Available(w)
    <3>1. take \in [Kinds -> 0..n] /\ SumFunction(take) = n /\ \A c \in Kinds : take[c] <= has[c]
      BY <2>4
    <3>2. \A c \in Kinds : take[c] \in Int /\ has[c] \in Int /\ take[c] <= has[c]
      BY <2>2, <3>1
    <3>3. SumFunctionOnSet(take, Kinds) <= SumFunctionOnSet(has, Kinds)
      BY <3>2, KindsFacts, SumGrows
    <3>4. DOMAIN take = Kinds /\ DOMAIN has = Kinds
      BY <2>2, <3>1
    <3>5. QED  BY <2>2, <3>1, <3>3, <3>4 DEF SumFunction
  <2>7. QED  BY <2>5, <2>6
<1>2. IInv => AvailableIsSellable
  BY <1>1, Parts DEF IInv, AvailableIsSellable
<1>3. QED  BY <1>2, Invariance, PTL

-----------------------------------------------------------------------------
(* Nothing becomes fit again.                                              *)

\* What a lot offers to a sale on a day.
FitLot(lot, day) == lot.known /\ ~lot.blocked /\ lot.expires >= day
Offers(lot, day) == IF FitLot(lot, day) THEN lot.units ELSE 0

\* What can be sold at w: what its lots offer, and what is loose.
LEMMA Offered ==
    ASSUME IInv, NEW w \in Warehouses
    PROVE  /\ \A c \in Codes : /\ HasToSell(w)[c] = Offers(lots[w][c], today)
                               /\ HasToSell(w)[c] \in Nat
           /\ HasToSell(w)[Loose] = (IF strict THEN 0 ELSE stock[w] - Total(Held(lots, w)))
           /\ HasToSell(w)[Loose] \in Nat
           /\ Available(w) = HasToSell(w)[Loose] + Total(HasToSell(w))
           /\ Total(HasToSell(w)) \in Int /\ Available(w) \in Int
<1>1. TypeOK /\ Agree
  BY Parts DEF IInv
<1>2. HasToSell(w) \in [Kinds -> Nat] /\ Available(w) = SumFunction(HasToSell(w))
  BY <1>1, AvailableUnits
<1>3. /\ Available(w) = HasToSell(w)[Loose] + Total(HasToSell(w))
      /\ Total(HasToSell(w)) \in Nat /\ HasToSell(w)[Loose] \in Nat
      /\ \A c \in Codes : HasToSell(w)[c] \in Nat
  BY <1>2, AllKinds
<1>4. \A c \in Codes : HasToSell(w)[c] = Offers(lots[w][c], today)
  BY KindsFacts DEF HasToSell, CanSell, Fit, Offers, FitLot
<1>5. HasToSell(w)[Loose] = (IF strict THEN 0 ELSE Untracked(w))
  BY KindsFacts DEF HasToSell
<1>6. Untracked(w) = stock[w] - Total(Held(lots, w))
  BY <1>1, AgreeFacts
<1>7. QED  BY <1>3, <1>4, <1>5, <1>6

LEMMA OfferedAlways ==
    IInv => \A w \in Warehouses :
               /\ \A c \in Codes : /\ HasToSell(w)[c] = Offers(lots[w][c], today)
                                   /\ HasToSell(w)[c] \in Nat
               /\ HasToSell(w)[Loose] = (IF strict THEN 0 ELSE stock[w] - Total(Held(lots, w)))
               /\ HasToSell(w)[Loose] \in Nat
               /\ Available(w) = HasToSell(w)[Loose] + Total(HasToSell(w))
               /\ Total(HasToSell(w)) \in Int /\ Available(w) \in Int
BY Offered

LEMMA OfferedAfter ==
   (IInv => \A w \in Warehouses :
               /\ \A c \in Codes : /\ HasToSell(w)[c] = Offers(lots[w][c], today)
                                   /\ HasToSell(w)[c] \in Nat
               /\ HasToSell(w)[Loose] = (IF strict THEN 0 ELSE stock[w] - Total(Held(lots, w)))
               /\ HasToSell(w)[Loose] \in Nat
               /\ Available(w) = HasToSell(w)[Loose] + Total(HasToSell(w))
               /\ Total(HasToSell(w)) \in Int /\ Available(w) \in Int)'
BY OfferedAlways, PTL

\* What a step adds to what can be sold of each lot, and of what is loose.
LEMMA OffersMore ==
    ASSUME IInv, IInv', NEW w \in Warehouses, NEW more, NEW d \in Int,
           \A c \in Codes : /\ more[c] \in Int
                            /\ Offers(lots'[w][c], today') <= Offers(lots[w][c], today) + more[c],
           (IF strict' THEN 0 ELSE stock'[w] - Total(Held(lots', w)))
               <= (IF strict THEN 0 ELSE stock[w] - Total(Held(lots, w))) + d
    PROVE  Available(w)' <= Available(w) + (d + Total(more)) /\ Total(more) \in Int
<1> DEFINE a == HasToSell(w)
           b == HasToSell(w)'
           k == [c \in Codes |-> a[c] + more[c]]
<1>1. /\ \A c \in Codes : a[c] = Offers(lots[w][c], today) /\ a[c] \in Int
      /\ a[Loose] = (IF strict THEN 0 ELSE stock[w] - Total(Held(lots, w))) /\ a[Loose] \in Int
      /\ Available(w) = a[Loose] + Total(a) /\ Total(a) \in Int
  BY Offered
<1>2. /\ \A c \in Codes : b[c] = Offers(lots'[w][c], today') /\ b[c] \in Int
      /\ b[Loose] = (IF strict' THEN 0 ELSE stock'[w] - Total(Held(lots', w))) /\ b[Loose] \in Int
      /\ Available(w)' = b[Loose] + Total(b) /\ Total(b) \in Int
  BY OfferedAfter
<1> HIDE DEF a, b
<1>3. \A c \in Codes : more[c] \in Int /\ k[c] \in Int /\ k[c] = a[c] + more[c] /\ b[c] <= k[c]
  BY <1>1, <1>2
<1> HIDE DEF k
<1>4. Total(b) <= Total(k)
  BY <1>2, <1>3, KindsFacts, SumGrows DEF Total
<1>5. Total(k) = Total(a) + Total(more)
  BY <1>1, <1>3, KindsFacts, SumPlus DEF Total
<1>6. Total(more) \in Int
  BY <1>3, KindsFacts, SumInt DEF Total
<1>7. b[Loose] <= a[Loose] + d
  BY <1>1, <1>2
<1>8. QED  BY <1>1, <1>2, <1>4, <1>5, <1>6, <1>7

\* Where no lot offers more, and no more is loose, no more is available.
LEMMA NoMore ==
    ASSUME IInv, IInv', NEW w \in Warehouses,
           \A c \in Codes : Offers(lots'[w][c], today') <= Offers(lots[w][c], today),
           (IF strict' THEN 0 ELSE stock'[w] - Total(Held(lots', w)))
               <= (IF strict THEN 0 ELSE stock[w] - Total(Held(lots, w)))
    PROVE  Available(w)' <= Available(w)
<1>1. \A c \in Codes : Nothing[c] = 0
  BY KindsFacts DEF Nothing
<1>2. /\ \A c \in Codes : Offers(lots[w][c], today) \in Int
      /\ (IF strict THEN 0 ELSE stock[w] - Total(Held(lots, w))) \in Int
      /\ Available(w) \in Int
  BY Offered
<1>3. \A c \in Codes : /\ Nothing[c] \in Int
                       /\ Offers(lots'[w][c], today') <= Offers(lots[w][c], today) + Nothing[c]
  BY <1>1, <1>2
<1>4. (IF strict' THEN 0 ELSE stock'[w] - Total(Held(lots', w)))
          <= (IF strict THEN 0 ELSE stock[w] - Total(Held(lots, w))) + 0
  BY <1>2
<1>5. Available(w)' <= Available(w) + (0 + Total(Nothing))
  BY <1>3, <1>4, OffersMore
<1>6. QED  BY <1>2, <1>5, NothingFacts

\* The same of a warehouse that is left alone.
LEMMA LeftAlone ==
    ASSUME IInv, IInv', NEW w \in Warehouses, lots'[w] = lots[w], stock'[w] = stock[w],
           UNCHANGED <<strict, today>>
    PROVE  Available(w)' <= Available(w)
<1>1. \A c \in Codes : Offers(lots'[w][c], today') <= Offers(lots[w][c], today)
  BY Offered
<1>2. Held(lots', w) = Held(lots, w)
  BY DEF Held
<1>3. (IF strict THEN 0 ELSE stock[w] - Total(Held(lots, w))) \in Int
  BY Offered
<1>4. QED  BY <1>1, <1>2, <1>3, NoMore

LEMMA LotNumbers ==
    ASSUME IInv
    PROVE  /\ today \in Int
           /\ \A w \in Warehouses, c \in Codes : /\ lots[w][c].units \in Nat
                                                 /\ lots[w][c].expires \in Int
                                                 /\ lots[w][c].blocked \in BOOLEAN
                                                 /\ ~lots[w][c].known => lots[w][c].units = 0
<1>1. Sound(lots) /\ lots \in LotsType /\ today \in Days
  BY DEF IInv, Sound, TypeOK
<1>2. \A w \in Warehouses, c \in Codes : lots[w][c] \in Lot
  BY <1>1 DEF LotsType
<1>3. QED  BY <1>1, <1>2, CalendarAssumption DEF Lot, Days, Sound

\* Goods that leave offer no more.
LEMMA OutOffers ==
    ASSUME IInv, IInv', UNCHANGED <<strict, today>>,
           NEW w \in Warehouses, NEW n, NEW take, Takes(w, n, take),
           stock' = [stock EXCEPT ![w] = @ - n], lots' = Without(w, take)
    PROVE  \A u \in Warehouses : Available(u)' <= Available(u)
<1>1. TypeOK /\ Agree /\ Sound(lots) /\ stock \in [Warehouses -> Nat]
  BY Parts DEF IInv, Agree
<1>2. /\ take \in [Kinds -> Nat] /\ n \in Nat /\ \A c \in Codes : take[c] <= lots[w][c].units
      /\ \A c \in Codes : take[c] \in Nat
      /\ take[Loose] \in Nat /\ Total(take) \in Nat /\ n = take[Loose] + Total(take)
  BY AllKinds DEF Takes
<1>3. lots' = Less(lots, w, take)
  BY <1>1, WithoutIsLess
<1>4. /\ \A c \in Codes : /\ lots'[w][c].known = lots[w][c].known
                          /\ lots'[w][c].expires = lots[w][c].expires
                          /\ lots'[w][c].blocked = lots[w][c].blocked
                          /\ lots'[w][c].units = lots[w][c].units - take[c]
      /\ \A u \in Warehouses \ {w} : lots'[u] = lots[u]
      /\ Total(Held(lots', w)) = Total(Held(lots, w)) - Total(take)
  BY <1>1, <1>2, <1>3, LessLots
<1>5. stock'[w] = stock[w] - n /\ \A u \in Warehouses \ {w} : stock'[u] = stock[u]
  BY <1>1, <1>2
<1>6. \A c \in Codes : Offers(lots'[w][c], today') <= Offers(lots[w][c], today)
  BY <1>2, <1>4, LotNumbers DEF Offers, FitLot
<1>7. (IF strict' THEN 0 ELSE stock'[w] - Total(Held(lots', w)))
          <= (IF strict THEN 0 ELSE stock[w] - Total(Held(lots, w)))
  BY <1>1, <1>2, <1>4, <1>5, AgreeFacts
<1>8. Available(w)' <= Available(w)
  BY <1>6, <1>7, NoMore
<1>9. \A u \in Warehouses \ {w} : Available(u)' <= Available(u)
  BY <1>4, <1>5, LeftAlone
<1>10. QED  BY <1>8, <1>9

\* No lot offers more than what was added to it.
LEMMA InputOffers ==
    ASSUME IInv, NEW w \in Warehouses, NEW inputs, Inputs(inputs)
    PROVE  \A c \in Codes : /\ Added(inputs)[c] \in Int
                            /\ Offers(With(lots, w, inputs)[w][c], today)
                                   <= Offers(lots[w][c], today) + Added(inputs)[c]
<1> DEFINE after == With(lots, w, inputs)
<1>1. Sound(lots)
  BY DEF IInv
<1>2. \A c \in Codes :
         /\ after[w][c].units = lots[w][c].units + Added(inputs)[c]
         /\ lots[w][c].known =>
               /\ after[w][c].known
               /\ after[w][c].expires = lots[w][c].expires
               /\ after[w][c].blocked = lots[w][c].blocked
  BY <1>1, MoreLots DEF Keeps
<1>3. \A c \in Codes : Added(inputs)[c] \in Nat
  BY AddedUnits
<1> HIDE DEF after
<1>4. ASSUME NEW c \in Codes
      PROVE  Offers(after[w][c], today) <= Offers(lots[w][c], today) + Added(inputs)[c]
  <2>1. /\ lots[w][c].units \in Nat /\ Added(inputs)[c] \in Nat
        /\ ~lots[w][c].known => lots[w][c].units = 0
        /\ after[w][c].units = lots[w][c].units + Added(inputs)[c]
    BY <1>2, <1>3, LotNumbers
  <2>2. CASE lots[w][c].known
    <3>1. FitLot(after[w][c], today) <=> FitLot(lots[w][c], today)
      BY <1>2, <2>2 DEF FitLot
    <3>2. QED  BY <2>1, <3>1 DEF Offers
  <2>3. CASE ~lots[w][c].known
    BY <2>1, <2>3 DEF Offers, FitLot
  <2>4. QED  BY <2>2, <2>3
<1>5. QED  BY <1>3, <1>4 DEF after

\* Goods that come in offer no more than themselves.
LEMMA InOffers ==
    ASSUME IInv, IInv', UNCHANGED <<strict, today>>, NEW w \in Warehouses, NEW n \in Nat,
           NEW inputs, Inputs(inputs), Covered(inputs, n),
           stock' = [stock EXCEPT ![w] = @ + n], lots' = With(lots, w, inputs)
    PROVE  /\ Available(w)' <= Available(w) + n
           /\ \A u \in Warehouses \ {w} : Available(u)' <= Available(u)
<1>1. TypeOK /\ Agree /\ Sound(lots) /\ stock \in [Warehouses -> Nat]
  BY Parts DEF IInv, Agree
<1>2. /\ \A u \in Warehouses \ {w} : lots'[u] = lots[u]
      /\ Total(Held(lots', w)) = Total(Held(lots, w)) + Total(Added(inputs))
  BY <1>1, MoreLots
<1>3. /\ Total(Added(inputs)) \in Nat /\ Total(Added(inputs)) <= n
      /\ strict => Total(Added(inputs)) = n
  BY AddedUnits DEF Covered
<1>4. stock'[w] = stock[w] + n /\ \A u \in Warehouses \ {w} : stock'[u] = stock[u]
  BY <1>1
<1> DEFINE d == n - Total(Added(inputs))
<1>5. d \in Int /\ Available(w) \in Int /\ d + Total(Added(inputs)) = n
  BY <1>3, Offered
<1>6. \A c \in Codes : /\ Added(inputs)[c] \in Int
                       /\ Offers(lots'[w][c], today') <= Offers(lots[w][c], today) + Added(inputs)[c]
  BY InputOffers
<1>7. (IF strict' THEN 0 ELSE stock'[w] - Total(Held(lots', w)))
          <= (IF strict THEN 0 ELSE stock[w] - Total(Held(lots, w))) + d
  BY <1>1, <1>2, <1>3, <1>4, AgreeFacts
<1> HIDE DEF d
<1>8. Available(w)' <= Available(w) + (d + Total(Added(inputs)))
  BY <1>5, <1>6, <1>7, OffersMore
<1>9. QED  BY <1>2, <1>4, <1>5, <1>8, LeftAlone

\* Nor do goods that get a lot.
LEMMA LabelOffers ==
    ASSUME IInv, IInv', UNCHANGED <<stock, strict, today>>, NEW w \in Warehouses,
           NEW inputs, Inputs(inputs), 0 < Total(Added(inputs)),
           Total(Added(inputs)) <= Untracked(w), lots' = With(lots, w, inputs)
    PROVE  \A u \in Warehouses : Available(u)' <= Available(u)
<1>1. TypeOK /\ Agree /\ Sound(lots) /\ stock \in [Warehouses -> Nat]
  BY Parts DEF IInv, Agree
<1>2. /\ \A u \in Warehouses \ {w} : lots'[u] = lots[u]
      /\ Total(Held(lots', w)) = Total(Held(lots, w)) + Total(Added(inputs))
  BY <1>1, MoreLots
<1> DEFINE t == Total(Added(inputs))
<1>3. t \in Nat /\ ~strict
  <2>1. t \in Nat
    BY AddedUnits
  <2>2. strict => Untracked(w) = 0
    BY <1>1, AgreeFacts
  <2>3. 0 < t /\ t <= Untracked(w)
    OBVIOUS
  <2> HIDE DEF t
  <2>4. QED  BY <2>1, <2>2, <2>3
<1>4. -t \in Int /\ Available(w) \in Int /\ -t + t = 0
  BY <1>3, Offered
<1>5. \A c \in Codes : /\ Added(inputs)[c] \in Int
                       /\ Offers(lots'[w][c], today') <= Offers(lots[w][c], today) + Added(inputs)[c]
  BY InputOffers
<1>6. (IF strict' THEN 0 ELSE stock'[w] - Total(Held(lots', w)))
          <= (IF strict THEN 0 ELSE stock[w] - Total(Held(lots, w))) + (-t)
  BY <1>1, <1>2, <1>3, AgreeFacts
<1>7. Available(w)' <= Available(w) + (-t + Total(Added(inputs)))
  <2> DEFINE d == -t
  <2>1. d \in Int
    BY <1>4
  <2>2. (IF strict' THEN 0 ELSE stock'[w] - Total(Held(lots', w)))
            <= (IF strict THEN 0 ELSE stock[w] - Total(Held(lots, w))) + d
    BY <1>6
  <2> HIDE DEF d
  <2>3. Available(w)' <= Available(w) + (d + Total(Added(inputs)))
    BY <1>5, <2>1, <2>2, OffersMore
  <2>4. QED  BY <2>3 DEF d
<1>8. \A u \in Warehouses \ {w} : Available(u)' <= Available(u)
  BY <1>2, LeftAlone
<1>9. QED  BY <1>4, <1>7, <1>8

\* Goods that move are as fit as they were.
LEMMA MoveOffers ==
    ASSUME IInv, IInv', UNCHANGED <<strict, today>>,
           NEW v \in Warehouses, NEW w \in Warehouses, v # w,
           NEW n, NEW take, Takes(v, n, take), NEW inputs, inputs = TransferInputs(v, take),
           Accepts(w, inputs, n), stock' = [stock EXCEPT ![v] = @ - n, ![w] = @ + n],
           lots' = With(Without(v, take), w, inputs)
    PROVE  /\ \E k \in Int : /\ Available(v)' <= Available(v) - k
                             /\ Available(w)' <= Available(w) + k
           /\ \A u \in Warehouses \ {v, w} : Available(u)' <= Available(u)
<1> DEFINE middle == Less(lots, v, take)
           moved == [c \in Codes |-> IF FitLot(lots[v][c], today) THEN take[c] ELSE 0]
           back == [c \in Codes |-> -moved[c]]
<1>1. TypeOK /\ Agree /\ Sound(lots) /\ stock \in [Warehouses -> Nat]
  BY Parts DEF IInv, Agree
<1>2. /\ take \in [Kinds -> Nat] /\ n \in Nat /\ \A c \in Codes : take[c] <= lots[v][c].units
      /\ \A c \in Codes : take[c] \in Nat
      /\ take[Loose] \in Nat /\ Total(take) \in Nat /\ n = take[Loose] + Total(take)
      /\ strict => take[Loose] = 0
  BY AllKinds DEF Takes
<1>3. /\ Sound(middle)
      /\ \A c \in Codes : /\ middle[v][c].known = lots[v][c].known
                          /\ middle[v][c].expires = lots[v][c].expires
                          /\ middle[v][c].blocked = lots[v][c].blocked
                          /\ middle[v][c].units = lots[v][c].units - take[c]
      /\ \A u \in Warehouses \ {v} : middle[u] = lots[u]
      /\ Total(Held(middle, v)) = Total(Held(lots, v)) - Total(take)
  BY <1>1, <1>2, LessLots
<1>4. /\ Inputs(inputs)
      /\ \A c \in Codes : Added(inputs)[c] = take[c]
      /\ Total(Added(inputs)) = Total(take)
      /\ \A i \in inputs :
            /\ take[i.code] > 0 /\ i.code \in Codes
            /\ i.expires = lots[v][i.code].expires /\ i.blocked = lots[v][i.code].blocked
  BY <1>1, <1>2, LotInputs
<1>5. \A c \in Codes : take[c] > 0 => \E i \in inputs : i.code = c
  <2>1. ASSUME NEW c \in Codes, take[c] > 0
        PROVE  \E i \in inputs : i.code = c
    <3> DEFINE i == Input(c, lots[v][c].expires, lots[v][c].blocked, take[c])
    <3>1. i \in inputs
      BY <2>1 DEF TransferInputs
    <3>2. i.code = c
      BY DEF Input
    <3>3. QED  BY <3>1, <3>2
  <2>2. QED  BY <2>1
<1>6. \A i \in inputs : Compatible(w, i)
  BY DEF Accepts
<1>7. lots' = With(middle, w, inputs)
  BY WithoutIsLess
<1> HIDE DEF middle
<1>8. /\ \A c \in Codes :
            /\ lots'[w][c].units = middle[w][c].units + Added(inputs)[c]
            /\ middle[w][c].known => lots'[w][c].known
            /\ middle[w][c].known \/ (~\E i \in inputs : i.code = c) =>
                  /\ lots'[w][c].expires = middle[w][c].expires
                  /\ lots'[w][c].blocked = middle[w][c].blocked
      /\ \A i \in inputs : ~middle[w][i.code].known =>
            /\ lots'[w][i.code].expires = i.expires
            /\ i.blocked \in BOOLEAN => lots'[w][i.code].blocked = i.blocked
      /\ \A u \in Warehouses \ {w} : lots'[u] = middle[u]
      /\ Total(Held(lots', w)) = Total(Held(middle, w)) + Total(Added(inputs))
      /\ Sound(lots')
  <2>1. Sound(middle) /\ Inputs(inputs)
    BY <1>3, <1>4
  <2>2. Keeps(middle, lots') => \A c \in Codes : middle[w][c].known => lots'[w][c].known
    BY DEF Keeps
  <2>3. Sound(lots') /\ Keeps(middle, lots')
    BY <1>7, <2>1, MoreLots
  <2>4. \A c \in Codes : lots'[w][c].units = middle[w][c].units + Added(inputs)[c]
    BY <1>7, <2>1, MoreLots
  <2>5. \A c \in Codes : middle[w][c].known \/ (~\E i \in inputs : i.code = c) =>
                    /\ lots'[w][c].expires = middle[w][c].expires
                    /\ lots'[w][c].blocked = middle[w][c].blocked
    BY <1>7, <2>1, MoreLots
  <2>6. \A i \in inputs : ~middle[w][i.code].known =>
              /\ lots'[w][i.code].expires = i.expires
              /\ i.blocked \in BOOLEAN => lots'[w][i.code].blocked = i.blocked
    BY <1>7, <2>1, MoreLots
  <2>7. /\ \A u \in Warehouses \ {w} : lots'[u] = middle[u]
        /\ Total(Held(lots', w)) = Total(Held(middle, w)) + Total(Added(inputs))
    BY <1>7, <2>1, MoreLots
  <2>8. QED  BY <2>2, <2>3, <2>4, <2>5, <2>6, <2>7
<1>9. middle[w] = lots[w]
  BY <1>3
<1>10. \A c \in Codes : moved[c] \in Int /\ back[c] \in Int /\ Nothing[c] = moved[c] + back[c]
  <2>1. \A c \in Codes : moved[c] \in Int /\ Nothing[c] = 0 /\ back[c] = -moved[c]
    BY <1>2, KindsFacts DEF Nothing
  <2> HIDE DEF moved, back
  <2>2. QED  BY <2>1
<1>11. \A c \in Codes : /\ FitLot(lots[v][c], today) => moved[c] = take[c]
                        /\ ~FitLot(lots[v][c], today) => moved[c] = 0
                        /\ back[c] = -moved[c]
  OBVIOUS
<1> HIDE DEF moved, back
<1>12. ASSUME NEW c \in Codes
       PROVE  Offers(lots'[v][c], today') <= Offers(lots[v][c], today) + back[c]
  <2>1. FitLot(lots'[v][c], today) <=> FitLot(lots[v][c], today)
    BY <1>3, <1>8 DEF FitLot
  <2>2. lots'[v][c].units = lots[v][c].units - take[c]
    BY <1>3, <1>8
  <2>3. lots[v][c].units \in Nat /\ take[c] \in Nat
    BY <1>2, LotNumbers
  <2>4. QED  BY <1>11, <2>1, <2>2, <2>3 DEF Offers
<1>13. ASSUME NEW c \in Codes
       PROVE  Offers(lots'[w][c], today') <= Offers(lots[w][c], today) + moved[c]
  <2>1. /\ lots[w][c].units \in Nat /\ take[c] \in Nat /\ moved[c] \in {0, take[c]}
        /\ lots'[w][c].units = lots[w][c].units + take[c]
        /\ ~lots[w][c].known => lots[w][c].units = 0
    BY <1>2, <1>4, <1>8, <1>9, <1>11, LotNumbers
  <2>2. CASE take[c] = 0
    <3>1. ~\E i \in inputs : i.code = c
      BY <1>4, <2>2
    <3>2. CASE lots[w][c].known
      <4>1. FitLot(lots'[w][c], today) <=> FitLot(lots[w][c], today)
        BY <1>8, <1>9, <3>2 DEF FitLot
      <4>2. QED  BY <2>1, <2>2, <4>1 DEF Offers
    <3>3. CASE ~lots[w][c].known
      BY <2>1, <2>2, <3>3 DEF Offers, FitLot
    <3>4. QED  BY <3>2, <3>3
  <2>3. CASE take[c] > 0
    <3>1. PICK i \in inputs : i.code = c
      BY <1>5, <2>3
    <3>2. i.expires = lots[v][c].expires /\ i.blocked = lots[v][c].blocked /\ i.blocked \in BOOLEAN
      BY <1>4, <3>1, LotNumbers
    <3>3. lots[v][c].known
      BY <1>2, <2>3, LotNumbers
    <3>4. CASE lots[w][c].known
      <4>1. lots[w][c].expires = i.expires /\ i.blocked \in {None, lots[w][c].blocked}
        BY <1>6, <3>1, <3>4 DEF Compatible
      <4>2. lots[w][c].blocked = lots[v][c].blocked /\ lots[w][c].expires = lots[v][c].expires
        BY <3>2, <4>1, NoneAssumption
      <4>3. FitLot(lots[w][c], today) <=> FitLot(lots[v][c], today)
        BY <3>3, <3>4, <4>2 DEF FitLot
      <4>4. FitLot(lots'[w][c], today) <=> FitLot(lots[w][c], today)
        BY <1>8, <1>9, <3>4 DEF FitLot
      <4>5. QED  BY <1>11, <2>1, <4>3, <4>4 DEF Offers
    <3>5. CASE ~lots[w][c].known
      <4>1. lots'[w][c].expires = lots[v][c].expires /\ lots'[w][c].blocked = lots[v][c].blocked
        BY <1>8, <1>9, <3>1, <3>2, <3>5
      <4>2. FitLot(lots'[w][c], today) => FitLot(lots[v][c], today)
        BY <3>3, <4>1 DEF FitLot
      <4>3. ~FitLot(lots[w][c], today)
        BY <3>5 DEF FitLot
      <4>4. QED  BY <1>11, <2>1, <3>5, <4>2, <4>3 DEF Offers
    <3>6. QED  BY <3>4, <3>5
  <2>4. QED  BY <2>1, <2>2, <2>3
<1>14. /\ stock'[v] = stock[v] - n /\ stock'[w] = stock[w] + n
       /\ \A u \in Warehouses \ {v, w} : stock'[u] = stock[u]
  BY <1>1, <1>2
<1>15. Total(Held(lots', v)) = Total(Held(lots, v)) - Total(take)
  <2>1. Held(lots', v) = Held(middle, v)
    BY <1>8 DEF Held
  <2>2. QED  BY <1>3, <2>1
<1>16. Total(Held(lots', w)) = Total(Held(lots, w)) + Total(take)
  <2>1. Held(middle, w) = Held(lots, w)
    BY <1>9 DEF Held
  <2>2. QED  BY <1>4, <1>8, <2>1
<1> DEFINE l == take[Loose]
           m == -l
<1>17. l \in Int /\ m \in Int /\ l + m = 0
  BY <1>2
<1>18. (IF strict' THEN 0 ELSE stock'[v] - Total(Held(lots', v)))
           <= (IF strict THEN 0 ELSE stock[v] - Total(Held(lots, v))) + m
  BY <1>1, <1>2, <1>14, <1>15, AgreeFacts
<1>19. (IF strict' THEN 0 ELSE stock'[w] - Total(Held(lots', w)))
           <= (IF strict THEN 0 ELSE stock[w] - Total(Held(lots, w))) + l
  BY <1>1, <1>2, <1>14, <1>16, AgreeFacts
<1> HIDE DEF l, m
<1>20. Available(v)' <= Available(v) + (m + Total(back)) /\ Total(back) \in Int
  BY <1>10, <1>12, <1>17, <1>18, OffersMore
<1>21. Available(w)' <= Available(w) + (l + Total(moved)) /\ Total(moved) \in Int
  BY <1>10, <1>13, <1>17, <1>19, OffersMore
<1>22. Total(moved) + Total(back) = 0
  <2>1. Total(Nothing) = Total(moved) + Total(back)
    BY <1>10, KindsFacts, SumPlus DEF Total
  <2>2. QED  BY <2>1, NothingFacts
<1>23. \E k \in Int : Available(v)' <= Available(v) - k /\ Available(w)' <= Available(w) + k
  <2> DEFINE k == l + Total(moved)
  <2>1. k \in Int /\ Available(v) \in Int /\ m + Total(back) = -k
    BY <1>17, <1>20, <1>21, <1>22, Offered
  <2>2. Available(v)' <= Available(v) - k
    <3> HIDE DEF k
    <3>1. QED  BY <1>20, <2>1
  <2>3. QED  BY <1>21, <2>1, <2>2
<1>24. \A u \in Warehouses \ {v, w} : Available(u)' <= Available(u)
  BY <1>3, <1>8, <1>14, LeftAlone
<1>25. QED  BY <1>23, <1>24

\* Over all warehouses.
LEMMA AllAvailable ==
    ASSUME IInv, IInv'
    PROVE  /\ Available_all = SumFunctionOnSet([w \in Warehouses |-> Available(w)], Warehouses)
           /\ Available_all' = SumFunctionOnSet([w \in Warehouses |-> Available(w)'], Warehouses)
           /\ \A w \in Warehouses : Available(w) \in Int /\ Available(w)' \in Int
           /\ IsFiniteSet(Warehouses) /\ Available_all \in Int /\ Available_all' \in Int
<1> DEFINE a == [w \in Warehouses |-> Available(w)]
           b == [w \in Warehouses |-> Available(w)']
<1>1. Available_all = SumFunctionOnSet(a, Warehouses)
  BY Zenon DEF Available_all, SumFunction
<1>2. Available_all' = SumFunctionOnSet(b, Warehouses)
  BY Zenon DEF Available_all, SumFunction
<1>3. \A w \in Warehouses : Available(w) \in Int /\ Available(w)' \in Int
  BY Offered, OfferedAfter
<1>4. \A w \in Warehouses : a[w] \in Int /\ b[w] \in Int
  BY <1>3
<1> HIDE DEF a, b
<1>5. Available_all \in Int /\ Available_all' \in Int
  BY <1>1, <1>2, <1>4, StockAssumption, SumInt
<1>6. QED  BY <1>1, <1>2, <1>3, <1>5, StockAssumption DEF a, b

LEMMA NowhereMore ==
    ASSUME IInv, IInv', \A u \in Warehouses : Available(u)' <= Available(u)
    PROVE  Available_all' <= Available_all
<1> DEFINE a == [u \in Warehouses |-> Available(u)]
           b == [u \in Warehouses |-> Available(u)']
<1>1. \A u \in Warehouses : b[u] \in Int /\ a[u] \in Int /\ b[u] <= a[u]
  BY AllAvailable
<1>2. Available_all = SumFunctionOnSet(a, Warehouses) /\ Available_all' = SumFunctionOnSet(b, Warehouses)
  BY AllAvailable
<1> HIDE DEF a, b
<1>3. QED  BY <1>1, <1>2, StockAssumption, SumGrows

LEMMA MoreAtOne ==
    ASSUME IInv, IInv', NEW w \in Warehouses, NEW k \in Int,
           Available(w)' <= Available(w) + k,
           \A u \in Warehouses \ {w} : Available(u)' <= Available(u)
    PROVE  Available_all' <= Available_all + k
<1> DEFINE a == [u \in Warehouses |-> Available(u)]
           b == [u \in Warehouses |-> Available(u)']
           g == [u \in Warehouses |-> IF u = w THEN Available(u) + k ELSE Available(u)]
<1>1. \A u \in Warehouses : b[u] \in Int /\ a[u] \in Int /\ g[u] \in Int /\ b[u] <= g[u]
  BY AllAvailable
<1>2. Available_all = SumFunctionOnSet(a, Warehouses) /\ Available_all' = SumFunctionOnSet(b, Warehouses)
  BY AllAvailable
<1>3. (\A u \in Warehouses \ {w} : a[u] = g[u]) /\ g[w] = a[w] + k
  OBVIOUS
<1> HIDE DEF a, b, g
<1>4. SumFunctionOnSet(b, Warehouses) <= SumFunctionOnSet(g, Warehouses)
  BY <1>1, StockAssumption, SumGrows
<1>5. SumFunctionOnSet(g, Warehouses) = SumFunctionOnSet(a, Warehouses) + (g[w] - a[w])
  BY <1>1, <1>3, StockAssumption, SumChange
<1>6. a[w] \in Int /\ SumFunctionOnSet(a, Warehouses) \in Int
  BY <1>1, StockAssumption, SumInt
<1>7. QED  BY <1>2, <1>3, <1>4, <1>5, <1>6

LEMMA MoreAndLess ==
    ASSUME IInv, IInv', NEW v \in Warehouses, NEW w \in Warehouses, v # w, NEW k \in Int,
           Available(v)' <= Available(v) - k, Available(w)' <= Available(w) + k,
           \A u \in Warehouses \ {v, w} : Available(u)' <= Available(u)
    PROVE  Available_all' <= Available_all
<1> DEFINE a == [u \in Warehouses |-> Available(u)]
           b == [u \in Warehouses |-> Available(u)']
           f == [u \in Warehouses |-> IF u = v THEN Available(u) - k ELSE Available(u)]
           g == [u \in Warehouses |-> IF u = v THEN Available(u) - k
                                      ELSE IF u = w THEN Available(u) + k ELSE Available(u)]
<1>1. \A u \in Warehouses :
          b[u] \in Int /\ a[u] \in Int /\ f[u] \in Int /\ g[u] \in Int /\ b[u] <= g[u]
  BY AllAvailable
<1>2. Available_all = SumFunctionOnSet(a, Warehouses) /\ Available_all' = SumFunctionOnSet(b, Warehouses)
  BY AllAvailable
<1>3. /\ \A u \in Warehouses \ {v} : a[u] = f[u]
      /\ \A u \in Warehouses \ {w} : f[u] = g[u]
      /\ f[v] = a[v] - k /\ g[w] = f[w] + k
  OBVIOUS
<1> HIDE DEF a, b, f, g
<1>4. SumFunctionOnSet(b, Warehouses) <= SumFunctionOnSet(g, Warehouses)
  BY <1>1, StockAssumption, SumGrows
<1>5. SumFunctionOnSet(f, Warehouses) = SumFunctionOnSet(a, Warehouses) + (f[v] - a[v])
  BY <1>1, <1>3, StockAssumption, SumChange
<1>6. SumFunctionOnSet(g, Warehouses) = SumFunctionOnSet(f, Warehouses) + (g[w] - f[w])
  BY <1>1, <1>3, StockAssumption, SumChange
<1>7. a[v] \in Int /\ f[w] \in Int /\ SumFunctionOnSet(a, Warehouses) \in Int
  BY <1>1, StockAssumption, SumInt
<1>8. QED  BY <1>2, <1>3, <1>4, <1>5, <1>6, <1>7

\* What a return brings back to a lot that is fit is what the sale took from it;
\* no other lot, nor one it makes, offers more.
LEMMA ReturnOffers ==
    ASSUME IInv, NEW w \in Warehouses, NEW back \in [Kinds -> Nat], NEW n,
           \A c \in Codes : back[c] > 0 => lots[w][c].known /\ ~lots[w][c].blocked,
           Accepts(w, ReturnInputs(w, back), n)
    PROVE  \A c \in Codes :
              Offers(With(lots, w, ReturnInputs(w, back))[w][c], today)
                  <= Offers(lots[w][c], today)
                     + IF FitLot(lots[w][c], today) THEN back[c] ELSE 0
<1> DEFINE inputs == ReturnInputs(w, back)
           after == With(lots, w, inputs)
<1>1. TypeOK /\ Agree /\ Sound(lots)
  BY Parts DEF IInv
<1>2. Inputs(inputs) /\ \A i \in inputs : i.blocked = TRUE \/ (back[i.code] > 0 /\ i.units = back[i.code])
  BY <1>1, ReturnsInputs
<1>3. \A i \in inputs : Compatible(w, i)
  BY DEF Accepts
<1> HIDE DEF inputs
<1>4. Keeps(lots, after)
  BY <1>1, <1>2, MoreLots
<1>5. \A c \in Codes :
         /\ after[w][c].units = lots[w][c].units + Added(inputs)[c]
         /\ lots[w][c].known =>
               /\ after[w][c].expires = lots[w][c].expires
               /\ after[w][c].blocked = lots[w][c].blocked
  BY <1>1, <1>2, MoreLots
<1>6. \A i \in inputs : ~lots[w][i.code].known /\ i.blocked = TRUE => after[w][i.code].blocked = TRUE
  <2>1. \A i \in inputs : ~lots[w][i.code].known =>
            (i.blocked \in BOOLEAN => after[w][i.code].blocked = i.blocked)
    BY <1>1, <1>2, MoreLots
  <2>2. QED  BY <2>1
<1> HIDE DEF after
<1>7. ASSUME NEW c \in Codes
      PROVE  Offers(after[w][c], today)
                 <= Offers(lots[w][c], today) + IF FitLot(lots[w][c], today) THEN back[c] ELSE 0
  <2>1. /\ lots[w][c].units \in Nat /\ back[c] \in Nat /\ lots[w][c].blocked \in BOOLEAN
        /\ ~lots[w][c].known => lots[w][c].units = 0
        /\ after[w][c].units = lots[w][c].units + Added(inputs)[c]
        /\ Added(inputs)[c] \in Nat
    BY <1>2, <1>5, LotNumbers, AddedUnits, AllKinds
  <2>2. CASE ~\E i \in inputs : i.code = c
    <3>1. Added(inputs)[c] = 0
      BY <2>2 DEF Added
    <3>2. CASE lots[w][c].known
      <4>1. FitLot(after[w][c], today) => FitLot(lots[w][c], today)
        BY <1>5, <3>2 DEF FitLot
      <4>2. QED  BY <2>1, <3>1, <4>1 DEF Offers
    <3>3. CASE ~lots[w][c].known
      BY <2>1, <3>1, <3>3 DEF Offers, FitLot
    <3>4. QED  BY <3>2, <3>3
  <2>3. ASSUME NEW i \in inputs, i.code = c
        PROVE  Offers(after[w][c], today)
                   <= Offers(lots[w][c], today) + IF FitLot(lots[w][c], today) THEN back[c] ELSE 0
    <3>1. Added(inputs)[c] = i.units
      BY <1>2, <2>3, AddedUnits
    <3>2. CASE lots[w][c].known
      <4>1. FitLot(after[w][c], today) <=> FitLot(lots[w][c], today)
        BY <1>4, <1>5, <3>2 DEF FitLot, Keeps
      <4>2. FitLot(lots[w][c], today) => i.units = back[c]
        <5>1. i.blocked \in {None, lots[w][c].blocked}
          BY <1>3, <2>3, <3>2 DEF Compatible
        <5>2. QED  BY <1>2, <2>1, <2>3, <5>1, NoneAssumption DEF FitLot
      <4>3. QED  BY <2>1, <3>1, <4>1, <4>2 DEF Offers
    <3>3. CASE ~lots[w][c].known
      <4>1. after[w][c].blocked = TRUE
        BY <1>2, <1>6, <2>3, <3>3
      <4>2. ~FitLot(after[w][c], today) /\ ~FitLot(lots[w][c], today)
        BY <3>3, <4>1 DEF FitLot
      <4>3. QED  BY <4>2 DEF Offers
    <3>4. QED  BY <3>2, <3>3
  <2>4. QED  BY <2>2, <2>3
<1>8. QED  BY <1>7 DEF after, inputs

\* What came back, of what a sale could take.
LEMMA CameBack ==
    ASSUME TypeOK, NEW s \in Sales, given[s] = Nothing, NEW back \in [Kinds -> Nat],
           \A c \in Codes : back[c] <= taken[s][c],
           ~strict => back[Loose] <= taken[s][Loose],
           given' = [given EXCEPT ![s] = Booked(back)],
           NEW more, more = [c \in Codes |-> IF FitLot(lots[HomeOf[s]][c], today) THEN back[c] ELSE 0],
           NEW d, d = IF strict THEN 0 ELSE back[Loose]
    PROVE  /\ d + Total(more) <= SumFunction(CameBackFit(s))
           /\ SumFunction(CameBackFit(s)) \in Int
           /\ \A c \in Codes : more[c] \in Nat
           /\ d \in Nat /\ Total(more) \in Nat
<1> DEFINE f == CameBackFit(s)
           g == given'[s]
<1>1. /\ taken[s] \in [Kinds -> Nat] /\ strict \in BOOLEAN /\ given \in [Sales -> [Kinds -> Nat]]
      /\ \A c \in Kinds : given[s][c] = 0
  BY SaleNumbers DEF TypeOK, Nothing
<1>2. /\ g = Booked(back) /\ g \in [Kinds -> Nat]
      /\ \A c \in Codes : g[c] >= back[c]
      /\ g[Loose] = d
  BY <1>1, BookedUnits
<1> HIDE DEF g
<1>3. f = [c \in Kinds |->
              IF c = Loose \/ (lots[HomeOf[s]][c].known /\ Fit(HomeOf[s], c))
              THEN Smaller(g[c], taken[s][c]) - given[s][c] ELSE 0]
  BY DEF CameBackFit, g
<1>4. \A c \in Kinds : Smaller(g[c], taken[s][c]) \in Nat
  BY <1>1, <1>2 DEF Smaller
<1> HIDE DEF f
<1>5. \A c \in Kinds : f[c] \in Nat
  BY <1>1, <1>3, <1>4
<1>6. f \in [Kinds -> Nat]
  BY <1>3, <1>5
<1>7. \A c \in Codes : back[c] \in Nat /\ more[c] \in Nat
  BY KindsFacts
<1>8. ASSUME NEW c \in Codes
      PROVE  more[c] <= f[c]
  <2>1. CASE FitLot(lots[HomeOf[s]][c], today)
    <3>1. lots[HomeOf[s]][c].known /\ Fit(HomeOf[s], c)
      BY <2>1 DEF FitLot, Fit
    <3>2. f[c] = Smaller(g[c], taken[s][c])
      BY <1>1, <1>3, <1>4, <3>1, KindsFacts
    <3>3. back[c] <= Smaller(g[c], taken[s][c])
      BY <1>1, <1>2, KindsFacts DEF Smaller
    <3>4. QED  BY <2>1, <3>2, <3>3
  <2>2. CASE ~FitLot(lots[HomeOf[s]][c], today)
    BY <1>5, <2>2, KindsFacts
  <2>3. QED  BY <2>1, <2>2
<1>9. d <= f[Loose] /\ d \in Nat
  <2>1. f[Loose] = Smaller(g[Loose], taken[s][Loose])
    BY <1>1, <1>3, <1>4, KindsFacts
  <2>2. d <= taken[s][Loose] /\ d \in Nat /\ taken[s][Loose] \in Nat
    BY <1>1, KindsFacts
  <2>3. QED  BY <1>2, <2>1, <2>2 DEF Smaller
<1> HIDE DEF g
<1>10. Total(more) <= Total(f) /\ Total(more) \in Nat
  BY <1>5, <1>7, <1>8, KindsFacts, SumGrows, SumNat DEF Total
<1>11. SumFunction(f) = f[Loose] + Total(f) /\ Total(f) \in Nat /\ f[Loose] \in Nat
  BY <1>6, AllKinds
<1>12. QED  BY <1>7, <1>9, <1>10, <1>11 DEF f

\* A return makes no more available than what came back of what a sale could take.
LEMMA RefundFit ==
    ASSUME IInv, IInv', NEW s \in Sales, Refund(s)
    PROVE  /\ given'[s] # given[s]
           /\ Available_all' <= Available_all + SumFunction(CameBackFit(s))
<1> DEFINE w == HomeOf[s]
<1>1. /\ TypeOK /\ Agree /\ Sound(lots) /\ stock \in [Warehouses -> Nat]
      /\ Refunds(s) /\ w \in Warehouses /\ strict \in BOOLEAN
      /\ given \in [Sales -> [Kinds -> Nat]]
  BY Parts, RefundCases, SalesAssumption DEF IInv, Agree, TypeOK
<1>2. given[s] = Nothing /\ UNCHANGED <<strict, today, taken>>
  BY <1>1 DEF Refunds
<1>3. PICK k \in Nat \ {0}, back \in [Kinds -> Nat] :
            /\ SumFunction(back) = k
            /\ \A c \in Codes : back[c] > 0 => lots[w][c].known /\ ~lots[w][c].blocked
            /\ \A c \in Codes : back[c] <= taken[s][c]
            /\ ~strict => back[Loose] <= taken[s][Loose]
            /\ Inputs(ReturnInputs(w, back)) /\ Accepts(w, ReturnInputs(w, back), k)
            /\ stock' = [stock EXCEPT ![w] = @ + k]
            /\ lots' = With(lots, w, ReturnInputs(w, back))
            /\ given' = [given EXCEPT ![s] = Booked(back)]
  BY <1>1 DEF Refunds
<1> DEFINE inputs == ReturnInputs(w, back)
           more == [c \in Codes |-> IF FitLot(lots[w][c], today) THEN back[c] ELSE 0]
           d == IF strict THEN 0 ELSE back[Loose]
<1>4. given'[s] # given[s]
  <2>1. given'[s] = Booked(back) /\ SumFunction(Booked(back)) = k
    BY <1>1, <1>3, BookedUnits
  <2>2. QED  BY <1>2, <1>3, <2>1, NothingFacts
<1>5. /\ d + Total(more) <= SumFunction(CameBackFit(s))
      /\ SumFunction(CameBackFit(s)) \in Int
      /\ \A c \in Codes : more[c] \in Nat
      /\ d \in Nat /\ Total(more) \in Nat
  BY <1>1, <1>2, <1>3, CameBack
<1>6. \A c \in Codes : Offers(lots'[w][c], today) <= Offers(lots[w][c], today) + more[c]
  <2>1. \A c \in Codes : Offers(lots'[w][c], today) <= Offers(lots[w][c], today)
                             + IF FitLot(lots[w][c], today) THEN back[c] ELSE 0
    BY <1>1, <1>3, ReturnOffers
  <2>2. \A c \in Codes : more[c] = IF FitLot(lots[w][c], today) THEN back[c] ELSE 0
    OBVIOUS
  <2> HIDE DEF more, w
  <2>3. QED  BY <2>1, <2>2
<1>7. /\ \A u \in Warehouses \ {w} : lots'[u] = lots[u]
      /\ Total(Held(lots', w)) = Total(Held(lots, w)) + Total(Added(inputs))
  BY <1>1, <1>3, MoreLots
<1>8. stock'[w] = stock[w] + k /\ \A u \in Warehouses \ {w} : stock'[u] = stock[u]
  BY <1>1, <1>3
<1>9. ~strict => k - Total(Added(inputs)) = back[Loose]
  <2>1. CASE ~strict
    <3>1. inputs = TransferInputs(w, back)
      BY <2>1, Zenon DEF ReturnInputs, TransferInputs
    <3>2. \A c \in Codes : back[c] \in Nat
      BY KindsFacts
    <3>3. Total(Added(inputs)) = Total(back)
      BY <1>1, <3>1, <3>2, LotInputs
    <3>4. k = back[Loose] + Total(back) /\ Total(back) \in Nat /\ back[Loose] \in Nat
      BY <1>3, AllKinds
    <3>5. QED  BY <3>3, <3>4
  <2>2. QED  BY <2>1
<1> HIDE DEF inputs, more, d, w
<1>10. (IF strict' THEN 0 ELSE stock'[w] - Total(Held(lots', w)))
           <= (IF strict THEN 0 ELSE stock[w] - Total(Held(lots, w))) + d
  <2>1. Total(Held(lots, w)) \in Nat /\ stock[w] \in Nat /\ Total(Added(inputs)) \in Nat
    BY <1>1, <1>3, AgreeFacts, AddedUnits DEF inputs
  <2>2. CASE strict
    BY <1>2, <2>2 DEF d
  <2>3. CASE ~strict
    BY <1>2, <1>3, <1>7, <1>8, <1>9, <2>1, <2>3 DEF d
  <2>4. QED  BY <2>2, <2>3
<1>11. \A c \in Codes : /\ more[c] \in Int
                        /\ Offers(lots'[w][c], today') <= Offers(lots[w][c], today) + more[c]
  BY <1>2, <1>5, <1>6
<1>12. Available(w)' <= Available(w) + (d + Total(more))
  BY <1>1, <1>5, <1>10, <1>11, OffersMore
<1>13. \A u \in Warehouses \ {w} : Available(u)' <= Available(u)
  BY <1>2, <1>7, <1>8, LeftAlone
<1>14. Available_all' <= Available_all + (d + Total(more))
  <2>1. d + Total(more) \in Int
    BY <1>5
  <2>2. QED  BY <1>1, <1>12, <1>13, <2>1, MoreAtOne
<1>15. Available_all \in Int /\ Available_all' \in Int
  BY AllAvailable
<1>16. QED  BY <1>4, <1>5, <1>14, <1>15

LEMMA RunFit ==
    ASSUME IInv, IInv', NEW p \in Procs, Run(p), \A row \in log' \ log : ~ComesFromOutside(row)
    PROVE  Available_all' <= Available_all
<1> DEFINE q == tx[p].req
<1>1. TypeOK /\ Agree /\ Asked
  BY Parts DEF IInv
<1>2. q \in Requests
  BY <1>1, RunCases
<1>3. q.at \in Warehouses /\ q.to \in Warehouses /\ q.units \in Nat
  BY <1>2, RequestFields
<1>4. \A n : Record(p, n) => UNCHANGED <<strict, today>>
  BY DEF Record
<1>5. CASE Answered(p) \/ Confirms(p)
  <2>1. UNCHANGED <<stock, lots, strict, today>>
    BY <1>4, <1>5 DEF Answered, Confirms, tables
  <2>2. \A u \in Warehouses : Available(u)' <= Available(u)
    BY <2>1, LeftAlone
  <2>3. QED  BY <2>2, NowhereMore
<1>6. CASE TakesOut(p)
  <2>1. PICK n \in Nat, take \in [Kinds -> Nat] :
              /\ Takes(q.at, n, take) /\ Record(p, -n)
              /\ stock' = [stock EXCEPT ![q.at] = @ - n] /\ lots' = Without(q.at, take)
    BY <1>6 DEF TakesOut
  <2>2. UNCHANGED <<strict, today>>
    BY <1>4, <2>1
  <2> HIDE DEF q
  <2>3. \A u \in Warehouses : Available(u)' <= Available(u)
    BY <1>3, <2>1, <2>2, OutOffers
  <2>4. QED  BY <2>3, NowhereMore
<1>7. CASE BringsIn(p)
  <2>1. q.op \in {"IN", "ADJUST_UP", "RECEIPT", "COUNT"} /\ \E n \in Nat \ {0} : Record(p, n)
    BY <1>7 DEF BringsIn
  <2>2. PICK n \in Nat \ {0} : Record(p, n)
    BY <2>1
  <2> DEFINE row == [req |-> q, change |-> n]
  <2>3. row \in log' /\ row \notin log
    BY <2>2 DEF Record, KeyUsed, WithKey
  <2>4. ComesFromOutside(row)
    BY <2>1 DEF ComesFromOutside
  <2>5. QED  BY <2>3, <2>4
<1>8. CASE Moves(p)
  <2>1. q.at # q.to
    BY <1>8 DEF Moves
  <2>2. PICK take \in [Kinds -> Nat] :
              /\ Takes(q.at, q.units, take) /\ Record(p, 0)
              /\ Accepts(q.to, TransferInputs(q.at, take), q.units)
              /\ stock' = [stock EXCEPT ![q.at] = @ - q.units, ![q.to] = @ + q.units]
              /\ lots' = With(Without(q.at, take), q.to, TransferInputs(q.at, take))
    BY <1>8 DEF Moves
  <2>3. UNCHANGED <<strict, today>>
    BY <1>4, <2>2
  <2> HIDE DEF q
  <2>4. PICK v \in Warehouses, w \in Warehouses, n \in Nat,
              inputs \in {TransferInputs(q.at, take)} :
              v = q.at /\ w = q.to /\ n = q.units
    BY <1>3
  <2>5. /\ v # w /\ Takes(v, n, take) /\ inputs = TransferInputs(v, take)
        /\ Accepts(w, inputs, n) /\ stock' = [stock EXCEPT ![v] = @ - n, ![w] = @ + n]
        /\ lots' = With(Without(v, take), w, inputs)
    BY <2>1, <2>2, <2>4
  <2>6. /\ \E k \in Int : Available(v)' <= Available(v) - k /\ Available(w)' <= Available(w) + k
        /\ \A u \in Warehouses \ {v, w} : Available(u)' <= Available(u)
    BY <2>3, <2>5, MoveOffers
  <2>7. QED  BY <2>5, <2>6, MoreAndLess
<1>9. CASE Labels(p)
  <2> DEFINE inputs == {Input(q.code, q.expires, None, q.units)}
  <2>1. /\ q.op = "CLASSIFY" /\ q.units > 0 /\ q.units <= Untracked(q.at)
        /\ lots' = With(lots, q.at, inputs) /\ Record(p, 0) /\ UNCHANGED stock
    BY <1>9 DEF Labels
  <2>2. q.code \in Codes /\ q.expires \in Days \cup {Never}
    BY <1>2, <2>1, RequestFields
  <2>3. Inputs(inputs) /\ Total(Added(inputs)) = q.units
    <3>1. q.units \in Nat
      BY <1>3
    <3> HIDE DEF q
    <3>2. QED  BY <2>2, <3>1, NewLotInput
  <2>4. UNCHANGED <<strict, today>>
    BY <1>4, <2>1
  <2> HIDE DEF inputs, q
  <2>5. \A u \in Warehouses : Available(u)' <= Available(u)
    BY <1>3, <2>1, <2>3, <2>4, LabelOffers
  <2>6. QED  BY <2>5, NowhereMore
<1>10. QED  BY <1>1, <1>5, <1>6, <1>7, <1>8, <1>9, RunCases

LEMMA OthersFit ==
    ASSUME IInv, IInv', Others
    PROVE  \/ Available_all' <= Available_all
           \/ \E s \in Sales :
                 /\ given'[s] # given[s]
                 /\ Available_all' <= Available_all + SumFunction(CameBackFit(s))
<1> DEFINE Fitter == \/ Available_all' <= Available_all
                     \/ \E s \in Sales :
                           /\ given'[s] # given[s]
                           /\ Available_all' <= Available_all + SumFunction(CameBackFit(s))
<1> HIDE DEF Fitter
<1>1. TypeOK /\ Agree /\ FiniteTables
  BY Parts DEF IInv
<1>2. ASSUME NEW s \in Sales, Sell(s)
      PROVE  Fitter
  <2>1. Sells(s) /\ HomeOf[s] \in Warehouses
    BY <1>1, <1>2, SellCases, SalesAssumption
  <2>2. PICK n \in Nat \ {0}, take \in [Kinds -> Nat] :
              /\ Takes(HomeOf[s], n, take)
              /\ stock' = [stock EXCEPT ![HomeOf[s]] = @ - n] /\ lots' = Without(HomeOf[s], take)
    BY <2>1 DEF Sells
  <2>3. UNCHANGED <<strict, today>>
    BY <2>1 DEF Sells
  <2>4. \A u \in Warehouses : Available(u)' <= Available(u)
    BY <2>1, <2>2, <2>3, OutOffers
  <2>5. QED  BY <2>4, NowhereMore DEF Fitter
<1>3. ASSUME NEW s \in Sales, Refund(s)
      PROVE  Fitter
  BY <1>3, RefundFit DEF Fitter
<1>4. ASSUME NEW required \in BOOLEAN, Track(required)
      PROVE  Fitter
  <2>1. UNCHANGED <<stock, lots, today>> /\ strict' = required /\ required # strict
    BY <1>4 DEF Track
  <2>2. strict \in BOOLEAN
    BY <1>1 DEF TypeOK
  <2>3. ASSUME NEW u \in Warehouses
        PROVE  Available(u)' <= Available(u)
    <3>1. \A c \in Codes : Offers(lots'[u][c], today') <= Offers(lots[u][c], today)
      BY <2>1, Offered
    <3>2. (IF strict' THEN 0 ELSE stock'[u] - Total(Held(lots', u)))
              <= (IF strict THEN 0 ELSE stock[u] - Total(Held(lots, u)))
      BY <1>1, <2>1, <2>2, AgreeFacts
    <3>3. QED  BY <3>1, <3>2, NoMore
  <2>4. QED  BY <2>3, NowhereMore DEF Fitter
<1>5. CASE NextDay
  <2>1. UNCHANGED <<stock, lots, strict>> /\ today' = today + 1
    BY <1>5 DEF NextDay
  <2>2. ASSUME NEW u \in Warehouses
        PROVE  Available(u)' <= Available(u)
    <3>1. ASSUME NEW c \in Codes
          PROVE  Offers(lots'[u][c], today') <= Offers(lots[u][c], today)
      <4>1. /\ lots[u][c].units \in Nat /\ lots[u][c].expires \in Int /\ today \in Int
            /\ lots'[u][c] = lots[u][c]
        BY <2>1, LotNumbers
      <4>2. FitLot(lots[u][c], today') => FitLot(lots[u][c], today)
        BY <2>1, <4>1 DEF FitLot
      <4>3. QED  BY <4>1, <4>2 DEF Offers
    <3>2. (IF strict' THEN 0 ELSE stock'[u] - Total(Held(lots', u)))
              <= (IF strict THEN 0 ELSE stock[u] - Total(Held(lots, u)))
      BY <1>1, <2>1, AgreeFacts
    <3>3. QED  BY <3>1, <3>2, NoMore
  <2>3. QED  BY <2>2, NowhereMore DEF Fitter
<1>6. QED  BY <1>2, <1>3, <1>4, <1>5 DEF Others, Fitter

\* Goods that are blocked or have expired do not become sellable by being moved,
\* given a lot, counted, given back, nor by switching lots on and off: without
\* goods from outside, what is available grows only by what a return brings back
\* loose or to a lot that is fit.
THEOREM NothingFit == Spec => NothingBecomesFitAgain
<1> DEFINE Fitter == \/ Available_all' <= Available_all
                     \/ \E s \in Sales :
                           /\ given'[s] # given[s]
                           /\ Available_all' <= Available_all + SumFunction(CameBackFit(s))
           Inside == (\A row \in log' \ log : ~ComesFromOutside(row)) => Fitter
<1>1. ASSUME IInv, IInv', [Next]_vars
      PROVE  [Inside]_vars
  <2>1. SUFFICES ASSUME Next, \A row \in log' \ log : ~ComesFromOutside(row)
                 PROVE  Fitter
    BY <1>1
  <2>2. ASSUME NEW p \in Procs, (\E q \in Requests : Look(p, q)) \/ Finish(p) \/ Abort(p)
        PROVE  Available_all' <= Available_all
    <3>1. UNCHANGED <<stock, lots, strict, today>>
      BY <2>2 DEF Look, Finish, Abort, tables
    <3>2. \A u \in Warehouses : Available(u)' <= Available(u)
      BY <1>1, <3>1, LeftAlone
    <3>3. QED  BY <1>1, <3>2, NowhereMore
  <2>3. ASSUME NEW p \in Procs, Run(p)
        PROVE  Available_all' <= Available_all
    BY <1>1, <2>1, <2>3, RunFit
  <2>4. CASE Others
    BY <1>1, <2>4, OthersFit
  <2>5. QED  BY <2>1, <2>2, <2>3, <2>4 DEF Next
<1>2. Spec => [][Inside]_vars
  BY <1>1, Invariance, PTL DEF Spec
<1>3. QED  BY <1>2 DEF NothingBecomesFitAgain
=============================================================================
