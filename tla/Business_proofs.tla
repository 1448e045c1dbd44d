-------------------------- MODULE Business_proofs ---------------------------
(***************************************************************************)
(* What holds of the components of the business side for any number of rows *)
(* and requests: each component's inductive invariant is proved of its own   *)
(* steps, and the behaviours of MCBusiness, which show one component at a    *)
(* time, inherit it.                                                         *)
(***************************************************************************)
EXTENDS MCBusiness, FiniteSetTheorems, SequenceTheorems, WellFoundedInduction, TLAPS

-----------------------------------------------------------------------------
(* More about totals: they are added up in any order and any grouping.        *)

LEMMA LeastOf == ASSUME NEW S \in SUBSET Nat, S # {} PROVE \E j \in S : \A k \in S : j <= k
<1>1. PICK j \in S : \A k \in S : ~(<<k, j>> \in OpToRel(<, Nat))
  BY NatLessThanWellFounded, WFMin, Zenon
<1>2. \A k \in S : k < j => <<k, j>> \in OpToRel(<, Nat)
  BY Zenon DEF OpToRel
<1>3. \A k \in S : ~(k < j)
  BY <1>1, <1>2, Zenon
<1> QED BY <1>3

LEMMA LargestOf ==
    ASSUME NEW n \in Nat, NEW S \in SUBSET (1..n), S # {}
    PROVE  \E j \in S : \A k \in S : k <= j
<1> DEFINE T == {m \in Nat : \E k \in S : m = n - k}
<1>1. PICK k \in S : TRUE
  OBVIOUS
<1>2. n - k \in T
  OBVIOUS
<1>3. T \in SUBSET Nat /\ T # {}
  BY <1>2
<1>4. PICK m \in T : \A i \in T : m <= i
  <2> HIDE DEF T
  <2> QED BY <1>3, LeastOf
<1>5. PICK j \in S : m = n - j
  BY <1>4
<1>6. ASSUME NEW i \in S PROVE i <= j
  <2>1. n - i \in T
    OBVIOUS
  <2>2. n - j <= n - i
    BY <1>4, <1>5, <2>1
  <2>3. i \in Int /\ j \in Int
    OBVIOUS
  <2> HIDE DEF T
  <2> QED BY <2>2, <2>3
<1> QED BY <1>6

\* A table cut down to some of its rows.
Part1(f, S) == [x \in S |-> f[x]]
LEMMA PartFinitely ==
    ASSUME NEW f, Finitely(f), NEW S \in SUBSET DOMAIN f
    PROVE  Finitely(Part1(f, S)) /\ DOMAIN Part1(f, S) = S /\ IsFiniteSet(S) /\ Cardinality(S) \in Nat
<1>1. IsFiniteSet(S) /\ Cardinality(S) \in Nat
  BY FS_Subset, FS_CardinalityType DEF Finitely
<1> QED BY <1>1 DEF Finitely, Part1

\* Every set of rows has what no row takes away: the rows one by one.
LEMMA TotalCut ==
    ASSUME NEW f, Finitely(f), NEW S \in SUBSET DOMAIN f, NEW z \in S
    PROVE  /\ TotalOf(Part1(f, S)) = TotalOf(Part1(f, S \ {z})) + f[z]
           /\ TotalOf(Part1(f, S)) \in Int /\ TotalOf(Part1(f, S \ {z})) \in Int
           /\ S \ {z} \in SUBSET DOMAIN f /\ Cardinality(S \ {z}) = Cardinality(S) - 1
           /\ Cardinality(S) \in Nat
<1>1. S \ {z} \in SUBSET DOMAIN f
  OBVIOUS
<1>2. /\ Finitely(Part1(f, S)) /\ DOMAIN Part1(f, S) = S /\ IsFiniteSet(S) /\ Cardinality(S) \in Nat
      /\ Finitely(Part1(f, S \ {z})) /\ DOMAIN Part1(f, S \ {z}) = S \ {z}
  BY <1>1, PartFinitely
<1>3. /\ z \notin DOMAIN Part1(f, S \ {z}) /\ DOMAIN Part1(f, S) = DOMAIN Part1(f, S \ {z}) \cup {z}
      /\ Part1(f, S)[z] = f[z] /\ f[z] \in Int
      /\ \A y \in DOMAIN Part1(f, S \ {z}) : Part1(f, S)[y] = Part1(f, S \ {z})[y]
  BY <1>2 DEF Part1, Finitely
<1>4. TotalOf(Part1(f, S)) = TotalOf(Part1(f, S \ {z})) + f[z]
  <2>1. PICK p, q : p = Part1(f, S) /\ q = Part1(f, S \ {z})
    OBVIOUS
  <2>2. Finitely(q) /\ z \notin DOMAIN q /\ DOMAIN p = DOMAIN q \cup {z} /\ p[z] \in Int
        /\ \A y \in DOMAIN q : p[y] = q[y]
    BY <1>2, <1>3, <2>1
  <2>3. TotalOf(p) = TotalOf(q) + p[z]
    BY <2>2, TotalGrown
  <2> QED BY <1>3, <2>1, <2>3
<1>5. Cardinality(S \ {z}) = Cardinality(S) - 1
  BY <1>2, FS_RemoveElement
<1> QED BY <1>1, <1>2, <1>4, <1>5, TotalInt

LEMMA TotalNone == ASSUME NEW f PROVE TotalOf(Part1(f, {})) = 0
<1>1. \A y \in DOMAIN Part1(f, {}) : Part1(f, {})[y] = 0
  BY DEF Part1
<1> QED BY <1>1, TotalZero

LEMMA TotalWhole == ASSUME NEW f, f = [x \in DOMAIN f |-> f[x]] PROVE TotalOf(Part1(f, DOMAIN f)) = TotalOf(f)
BY DEF Part1

\* The totals of the groups a key makes add up to the total.
Grouped(f, key, K, S) == [k \in K |-> TotalOf(Part1(f, {x \in S : key[x] = k}))]
LEMMA GroupedCut ==
    ASSUME NEW f, Finitely(f), NEW K, IsFiniteSet(K), NEW key \in [DOMAIN f -> K],
           NEW S \in SUBSET DOMAIN f, NEW z \in S
    PROVE  /\ Finitely(Grouped(f, key, K, S))
           /\ TotalOf(Grouped(f, key, K, S)) = TotalOf(Grouped(f, key, K, S \ {z})) + f[z]
<1> DEFINE Of(T, k) == {x \in T : key[x] = k}
<1>1. ASSUME NEW T \in SUBSET DOMAIN f
      PROVE  Finitely(Grouped(f, key, K, T)) /\ DOMAIN Grouped(f, key, K, T) = K
  <2>1. ASSUME NEW k \in K PROVE TotalOf(Part1(f, Of(T, k))) \in Int
    <3>1. Of(T, k) \in SUBSET DOMAIN f
      OBVIOUS
    <3> HIDE DEF Of
    <3> QED BY <3>1, PartFinitely, TotalInt
  <2> QED BY <2>1 DEF Grouped, Finitely
<1>2. PICK c \in K : c = key[z]
  OBVIOUS
<1>3. TotalOf(Part1(f, Of(S, c))) = TotalOf(Part1(f, Of(S \ {z}, c))) + f[z]
  <2>1. Of(S, c) \in SUBSET DOMAIN f /\ z \in Of(S, c) /\ Of(S \ {z}, c) = Of(S, c) \ {z}
    BY <1>2
  <2>2. PICK A, B : A = Of(S, c) /\ B = Of(S \ {z}, c)
    OBVIOUS
  <2>3. A \in SUBSET DOMAIN f /\ z \in A /\ B = A \ {z}
    BY <2>1, <2>2
  <2>4. TotalOf(Part1(f, A)) = TotalOf(Part1(f, B)) + f[z]
    BY <2>3, TotalCut
  <2> HIDE DEF Of
  <2> QED BY <2>2, <2>4
<1>4. \A k \in K : k # c => Of(S, k) = Of(S \ {z}, k)
  BY <1>2
<1>5. S \ {z} \in SUBSET DOMAIN f /\ f[z] \in Int
  BY DEF Finitely
<1>6. /\ Grouped(f, key, K, S)[c] = TotalOf(Part1(f, Of(S, c)))
      /\ Grouped(f, key, K, S \ {z})[c] = TotalOf(Part1(f, Of(S \ {z}, c)))
      /\ \A k \in K : k # c => Grouped(f, key, K, S)[k] = Grouped(f, key, K, S \ {z})[k]
  <2>1. \A T : \A k \in K : Grouped(f, key, K, T)[k] = TotalOf(Part1(f, Of(T, k)))
    BY DEF Grouped
  <2> HIDE DEF Of
  <2> QED BY <1>4, <2>1
<1> HIDE DEF Of
<1>7. Finitely(Grouped(f, key, K, S)) /\ DOMAIN Grouped(f, key, K, S) = K
  BY <1>1
<1>8. Finitely(Grouped(f, key, K, S \ {z})) /\ DOMAIN Grouped(f, key, K, S \ {z}) = K
  BY <1>1, <1>5
<1>9. Grouped(f, key, K, S)[c] \in Int /\ Grouped(f, key, K, S \ {z})[c] \in Int
  BY <1>7, <1>8 DEF Finitely
<1>10. TotalOf(Grouped(f, key, K, S)) =
           TotalOf(Grouped(f, key, K, S \ {z})) - Grouped(f, key, K, S \ {z})[c] + Grouped(f, key, K, S)[c]
  <2>1. c \in DOMAIN Grouped(f, key, K, S \ {z})
    BY <1>8
  <2>2. \A y \in DOMAIN Grouped(f, key, K, S \ {z}) :
            y # c => Grouped(f, key, K, S)[y] = Grouped(f, key, K, S \ {z})[y]
    BY <1>6, <1>8
  <2> QED BY <1>7, <1>8, <1>9, <2>1, <2>2, TotalChanged
<1>11. TotalOf(Grouped(f, key, K, S \ {z})) \in Int
  BY <1>8, TotalInt
<1> QED BY <1>3, <1>5, <1>6, <1>7, <1>9, <1>10, <1>11

LEMMA TotalGrouped ==
    ASSUME NEW f, Finitely(f), NEW K, IsFiniteSet(K), NEW key \in [DOMAIN f -> K]
    PROVE  \A S \in SUBSET DOMAIN f : TotalOf(Grouped(f, key, K, S)) = TotalOf(Part1(f, S))
<1> DEFINE Wrong == {n \in Nat : \E S \in SUBSET DOMAIN f :
                         Cardinality(S) = n /\ TotalOf(Grouped(f, key, K, S)) # TotalOf(Part1(f, S))}
<1>1. ASSUME Wrong # {} PROVE FALSE
  <2>1. PICK n \in Wrong : \A k \in Wrong : n <= k
    <3>1. Wrong \in SUBSET Nat
      OBVIOUS
    <3> HIDE DEF Wrong
    <3> QED BY <1>1, <3>1, LeastOf
  <2>2. PICK S \in SUBSET DOMAIN f : Cardinality(S) = n /\ TotalOf(Grouped(f, key, K, S)) # TotalOf(Part1(f, S))
    BY <2>1
  <2>3. S # {}
    <3>1. ASSUME S = {} PROVE FALSE
      <4>1. \A k \in K : {x \in S : key[x] = k} = {}
        BY <3>1
      <4>2. \A k \in DOMAIN Grouped(f, key, K, S) : Grouped(f, key, K, S)[k] = 0
        BY <4>1, TotalNone DEF Grouped
      <4>3. TotalOf(Grouped(f, key, K, S)) = 0
        BY <4>2, TotalZero
      <4> QED BY <2>2, <3>1, <4>3, TotalNone
    <3> QED BY <3>1
  <2>4. PICK z \in S : TRUE
    BY <2>3
  <2>5. /\ TotalOf(Part1(f, S)) = TotalOf(Part1(f, S \ {z})) + f[z]
        /\ S \ {z} \in SUBSET DOMAIN f /\ Cardinality(S \ {z}) = Cardinality(S) - 1 /\ Cardinality(S) \in Nat
    BY <2>4, TotalCut
  <2>6. TotalOf(Grouped(f, key, K, S)) = TotalOf(Grouped(f, key, K, S \ {z})) + f[z]
    BY <2>4, GroupedCut
  <2>7. TotalOf(Grouped(f, key, K, S \ {z})) # TotalOf(Part1(f, S \ {z}))
    BY <2>2, <2>5, <2>6
  <2>8. Cardinality(S \ {z}) \in Nat
    BY <2>5, PartFinitely
  <2>9. Cardinality(S \ {z}) \in Wrong
    BY <2>5, <2>7, <2>8
  <2>10. n <= Cardinality(S \ {z}) /\ n \in Nat
    BY <2>1, <2>9
  <2> QED BY <2>2, <2>5, <2>8, <2>10
<1>2. ASSUME NEW S \in SUBSET DOMAIN f PROVE TotalOf(Grouped(f, key, K, S)) = TotalOf(Part1(f, S))
  <2>1. Cardinality(S) \in Nat
    BY PartFinitely
  <2> QED BY <1>1, <2>1
<1> QED BY <1>2

\* Rows are added one by one.
LEMMA TotalAdded ==
    ASSUME NEW f, NEW g, NEW h, Finitely(f), Finitely(g), DOMAIN g = DOMAIN f, DOMAIN h = DOMAIN f,
           \A y \in DOMAIN f : h[y] = f[y] + g[y]
    PROVE  Finitely(h) /\ \A S \in SUBSET DOMAIN f : TotalOf(Part1(h, S)) = TotalOf(Part1(f, S)) + TotalOf(Part1(g, S))
<1>0. Finitely(h)
  BY DEF Finitely
<1> DEFINE Wrong == {n \in Nat : \E S \in SUBSET DOMAIN f :
               Cardinality(S) = n /\ TotalOf(Part1(h, S)) # TotalOf(Part1(f, S)) + TotalOf(Part1(g, S))}
<1>1. ASSUME Wrong # {} PROVE FALSE
  <2>1. PICK n \in Wrong : \A k \in Wrong : n <= k
    <3>1. Wrong \in SUBSET Nat
      OBVIOUS
    <3> HIDE DEF Wrong
    <3> QED BY <1>1, <3>1, LeastOf
  <2>2. PICK S \in SUBSET DOMAIN f :
            Cardinality(S) = n /\ TotalOf(Part1(h, S)) # TotalOf(Part1(f, S)) + TotalOf(Part1(g, S))
    BY <2>1
  <2>3. S # {}
    BY <2>2, TotalNone
  <2>4. PICK z \in S : TRUE
    BY <2>3
  <2>5. /\ TotalOf(Part1(f, S)) = TotalOf(Part1(f, S \ {z})) + f[z]
        /\ TotalOf(Part1(g, S)) = TotalOf(Part1(g, S \ {z})) + g[z]
        /\ TotalOf(Part1(h, S)) = TotalOf(Part1(h, S \ {z})) + h[z]
        /\ TotalOf(Part1(f, S \ {z})) \in Int /\ TotalOf(Part1(g, S \ {z})) \in Int /\ TotalOf(Part1(h, S \ {z})) \in Int
        /\ S \ {z} \in SUBSET DOMAIN f /\ Cardinality(S \ {z}) = Cardinality(S) - 1 /\ Cardinality(S) \in Nat
    BY <1>0, <2>4, TotalCut
  <2>6. f[z] \in Int /\ g[z] \in Int /\ h[z] = f[z] + g[z]
    BY <2>4 DEF Finitely
  <2>7. TotalOf(Part1(h, S \ {z})) # TotalOf(Part1(f, S \ {z})) + TotalOf(Part1(g, S \ {z}))
    BY <2>2, <2>5, <2>6
  <2>8. Cardinality(S \ {z}) \in Nat
    BY <2>5, PartFinitely
  <2>9. Cardinality(S \ {z}) \in Wrong
    BY <2>5, <2>7, <2>8
  <2>10. n <= Cardinality(S \ {z}) /\ n \in Nat
    BY <2>1, <2>9
  <2> QED BY <2>2, <2>5, <2>8, <2>10
<1>2. ASSUME NEW S \in SUBSET DOMAIN f
      PROVE  TotalOf(Part1(h, S)) = TotalOf(Part1(f, S)) + TotalOf(Part1(g, S))
  <2>1. Cardinality(S) \in Nat
    BY PartFinitely
  <2> QED BY <1>1, <2>1
<1> QED BY <1>0, <1>2


\* The same for whole tables.
LEMMA TotalSum ==
    ASSUME NEW f, NEW g, NEW h, Finitely(f), Finitely(g), DOMAIN g = DOMAIN f, DOMAIN h = DOMAIN f,
           \A y \in DOMAIN f : h[y] = f[y] + g[y]
    PROVE  Finitely(h) /\ TotalOf(h) = TotalOf(f) + TotalOf(g) /\ TotalOf(f) \in Int /\ TotalOf(g) \in Int
<1>1. ASSUME NEW p PROVE TotalOf(Part1(p, DOMAIN p)) = TotalOf(p)
  <2>1. DOMAIN p = DOMAIN Part1(p, DOMAIN p) /\ \A y \in DOMAIN Part1(p, DOMAIN p) : p[y] = Part1(p, DOMAIN p)[y]
    BY DEF Part1
  <2> QED BY <2>1, TotalSame
<1>2. Finitely(h) /\ TotalOf(Part1(h, DOMAIN f)) = TotalOf(Part1(f, DOMAIN f)) + TotalOf(Part1(g, DOMAIN f))
  <2>1. DOMAIN f \in SUBSET DOMAIN f
    OBVIOUS
  <2> QED BY <2>1, TotalAdded
<1>3. TotalOf(f) \in Int /\ TotalOf(g) \in Int
  BY TotalInt
<1> QED BY <1>1, <1>2, <1>3

LEMMA TotalDifference ==
    ASSUME NEW f, NEW g, NEW h, Finitely(f), Finitely(g), DOMAIN g = DOMAIN f, DOMAIN h = DOMAIN f,
           \A y \in DOMAIN f : h[y] = f[y] - g[y]
    PROVE  Finitely(h) /\ TotalOf(h) = TotalOf(f) - TotalOf(g) /\ TotalOf(f) \in Int /\ TotalOf(g) \in Int
<1>1. Finitely(h)
  BY DEF Finitely
<1>2. \A y \in DOMAIN h : f[y] = h[y] + g[y]
  BY <1>1 DEF Finitely
<1>3. TotalOf(f) = TotalOf(h) + TotalOf(g) /\ TotalOf(h) \in Int /\ TotalOf(g) \in Int
  BY <1>1, <1>2, TotalSum
<1> QED BY <1>1, <1>3

\* Rows that are not below those of another table.
LEMMA TotalMost ==
    ASSUME NEW f, NEW g, Finitely(f), Finitely(g), DOMAIN g = DOMAIN f, \A y \in DOMAIN f : f[y] <= g[y]
    PROVE  TotalOf(f) <= TotalOf(g)
<1> PICK h : h = [y \in DOMAIN f |-> g[y] - f[y]]
  OBVIOUS
<1>1. DOMAIN h = DOMAIN g /\ \A y \in DOMAIN g : h[y] = g[y] - f[y]
  OBVIOUS
<1>2. Finitely(h) /\ TotalOf(h) = TotalOf(g) - TotalOf(f) /\ TotalOf(f) \in Int /\ TotalOf(g) \in Int
  BY <1>1, TotalDifference
<1>3. \A y \in DOMAIN h : h[y] \in Nat
  BY <1>1 DEF Finitely
<1>4. TotalOf(h) \in Nat
  BY <1>2, <1>3, TotalNat
<1> QED BY <1>2, <1>4

\* Rows of zeros count for nothing.
LEMMA TotalWithZeros ==
    ASSUME NEW f, NEW g, DOMAIN f \subseteq DOMAIN g, \A x \in DOMAIN f : g[x] = f[x],
           \A x \in DOMAIN g \ DOMAIN f : g[x] = 0
    PROVE  TotalOf(g) = TotalOf(f)
<1>1. \A x \in DOMAIN g : x \notin DOMAIN f => 1..g[x] = {} /\ 1..(-g[x]) = {}
  OBVIOUS
<1>2. UnitsOf(g) = UnitsOf(f)
  BY <1>1 DEF UnitsOf
<1>3. UnitsOf(Opposite(g)) = UnitsOf(Opposite(f))
  BY <1>1 DEF UnitsOf, Opposite
<1> QED BY <1>2, <1>3 DEF TotalOf

\* A table and the totals of its groups.
WithKey(f, key, k) == {x \in DOMAIN f : key[x] = k}
LEMMA TotalByKey ==
    ASSUME NEW f, Finitely(f), NEW K, IsFiniteSet(K), NEW key \in [DOMAIN f -> K],
           NEW g, DOMAIN g = K, \A k \in K : g[k] = TotalOf(Part1(f, WithKey(f, key, k)))
    PROVE  Finitely(g) /\ TotalOf(g) = TotalOf(f) /\ TotalOf(f) \in Int
<1>1. ASSUME NEW k \in K PROVE g[k] \in Int
  <2> PICK S : S = WithKey(f, key, k)
    OBVIOUS
  <2>1. S \in SUBSET DOMAIN f /\ g[k] = TotalOf(Part1(f, S))
    BY DEF WithKey
  <2> QED BY <2>1, PartFinitely, TotalInt
<1>2. Finitely(g)
  BY <1>1 DEF Finitely
<1>3. DOMAIN g = DOMAIN Grouped(f, key, K, DOMAIN f)
      /\ \A k \in DOMAIN Grouped(f, key, K, DOMAIN f) : g[k] = Grouped(f, key, K, DOMAIN f)[k]
  BY DEF Grouped, WithKey
<1>4. TotalOf(g) = TotalOf(Grouped(f, key, K, DOMAIN f))
  BY <1>3, TotalSame
<1>5. DOMAIN f \in SUBSET DOMAIN f
  OBVIOUS
<1>6. TotalOf(Grouped(f, key, K, DOMAIN f)) = TotalOf(Part1(f, DOMAIN f))
  BY <1>5, TotalGrouped
<1>7. DOMAIN f = DOMAIN Part1(f, DOMAIN f) /\ \A y \in DOMAIN Part1(f, DOMAIN f) : f[y] = Part1(f, DOMAIN f)[y]
  BY DEF Part1
<1>8. TotalOf(f) = TotalOf(Part1(f, DOMAIN f))
  BY <1>7, TotalSame
<1> QED BY <1>2, <1>4, <1>6, <1>8, TotalInt

-----------------------------------------------------------------------------
(* Machines, what they are let for and the hours they worked.                  *)

\* What an overlapping request is about to write: a rental takes the machine off its
\* project and fits between the rentals it has seen, a usage adds its hours.
SameBut(to, from) == to.deleted = from.deleted /\ to.condition = from.condition
RentalRequest ==
    [kind : {"rental"}, machine : Machine, from : EquipmentRow, to : EquipmentRow,
     start : Date, end : Date, seen : [Rental -> RentalRow \cup {Gone}]]
UsageRequest ==
    [kind : {"usage"}, machine : Machine, from : EquipmentRow, to : EquipmentRow,
     date : Date, hours : Hours]
FitsSeen(req) ==
    \A k \in Rental : req.seen[k] # Gone /\ req.seen[k].machine = req.machine =>
        req.end < req.seen[k].start \/ req.seen[k].end < req.start
RentalKept(req) ==
    /\ req \in RentalRequest /\ req.start <= req.end /\ FitsSeen(req)
    /\ SameBut(req.to, req.from) /\ req.to.hours = req.from.hours /\ req.to.project = NoWorkplace
UsageKept(req) ==
    /\ req \in UsageRequest
    /\ SameBut(req.to, req.from) /\ req.to.hours = req.from.hours + req.hours /\ req.to.project = req.from.project
RequestsShaped ==
    /\ requesting = [r \in Requesting |-> requesting[r]]
    /\ \A r \in Requesting : requesting[r] = NotRequesting \/ RentalKept(requesting[r]) \/ UsageKept(requesting[r])
RequestsKept == \A r \in Requesting : requesting[r] # NotRequesting => equipment[requesting[r].machine] # Gone

\* A rental of a machine that is there; no two share a day.
RentalsKept ==
    \A k \in Rental : rentals[k] # Gone => rentals[k].start <= rentals[k].end /\ equipment[rentals[k].machine] # Gone
Apart(j, k) == j.end < k.start \/ k.end < j.start
RentalsApart ==
    \A j, k \in Rental :
        j # k /\ rentals[j] # Gone /\ rentals[k] # Gone /\ rentals[j].machine = rentals[k].machine
            => Apart(rentals[j], rentals[k]) \/ rentals[j].machine \in crossed
\* Let today or later; also a deleted machine is on no project.
LetFrom(m) ==
    \E k \in Rental : /\ rentals[k] # Gone /\ rentals[k].machine = m
                      /\ rentals[k].status = "running" /\ rentals[k].end >= now
PlacedRight ==
    \A m \in Machine \ crossed :
        equipment[m] # Gone /\ (equipment[m].deleted \/ LetFrom(m)) => equipment[m].project = NoWorkplace
HoursKept ==
    \A m \in Machine :
        /\ equipment[m] = Gone => \A d \in Date : usages[m][d] = 0
        /\ equipment[m] # Gone /\ m \notin miscounted => equipment[m].hours = TotalOf(usages[m])
FleetInv ==
    /\ FleetTypeOK /\ RequestsShaped /\ RequestsKept
    /\ RentalsKept /\ RentalsApart /\ PlacedRight /\ HoursKept

LEMMA NotGone == (\A row \in EquipmentRow : row # Gone) /\ (\A row \in RentalRow : row # Gone)
                 /\ (\A row \in ServiceRow : row # Gone)
BY DEF Gone, EquipmentRow, EquipmentStatus, RentalRow, RentalStatus, ServiceRow

LEMMA LetMeansFrom ==
    ASSUME FleetTypeOK, RentalsKept, NEW m \in Machine
    PROVE  LetOn(m, now, rentals) \/ LetLater(m, rentals) <=> LetFrom(m)
<1>1. rentals \in [Rental -> RentalRow \cup {Gone}] /\ now \in Int
  BY HorizonAssumption DEF FleetTypeOK, Date
<1>2. \A k : k \in RentalsOf(m, rentals) <=> k \in Rental /\ rentals[k] # Gone /\ rentals[k].machine = m
  BY <1>1 DEF RentalsOf, Present
<1>3. \A k \in Rental : rentals[k] # Gone => rentals[k].start \in Int /\ rentals[k].end \in Int /\ rentals[k].start <= rentals[k].end
  BY <1>1, HorizonAssumption DEF RentalsKept, RentalRow, Date
<1>4. \A k \in Rental : rentals[k] # Gone =>
          (Covers(rentals[k], now) \/ rentals[k].start > now <=> rentals[k].end >= now)
  BY <1>1, <1>3 DEF Covers
<1> QED BY <1>2, <1>4 DEF LetOn, LetLater, LetFrom

LEMMA FleetInvHolds == FleetInv => LetOrOnSite /\ LetOnce /\ HoursAddUp /\ FleetViewsAgree
<1> SUFFICES ASSUME FleetInv PROVE LetOrOnSite /\ LetOnce /\ HoursAddUp /\ FleetViewsAgree
  OBVIOUS
<1> USE DEF FleetInv
<1>1. LetOrOnSite
  BY LetMeansFrom DEF LetOrOnSite, PlacedRight, Active
<1>2. rentals \in [Rental -> RentalRow \cup {Gone}] /\ now \in Int
  BY HorizonAssumption DEF FleetTypeOK, Date
<1>3. Present(rentals) \subseteq Rental /\ \A k \in Present(rentals) : rentals[k] # Gone
  BY <1>2 DEF Present
<1>4. LetOnce
  BY <1>3 DEF LetOnce, RentalsApart, Apart
<1>5. HoursAddUp
  BY DEF HoursAddUp, HoursKept, UsageReport
<1>6. ASSUME NEW k \in Present(rentals)
      PROVE  /\ \A filter \in {"UPCOMING", "COMPLETED", "ACTIVE"} : ListedUnder(k, filter) <=> ListedRental(k) = filter
             /\ ListedRental(k) = "ACTIVE" => Availability(rentals[k].machine) \in {"RENTED", "MAINTENANCE", "DAMAGED"}
  <2>1. rentals[k].start \in Int /\ rentals[k].end \in Int /\ rentals[k].start <= rentals[k].end
    BY <1>2, <1>3, HorizonAssumption DEF RentalsKept, RentalRow, Date
  <2>2. \A filter \in {"UPCOMING", "COMPLETED", "ACTIVE"} : ListedUnder(k, filter) <=> ListedRental(k) = filter
    BY <1>2, <2>1 DEF ListedUnder, ListedRental, Covers
  <2>3. ASSUME ListedRental(k) = "ACTIVE"
        PROVE  Availability(rentals[k].machine) \in {"RENTED", "MAINTENANCE", "DAMAGED"}
    <3>1. rentals[k].status = "running" /\ Covers(rentals[k], now)
      BY <1>2, <2>1, <2>3 DEF ListedRental, Covers
    <3>2. LetOn(rentals[k].machine, now, rentals)
      BY <3>1 DEF LetOn, RentalsOf
    <3> QED BY <3>2 DEF Availability
  <2> QED BY <2>2, <2>3
<1>7. FleetViewsAgree
  BY <1>6 DEF FleetViewsAgree
<1> QED BY <1>1, <1>4, <1>5, <1>7

LEMMA DaysFinite == ASSUME NEW days \in [Date -> Nat] PROVE Finitely(days) /\ DOMAIN days = Date
<1>1. 1 \in Int /\ Horizon \in Int
  BY HorizonAssumption
<1>2. IsFiniteSet(Date)
  BY <1>1, FS_Interval DEF Date
<1>3. DOMAIN days = Date
  OBVIOUS
<1>4. \A y \in DOMAIN days : days[y] \in Int
  OBVIOUS
<1> QED BY <1>2, <1>3, <1>4 DEF Finitely

LEMMA FleetInitInv == FleetInit => FleetInv
<1> SUFFICES ASSUME FleetInit PROVE FleetInv
  OBVIOUS
<1> USE DEF FleetInit
<1>1. FleetTypeOK
  BY HorizonAssumption DEF FleetTypeOK, Date
<1>2. RequestsShaped /\ RequestsKept
  BY DEF RequestsShaped, RequestsKept
<1>3. RentalsKept /\ RentalsApart /\ PlacedRight /\ HoursKept
  BY DEF RentalsKept, RentalsApart, PlacedRight, HoursKept
<1> QED BY <1>1, <1>2, <1>3 DEF FleetInv

LEMMA CalculatedStatus == ASSUME NEW m, NEW row, NEW ms, NEW rs PROVE Calculated(m, row, ms, rs) \in EquipmentStatus
BY DEF Calculated, EquipmentStatus

LEMMA RecalculatedRow ==
    ASSUME NEW m, NEW row \in EquipmentRow, NEW ms, NEW rs
    PROVE  LET new == Recalculated(m, row, ms, rs) IN
           /\ new \in EquipmentRow /\ new.project = row.project /\ new.hours = row.hours
           /\ new.deleted = row.deleted /\ new.condition = row.condition
<1> DEFINE busy == row.condition = "DAMAGED" \/ ServiceDue(m, 1..now, ms) \/ LetOn(m, now, rs)
           status == IF ~busy /\ row.project # NoWorkplace THEN "IN_PROJECT"
                     ELSE IF ~busy /\ LetLater(m, rs) THEN "IDLE" ELSE Calculated(m, row, ms, rs)
<1>1. status \in EquipmentStatus
  BY CalculatedStatus DEF EquipmentStatus
<1>2. Recalculated(m, row, ms, rs) = [row EXCEPT !.status = status]
  BY DEF Recalculated
<1> HIDE DEF status
<1>3. LET new == [row EXCEPT !.status = status] IN
      /\ new \in EquipmentRow /\ new.project = row.project /\ new.hours = row.hours
      /\ new.deleted = row.deleted /\ new.condition = row.condition
  BY <1>1 DEF EquipmentRow
<1> QED BY <1>2, <1>3

-----------------------------------------------------------------------------
\* What a step about one machine, its hours and its rentals has to show.
LEMMA FleetStep ==
    ASSUME FleetInv, NEW m \in Machine, NEW row \in EquipmentRow, NEW days \in [Date -> Nat],
           equipment' = [equipment EXCEPT ![m] = row], usages' = [usages EXCEPT ![m] = days],
           services' \in [Service -> ServiceRow \cup {Gone}],
           rentals' \in [Rental -> RentalRow \cup {Gone}],
           now' = now, served' \in Nat, RequestsShaped',
           \A r \in Requesting : requesting'[r] = requesting[r] \/ requesting'[r] = NotRequesting,
           miscounted' = miscounted \/ miscounted' = miscounted \cup {m},
           crossed' = crossed \/ crossed' = crossed \cup {m},
           m \notin miscounted' => row.hours = TotalOf(days),
           m \notin crossed' /\ (row.deleted \/ LetFrom(m)') => row.project = NoWorkplace,
           \A k \in Rental : \/ rentals'[k] \in {rentals[k], Gone}
                             \/ rentals'[k].machine = m /\ rentals'[k].start <= rentals'[k].end,
           m \notin crossed' => \A j, k \in Rental :
               j # k /\ rentals'[j] # Gone /\ rentals'[k] # Gone /\ rentals'[j].machine = m /\ rentals'[k].machine = m
                   => Apart(rentals'[j], rentals'[k])
    PROVE  FleetInv'
<1> USE DEF FleetInv
<1>1. /\ equipment \in [Machine -> EquipmentRow \cup {Gone}] /\ usages \in [Machine -> [Date -> Nat]]
      /\ miscounted \subseteq Machine /\ crossed \subseteq Machine /\ now \in Date
      /\ rentals \in [Rental -> RentalRow \cup {Gone}]
  BY DEF FleetTypeOK
<1>2. /\ equipment'[m] = row /\ usages'[m] = days /\ row # Gone
      /\ \A p \in Machine \ {m} : equipment'[p] = equipment[p] /\ usages'[p] = usages[p]
      /\ \A p \in Machine : equipment[p] # Gone => equipment'[p] # Gone
  BY <1>1, NotGone
<1>3. FleetTypeOK'
  BY <1>1 DEF FleetTypeOK
<1>4. RequestsKept'
  <2>1. ASSUME NEW r \in Requesting, requesting'[r] # NotRequesting PROVE equipment'[requesting'[r].machine] # Gone
    <3>1. requesting'[r] = requesting[r]
      BY <2>1
    <3>2. equipment[requesting[r].machine] # Gone /\ requesting[r].machine \in Machine
      BY <2>1, <3>1 DEF RequestsKept, RequestsShaped, RentalKept, UsageKept, RentalRequest, UsageRequest
    <3> QED BY <1>2, <3>1, <3>2
  <2> QED BY <2>1 DEF RequestsKept
<1>5. ASSUME NEW k \in Rental, rentals'[k] # Gone
      PROVE  /\ rentals'[k] \in RentalRow /\ rentals'[k].machine \in Machine
             /\ rentals'[k].start <= rentals'[k].end /\ equipment'[rentals'[k].machine] # Gone
             /\ rentals'[k].machine # m => rentals'[k] = rentals[k]
  <2>1. rentals'[k] \in RentalRow /\ rentals'[k].machine \in Machine
    BY <1>5 DEF RentalRow
  <2>2. CASE rentals'[k] = rentals[k]
    <3>1. rentals[k].start <= rentals[k].end /\ equipment[rentals[k].machine] # Gone
      BY <1>5, <2>2 DEF RentalsKept
    <3> QED BY <1>2, <2>1, <2>2, <3>1
  <2>3. CASE rentals'[k].machine = m /\ rentals'[k].start <= rentals'[k].end
    BY <1>2, <2>1, <2>3
  <2> QED BY <1>5, <2>2, <2>3
<1>6. RentalsKept'
  BY <1>5 DEF RentalsKept
<1>7. \A p \in Machine \ {m} : (p \in crossed' <=> p \in crossed) /\ (p \in miscounted' <=> p \in miscounted)
  OBVIOUS
<1>8. ASSUME NEW j \in Rental, NEW k \in Rental, j # k, rentals'[j] # Gone, rentals'[k] # Gone,
             rentals'[j].machine = rentals'[k].machine
      PROVE  Apart(rentals'[j], rentals'[k]) \/ rentals'[j].machine \in crossed'
  <2>1. CASE rentals'[j].machine = m
    BY <1>8, <2>1
  <2>2. CASE rentals'[j].machine # m
    <3>1. rentals'[j] = rentals[j] /\ rentals'[k] = rentals[k] /\ rentals[j].machine \in Machine \ {m}
      BY <1>5, <1>8, <2>2
    <3>2. Apart(rentals[j], rentals[k]) \/ rentals[j].machine \in crossed
      BY <1>8, <3>1 DEF RentalsApart
    <3> QED BY <1>7, <3>1, <3>2
  <2> QED BY <2>1, <2>2
<1>9. RentalsApart'
  BY <1>8 DEF RentalsApart, Apart
<1>10. ASSUME NEW p \in Machine, p \notin crossed', equipment'[p].deleted \/ LetFrom(p)', equipment'[p] # Gone
       PROVE  equipment'[p].project = NoWorkplace
  <2>1. CASE p = m
    BY <1>2, <1>10, <2>1
  <2>2. CASE p # m
    <3>1. equipment'[p] = equipment[p] /\ p \notin crossed
      BY <1>2, <1>7, <1>10, <2>2
    <3>2. LetFrom(p)' => LetFrom(p)
      BY <1>5, <2>2 DEF LetFrom
    <3> QED BY <1>10, <3>1, <3>2 DEF PlacedRight
  <2> QED BY <2>1, <2>2
<1>11. PlacedRight'
  BY <1>10 DEF PlacedRight
<1>12. ASSUME NEW p \in Machine
       PROVE  /\ equipment'[p] = Gone => \A d \in Date : usages'[p][d] = 0
              /\ equipment'[p] # Gone /\ p \notin miscounted' => equipment'[p].hours = TotalOf(usages'[p])
  <2>1. CASE p = m
    BY <1>2, <2>1
  <2>2. CASE p # m
    BY <1>2, <1>7, <2>2 DEF HoursKept
  <2> QED BY <2>1, <2>2
<1>13. HoursKept'
  BY <1>12 DEF HoursKept
<1> QED BY <1>3, <1>4, <1>6, <1>9, <1>11, <1>13

\* A step that leaves hours, rentals and requests alone.
LEMMA PlaceStep ==
    ASSUME FleetInv, NEW m \in Machine, NEW row \in EquipmentRow,
           equipment' = [equipment EXCEPT ![m] = row],
           UNCHANGED <<usages, rentals, now, requesting, miscounted>>, served' \in Nat,
           services' \in [Service -> ServiceRow \cup {Gone}],
           crossed' = crossed \/ crossed' = crossed \cup {m},
           row.hours = IF equipment[m] = Gone THEN 0 ELSE equipment[m].hours,
           m \notin crossed' /\ (row.deleted \/ LetFrom(m)) => row.project = NoWorkplace
    PROVE  FleetInv'
<1>1. usages[m] \in [Date -> Nat] /\ usages' = [usages EXCEPT ![m] = usages[m]]
      /\ rentals \in [Rental -> RentalRow \cup {Gone}]
  BY DEF FleetInv, FleetTypeOK
<1>2. RequestsShaped'
  BY DEF FleetInv, RequestsShaped
<1>3. m \notin miscounted => row.hours = TotalOf(usages[m])
  <2>1. CASE equipment[m] = Gone
    <3>1. \A d \in Date : usages[m][d] = 0
      BY <2>1 DEF FleetInv, HoursKept
    <3>2. TotalOf(usages[m]) = 0
      BY <1>1, <3>1, TotalZero, DaysFinite
    <3> QED BY <2>1, <3>2
  <2>2. CASE equipment[m] # Gone
    BY <2>2 DEF FleetInv, HoursKept
  <2> QED BY <2>1, <2>2
<1>4. LetFrom(m)' <=> LetFrom(m)
  BY DEF LetFrom
<1>5. \A k \in Rental : rentals'[k] \in {rentals[k], Gone}
  OBVIOUS
<1>6. m \notin crossed' => \A j, k \in Rental :
          j # k /\ rentals'[j] # Gone /\ rentals'[k] # Gone /\ rentals'[j].machine = m /\ rentals'[k].machine = m
              => Apart(rentals'[j], rentals'[k])
  BY DEF FleetInv, RentalsApart
<1> QED BY <1>1, <1>2, <1>3, <1>4, <1>5, <1>6, FleetStep

LEMMA PlaceInv ==
    ASSUME FleetInv, served' \in Nat, NEW m \in Machine, NEW c \in EquipmentCondition,
           NEW p \in Workplace \cup {NoWorkplace},
           \/ CreateEquipment(m, c, p) \/ UpdateEquipment(m, c, p)
           \/ SoftDelete(m) \/ Restore(m) \/ DeallocateEquipment(m)
           \/ p \in Workplace /\ (AllocateEquipment(m, p) \/ TransferEquipment(m, p))
    PROVE  FleetInv'
<1>0. equipment \in [Machine -> EquipmentRow \cup {Gone}] /\ services \in [Service -> ServiceRow \cup {Gone}]
      /\ NoWorkplace \in Workplace \cup {NoWorkplace}
  BY DEF FleetInv, FleetTypeOK
<1>u. UNCHANGED <<usages, services, rentals, now, requesting, miscounted>>
  BY DEF CreateEquipment, UpdateEquipment, SoftDelete, Restore, DeallocateEquipment, AllocateEquipment, TransferEquipment
<1>s. services' \in [Service -> ServiceRow \cup {Gone}]
  BY <1>0, <1>u
<1>l. LetOn(m, now, rentals) \/ LetLater(m, rentals) <=> LetFrom(m)
  BY LetMeansFrom DEF FleetInv
<1>k. m \notin crossed /\ equipment[m] # Gone /\ (equipment[m].deleted \/ LetFrom(m)) => equipment[m].project = NoWorkplace
  BY DEF FleetInv, PlacedRight
<1>1. CASE CreateEquipment(m, c, p)
  <2>1. PICK first : first = [condition |-> c, status |-> "AVAILABLE", project |-> p, hours |-> 0, deleted |-> FALSE]
    OBVIOUS
  <2>2. first \in EquipmentRow /\ first.hours = 0 /\ first.deleted = FALSE
    BY <2>1 DEF EquipmentRow, EquipmentStatus
  <2>3. PICK row \in EquipmentRow : row = Recalculated(m, first, services, rentals) /\ row.hours = 0 /\ row.deleted = FALSE
    BY <2>2, RecalculatedRow
  <2>4. equipment[m] = Gone /\ equipment' = [equipment EXCEPT ![m] = row] /\ crossed' = crossed
    BY <1>1, <2>1, <2>3 DEF CreateEquipment
  <2>5. ~LetFrom(m)
    BY <2>4 DEF LetFrom, FleetInv, RentalsKept
  <2> QED BY <1>s, <1>u, <2>3, <2>4, <2>5, PlaceStep
<1>2. CASE UpdateEquipment(m, c, p)
  <2>0. equipment[m] \in EquipmentRow /\ equipment[m] # Gone
    BY <1>0, <1>2 DEF UpdateEquipment, Active
  <2>1. PICK first : first = [equipment[m] EXCEPT !.condition = c, !.project = p]
    OBVIOUS
  <2>2. first \in EquipmentRow /\ first.hours = equipment[m].hours /\ first.deleted = equipment[m].deleted /\ first.project = p
    BY <2>0, <2>1 DEF EquipmentRow
  <2>3. PICK row \in EquipmentRow : /\ row = Recalculated(m, first, services, rentals) /\ row.hours = equipment[m].hours
                                    /\ row.deleted = equipment[m].deleted /\ row.project = p
    BY <2>2, RecalculatedRow
  <2>4. equipment' = [equipment EXCEPT ![m] = row]
        /\ crossed' = IF p # equipment[m].project THEN crossed \cup {m} ELSE crossed
    BY <1>0, <1>2, <2>1, <2>3 DEF UpdateEquipment
  <2>5. m \notin crossed' /\ (row.deleted \/ LetFrom(m)) => row.project = NoWorkplace
    BY <1>k, <2>0, <2>3, <2>4
  <2> QED BY <1>s, <1>u, <2>0, <2>3, <2>4, <2>5, PlaceStep
<1>3. CASE SoftDelete(m)
  <2>0. equipment[m] \in EquipmentRow /\ equipment[m] # Gone /\ equipment[m].project = NoWorkplace
    BY <1>0, <1>3 DEF SoftDelete, Active
  <2>1. PICK row : row = [equipment[m] EXCEPT !.deleted = TRUE]
    OBVIOUS
  <2>2. row \in EquipmentRow /\ row.hours = equipment[m].hours /\ row.project = NoWorkplace
    BY <2>0, <2>1 DEF EquipmentRow
  <2>3. equipment' = [equipment EXCEPT ![m] = row] /\ crossed' = crossed
    BY <1>0, <1>3, <2>1 DEF SoftDelete
  <2> QED BY <1>s, <1>u, <2>0, <2>2, <2>3, PlaceStep
<1>4. CASE Restore(m)
  <2>0. equipment[m] \in EquipmentRow /\ equipment[m] # Gone /\ equipment[m].deleted
    BY <1>0, <1>4 DEF Restore
  <2>1. PICK first \in EquipmentRow : /\ first = Recalculated(m, equipment[m], services, rentals)
                                      /\ first.hours = equipment[m].hours /\ first.project = equipment[m].project
    BY <2>0, RecalculatedRow
  <2>2. PICK row : row = [first EXCEPT !.deleted = FALSE]
    OBVIOUS
  <2>3. row \in EquipmentRow /\ row.hours = equipment[m].hours /\ row.project = equipment[m].project
    BY <2>1, <2>2 DEF EquipmentRow
  <2>4. equipment' = [equipment EXCEPT ![m] = row] /\ crossed' = crossed
    BY <1>0, <1>4, <2>1, <2>2 DEF Restore
  <2>5. m \notin crossed' => row.project = NoWorkplace
    BY <1>k, <2>0, <2>3, <2>4
  <2> QED BY <1>s, <1>u, <2>0, <2>3, <2>4, <2>5, PlaceStep
<1>5. CASE DeallocateEquipment(m)
  <2>0. equipment[m] \in EquipmentRow /\ equipment[m] # Gone
    BY <1>0, <1>5 DEF DeallocateEquipment, Active
  <2>1. PICK status \in EquipmentStatus : status = IF LetLater(m, rentals) THEN "IDLE" ELSE "AVAILABLE"
    BY DEF EquipmentStatus
  <2>2. PICK row : row = [equipment[m] EXCEPT !.project = NoWorkplace, !.status = status]
    OBVIOUS
  <2>3. row \in EquipmentRow /\ row.hours = equipment[m].hours /\ row.project = NoWorkplace
    BY <2>0, <2>2 DEF EquipmentRow
  <2>4. equipment' = [equipment EXCEPT ![m] = row] /\ crossed' = crossed
    BY <1>0, <1>5, <2>1, <2>2 DEF DeallocateEquipment
  <2> QED BY <1>s, <1>u, <2>0, <2>3, <2>4, PlaceStep
<1>6. CASE p \in Workplace /\ AllocateEquipment(m, p)
  <2>0. equipment[m] \in EquipmentRow /\ equipment[m] # Gone /\ ~equipment[m].deleted /\ ~LetFrom(m)
    BY <1>0, <1>6, <1>l DEF AllocateEquipment, MayAllocate, UsableBy, Active, Unreserved
  <2>1. PICK row : row = [equipment[m] EXCEPT !.project = p, !.status = "IN_PROJECT"]
    OBVIOUS
  <2>2. row \in EquipmentRow /\ row.hours = equipment[m].hours /\ row.deleted = equipment[m].deleted
    BY <2>0, <2>1 DEF EquipmentRow, EquipmentStatus
  <2>3. equipment' = [equipment EXCEPT ![m] = row] /\ crossed' = crossed
    BY <1>0, <1>6, <2>1 DEF AllocateEquipment, Allocated
  <2> QED BY <1>s, <1>u, <2>0, <2>2, <2>3, PlaceStep
<1>7. CASE p \in Workplace /\ TransferEquipment(m, p)
  <2>0. equipment[m] \in EquipmentRow /\ equipment[m] # Gone /\ ~equipment[m].deleted /\ equipment[m].project # NoWorkplace
    BY <1>0, <1>7 DEF TransferEquipment, UsableBy, Active
  <2>1. PICK first : first = [equipment[m] EXCEPT !.project = p]
    OBVIOUS
  <2>2. first \in EquipmentRow /\ first.hours = equipment[m].hours /\ first.deleted = equipment[m].deleted
    BY <2>0, <2>1 DEF EquipmentRow
  <2>3. PICK row \in EquipmentRow : /\ row = Recalculated(m, first, services, rentals)
                                    /\ row.hours = equipment[m].hours /\ row.deleted = equipment[m].deleted
    BY <2>2, RecalculatedRow
  <2>4. equipment' = [equipment EXCEPT ![m] = row] /\ crossed' = crossed
    BY <1>0, <1>7, <2>1, <2>3 DEF TransferEquipment
  <2>5. m \notin crossed' => ~LetFrom(m)
    BY <1>k, <2>0, <2>4
  <2> QED BY <1>s, <1>u, <2>0, <2>3, <2>4, <2>5, PlaceStep
<1> QED BY <1>1, <1>2, <1>3, <1>4, <1>5, <1>6, <1>7

\* A service of the machine: only the status of the machine changes.
LEMMA SetServicesInv ==
    ASSUME FleetInv, served' \in Nat, NEW m \in Machine, Active(m),
           NEW table \in [Service -> ServiceRow \cup {Gone}], SetServices(m, table)
    PROVE  FleetInv'
<1>0. equipment \in [Machine -> EquipmentRow \cup {Gone}] /\ equipment[m] \in EquipmentRow /\ equipment[m] # Gone
  BY DEF FleetInv, FleetTypeOK, Active
<1>1. PICK row \in EquipmentRow : /\ row = Recalculated(m, equipment[m], table, rentals) /\ row.hours = equipment[m].hours
                                  /\ row.deleted = equipment[m].deleted /\ row.project = equipment[m].project
  BY <1>0, RecalculatedRow
<1>2. /\ equipment' = [equipment EXCEPT ![m] = row] /\ services' = table
      /\ UNCHANGED <<usages, rentals, now, requesting, miscounted, crossed>>
  BY <1>1 DEF SetServices, Refreshed
<1>3. m \notin crossed /\ (row.deleted \/ LetFrom(m)) => row.project = NoWorkplace
  BY <1>0, <1>1 DEF FleetInv, PlacedRight
<1> QED BY <1>0, <1>1, <1>2, <1>3, PlaceStep

LEMMA ServiceInv ==
    ASSUME FleetInv, served' \in Nat, NEW k \in Service, NEW m \in Machine, NEW d \in Date,
           CreateMaintenance(k, m, d) \/ UpdateMaintenance(k, d) \/ CompleteMaintenance(k) \/ DeleteMaintenance(k)
    PROVE  FleetInv'
<1>0. services \in [Service -> ServiceRow \cup {Gone}]
  BY DEF FleetInv, FleetTypeOK
<1>1. CASE CreateMaintenance(k, m, d)
  <2>1. [services EXCEPT ![k] = [machine |-> m, date |-> d, status |-> "due"]] \in [Service -> ServiceRow \cup {Gone}]
    BY <1>0 DEF ServiceRow
  <2> QED BY <1>1, <2>1, SetServicesInv DEF CreateMaintenance
<1>2. ASSUME NEW status, ServiceOf(k, status)
      PROVE  services[k] \in ServiceRow /\ services[k].machine \in Machine /\ Active(services[k].machine)
  BY <1>0, <1>2 DEF ServiceOf, ServiceRow
<1>3. CASE UpdateMaintenance(k, d)
  <2>1. services[k] \in ServiceRow /\ services[k].machine \in Machine /\ Active(services[k].machine)
    BY <1>2, <1>3 DEF UpdateMaintenance
  <2>2. [services EXCEPT ![k].date = d] \in [Service -> ServiceRow \cup {Gone}]
    BY <1>0, <2>1 DEF ServiceRow
  <2> QED BY <1>3, <2>1, <2>2, SetServicesInv DEF UpdateMaintenance
<1>4. CASE CompleteMaintenance(k)
  <2>1. services[k] \in ServiceRow /\ services[k].machine \in Machine /\ Active(services[k].machine)
    BY <1>2, <1>4 DEF CompleteMaintenance
  <2>2. [services EXCEPT ![k].status = "done"] \in [Service -> ServiceRow \cup {Gone}]
    BY <1>0, <2>1 DEF ServiceRow
  <2> QED BY <1>4, <2>1, <2>2, SetServicesInv DEF CompleteMaintenance
<1>5. CASE DeleteMaintenance(k)
  <2>1. services[k] \in ServiceRow /\ services[k].machine \in Machine /\ Active(services[k].machine)
    BY <1>2, <1>5 DEF DeleteMaintenance
  <2>2. [services EXCEPT ![k] = Gone] \in [Service -> ServiceRow \cup {Gone}]
    BY <1>0
  <2> QED BY <1>5, <2>1, <2>2, SetServicesInv DEF DeleteMaintenance
<1> QED BY <1>1, <1>3, <1>4, <1>5

-----------------------------------------------------------------------------
\* Hours of the machine.
LEMMA UsageStep ==
    ASSUME FleetInv, served' \in Nat, NEW m \in Machine, NEW row \in EquipmentRow, NEW days \in [Date -> Nat],
           equipment[m] # Gone, RequestsShaped',
           \A r \in Requesting : requesting'[r] = requesting[r] \/ requesting'[r] = NotRequesting,
           equipment' = [equipment EXCEPT ![m] = row], usages' = [usages EXCEPT ![m] = days],
           UNCHANGED <<services, rentals, now, crossed>>,
           miscounted' = miscounted \/ miscounted' = miscounted \cup {m},
           m \notin miscounted' => row.hours = TotalOf(days),
           row.project = equipment[m].project, row.deleted = equipment[m].deleted
    PROVE  FleetInv'
<1>1. services' \in [Service -> ServiceRow \cup {Gone}] /\ rentals' \in [Rental -> RentalRow \cup {Gone}]
  BY DEF FleetInv, FleetTypeOK
<1>2. LetFrom(m)' <=> LetFrom(m)
  BY DEF LetFrom
<1>3. m \notin crossed /\ (row.deleted \/ LetFrom(m)') => row.project = NoWorkplace
  BY <1>2 DEF FleetInv, PlacedRight
<1>4. \A k \in Rental : rentals'[k] \in {rentals[k], Gone}
  OBVIOUS
<1>5. m \notin crossed => \A j, k \in Rental :
          j # k /\ rentals'[j] # Gone /\ rentals'[k] # Gone /\ rentals'[j].machine = m /\ rentals'[k].machine = m
              => Apart(rentals'[j], rentals'[k])
  BY DEF FleetInv, RentalsApart
<1> QED BY <1>1, <1>3, <1>4, <1>5, FleetStep

LEMMA CreateUsageInv ==
    ASSUME FleetInv, served' \in Nat, NEW m \in Machine, NEW d \in Date, NEW h \in Hours, CreateUsage(m, d, h)
    PROVE  FleetInv'
<1>0. /\ equipment \in [Machine -> EquipmentRow \cup {Gone}] /\ usages[m] \in [Date -> Nat]
      /\ usages \in [Machine -> [Date -> Nat]]
      /\ equipment[m] \in EquipmentRow /\ equipment[m] # Gone /\ usages[m][d] = 0
  BY DEF FleetInv, FleetTypeOK, CreateUsage, MayUse, UsableBy, Active
<1>1. h \in Nat /\ equipment[m].hours \in Nat
  BY <1>0, HoursAssumption DEF EquipmentRow
<1>2. PICK first : first = [equipment[m] EXCEPT !.hours = @ + h]
  OBVIOUS
<1>3. first \in EquipmentRow /\ first.hours = equipment[m].hours + h
      /\ first.deleted = equipment[m].deleted /\ first.project = equipment[m].project
  BY <1>0, <1>1, <1>2 DEF EquipmentRow
<1>4. PICK row \in EquipmentRow : /\ row = Recalculated(m, first, services, rentals) /\ row.hours = first.hours
                                  /\ row.deleted = first.deleted /\ row.project = first.project
  BY <1>3, RecalculatedRow
<1>5. PICK days \in [Date -> Nat] : days = [usages[m] EXCEPT ![d] = h]
  BY <1>0, <1>1
<1>6. equipment' = [equipment EXCEPT ![m] = row] /\ usages' = [usages EXCEPT ![m] = days]
      /\ UNCHANGED <<services, rentals, now, requesting, miscounted, crossed>>
  BY <1>0, <1>2, <1>4, <1>5 DEF CreateUsage, Used
<1>7. TotalOf(days) = TotalOf(usages[m]) - usages[m][d] + days[d]
  <2>1. Finitely(usages[m]) /\ DOMAIN usages[m] = Date /\ DOMAIN days = Date
    BY <1>0, DaysFinite
  <2>2. days[d] \in Int /\ \A x \in Date : x # d => days[x] = usages[m][x]
    BY <1>0, <1>5
  <2> QED BY <2>1, <2>2, TotalChanged
<1>8. days[d] = h /\ TotalOf(usages[m]) \in Int
  BY <1>0, <1>5, DaysFinite, TotalInt
<1>9. m \notin miscounted => equipment[m].hours = TotalOf(usages[m])
  BY <1>0 DEF FleetInv, HoursKept
<1>10. m \notin miscounted => row.hours = TotalOf(days)
  BY <1>0, <1>1, <1>3, <1>4, <1>7, <1>8, <1>9
<1>11. RequestsShaped'
  BY <1>6 DEF FleetInv, RequestsShaped
<1> QED BY <1>0, <1>3, <1>4, <1>6, <1>10, <1>11, UsageStep

LEMMA UpdateUsageInv ==
    ASSUME FleetInv, served' \in Nat, NEW m \in Machine, NEW d \in Date, NEW d2 \in Date, NEW h \in Hours,
           UpdateUsage(m, d, d2, h)
    PROVE  FleetInv'
<1>0. /\ equipment \in [Machine -> EquipmentRow \cup {Gone}] /\ usages[m] \in [Date -> Nat]
      /\ usages \in [Machine -> [Date -> Nat]]
      /\ equipment[m] \in EquipmentRow /\ equipment[m] # Gone /\ (d2 # d => usages[m][d2] = 0)
  BY DEF FleetInv, FleetTypeOK, UpdateUsage, Active
<1>1. h \in Nat /\ equipment[m].hours \in Nat /\ usages[m][d] \in Nat
  BY <1>0, HoursAssumption DEF EquipmentRow
<1>2. PICK n : n = Recounted(equipment[m].hours, usages[m][d], h)
  OBVIOUS
<1>3. n \in Nat /\ (usages[m][d] <= equipment[m].hours => n = equipment[m].hours - usages[m][d] + h)
  BY <1>1, <1>2 DEF Recounted
<1>4. PICK row : row = [equipment[m] EXCEPT !.hours = n]
  OBVIOUS
<1>5. row \in EquipmentRow /\ row.hours = n /\ row.deleted = equipment[m].deleted /\ row.project = equipment[m].project
  BY <1>0, <1>3, <1>4 DEF EquipmentRow
<1>6. PICK rest \in [Date -> Nat] : rest = [usages[m] EXCEPT ![d] = 0]
  BY <1>0
<1>7. PICK days \in [Date -> Nat] : days = [rest EXCEPT ![d2] = h]
  BY <1>1
<1>8. equipment' = [equipment EXCEPT ![m] = row]
  BY <1>0, <1>2, <1>4 DEF UpdateUsage
<1>9. usages' = [usages EXCEPT ![m] = days] /\ UNCHANGED <<services, rentals, now, requesting, miscounted, crossed>>
  BY <1>0, <1>6, <1>7 DEF UpdateUsage
<1>10. Finitely(usages[m]) /\ DOMAIN usages[m] = Date /\ Finitely(rest) /\ DOMAIN rest = Date
       /\ DOMAIN days = Date
  BY <1>0, DaysFinite
<1>11. rest[d] = 0 /\ rest[d2] = 0 /\ days[d2] = h
       /\ (\A x \in Date : x # d => rest[x] = usages[m][x]) /\ (\A x \in Date : x # d2 => days[x] = rest[x])
  BY <1>0, <1>6, <1>7
<1>12. TotalOf(rest) = TotalOf(usages[m]) - usages[m][d] + rest[d]
  BY <1>10, <1>11, TotalChanged
<1>13. TotalOf(days) = TotalOf(rest) - rest[d2] + days[d2]
  BY <1>1, <1>10, <1>11, TotalChanged
<1>14. TotalOf(rest) \in Nat /\ TotalOf(usages[m]) \in Int
  BY <1>0, <1>10, TotalNat, TotalInt
<1>15. m \notin miscounted => equipment[m].hours = TotalOf(usages[m])
  BY <1>0 DEF FleetInv, HoursKept
<1>16. m \notin miscounted => row.hours = TotalOf(days)
  BY <1>1, <1>3, <1>5, <1>11, <1>12, <1>13, <1>14, <1>15
<1>17. RequestsShaped'
  BY <1>9 DEF FleetInv, RequestsShaped
<1> QED BY <1>0, <1>5, <1>8, <1>9, <1>16, <1>17, UsageStep

-----------------------------------------------------------------------------
\* A rental of the machine: the new rows of both.
LEMMA RentalStep ==
    ASSUME FleetInv, served' \in Nat, NEW m \in Machine, NEW row \in EquipmentRow, NEW k \in Rental,
           NEW new \in RentalRow \cup {Gone},
           equipment[m] # Gone, RequestsShaped',
           \A r \in Requesting : requesting'[r] = requesting[r] \/ requesting'[r] = NotRequesting,
           equipment' = [equipment EXCEPT ![m] = row], rentals' = [rentals EXCEPT ![k] = new],
           UNCHANGED <<usages, services, now, miscounted>>,
           crossed' = crossed \/ crossed' = crossed \cup {m},
           row.hours = equipment[m].hours,
           rentals[k] = Gone \/ rentals[k].machine = m,
           new # Gone => new.machine = m /\ new.start <= new.end,
           new # Gone /\ m \notin crossed' => \A j \in Rental \ {k} :
               rentals[j] # Gone /\ rentals[j].machine = m => Apart(new, rentals[j]),
           m \notin crossed' =>
               \/ row.project = NoWorkplace
               \/ /\ row.project = equipment[m].project /\ row.deleted = equipment[m].deleted
                  /\ (new # Gone /\ new.status = "running" /\ new.end >= now =>
                         rentals[k] # Gone /\ rentals[k].status = "running" /\ rentals[k].end >= now)
    PROVE  FleetInv'
<1>0. /\ services' \in [Service -> ServiceRow \cup {Gone}] /\ rentals \in [Rental -> RentalRow \cup {Gone}]
      /\ usages[m] \in [Date -> Nat] /\ usages' = [usages EXCEPT ![m] = usages[m]]
  BY DEF FleetInv, FleetTypeOK
<1>1. rentals' \in [Rental -> RentalRow \cup {Gone}] /\ rentals'[k] = new
      /\ \A j \in Rental \ {k} : rentals'[j] = rentals[j]
  BY <1>0
<1>2. m \notin miscounted => row.hours = TotalOf(usages[m])
  BY DEF FleetInv, HoursKept
<1>3. ASSUME m \notin crossed', row.deleted \/ LetFrom(m)' PROVE row.project = NoWorkplace
  <2>1. CASE row.project = NoWorkplace
    BY <2>1
  <2>2. CASE /\ row.project = equipment[m].project /\ row.deleted = equipment[m].deleted
             /\ (new # Gone /\ new.status = "running" /\ new.end >= now =>
                    rentals[k] # Gone /\ rentals[k].status = "running" /\ rentals[k].end >= now)
    <3>1. LetFrom(m)' => LetFrom(m)
      BY <1>1, <2>2 DEF LetFrom
    <3> QED BY <1>3, <2>2, <3>1 DEF FleetInv, PlacedRight
  <2> QED BY <1>3, <2>1, <2>2
<1>4. \A j \in Rental : \/ rentals'[j] \in {rentals[j], Gone}
                         \/ (rentals'[j].machine = m /\ rentals'[j].start <= rentals'[j].end)
  BY <1>1
<1>5. ASSUME m \notin crossed', NEW i \in Rental, NEW j \in Rental, i # j, rentals'[i] # Gone, rentals'[j] # Gone,
             rentals'[i].machine = m, rentals'[j].machine = m
      PROVE  Apart(rentals'[i], rentals'[j])
  <2>0. m \notin crossed
    BY <1>5
  <2>1. CASE i # k /\ j # k
    <3>1. rentals'[i] = rentals[i] /\ rentals'[j] = rentals[j]
      BY <1>1, <2>1
    <3> QED BY <1>5, <2>0, <3>1 DEF FleetInv, RentalsApart
  <2>2. CASE i = k
    BY <1>1, <1>5, <2>2 DEF Apart
  <2>3. CASE j = k
    BY <1>1, <1>5, <2>3 DEF Apart
  <2> QED BY <2>1, <2>2, <2>3
<1>6. m \notin crossed' => \A i, j \in Rental :
          i # j /\ rentals'[i] # Gone /\ rentals'[j] # Gone /\ rentals'[i].machine = m /\ rentals'[j].machine = m
              => Apart(rentals'[i], rentals'[j])
  BY <1>5
<1> QED BY <1>0, <1>1, <1>2, <1>3, <1>4, <1>6, FleetStep

LEMMA LetRow ==
    ASSUME NEW m, equipment[m] \in EquipmentRow, NEW s, NEW e
    PROVE  /\ Let(m, s, e) \in EquipmentRow /\ Let(m, s, e).project = NoWorkplace
           /\ Let(m, s, e).hours = equipment[m].hours /\ SameBut(Let(m, s, e), equipment[m])
<1>1. PICK status \in EquipmentStatus :
          status = IF s <= now /\ now <= e THEN "RENTED" ELSE IF s > now THEN "IDLE" ELSE "AVAILABLE"
  BY DEF EquipmentStatus
<1>2. PICK row : row = [equipment[m] EXCEPT !.project = NoWorkplace, !.status = status]
  OBVIOUS
<1>3. row \in EquipmentRow /\ row.project = NoWorkplace /\ row.hours = equipment[m].hours
      /\ row.deleted = equipment[m].deleted /\ row.condition = equipment[m].condition
  BY <1>2 DEF EquipmentRow
<1>4. Let(m, s, e) = row
  BY <1>1, <1>2 DEF Let
<1> QED BY <1>3, <1>4 DEF SameBut

LEMMA FreeMeansApart ==
    ASSUME FleetTypeOK, NEW m, NEW s, NEW e, NEW others \in SUBSET Rental, FreeBetween(m, s, e, others),
           NEW j \in others, rentals[j] # Gone, rentals[j].machine = m
    PROVE  e < rentals[j].start \/ rentals[j].end < s
BY DEF FreeBetween, RentalsOf, Present, FleetTypeOK

LEMMA CreateRentalInv ==
    ASSUME FleetInv, served' \in Nat, NEW m \in Machine, NEW k \in Rental, NEW s \in Date, NEW e \in Date,
           CreateRental(k, m, s, e)
    PROVE  FleetInv'
<1>0. equipment[m] \in EquipmentRow /\ equipment[m] # Gone /\ FleetTypeOK
  BY DEF FleetInv, FleetTypeOK, CreateRental, MayLet, UsableBy, Active
<1>1. PICK row \in EquipmentRow : row = Let(m, s, e) /\ row.project = NoWorkplace /\ row.hours = equipment[m].hours
  BY <1>0, LetRow
<1>2. PICK new : new = NewRental(m, s, e)
  OBVIOUS
<1>3. new \in RentalRow /\ new.machine = m /\ new.start = s /\ new.end = e
  BY <1>2 DEF NewRental, RentalRow, RentalStatus
<1>4. /\ rentals[k] = Gone /\ s <= e /\ FreeBetween(m, s, e, Rental)
      /\ rentals' = [rentals EXCEPT ![k] = new] /\ equipment' = [equipment EXCEPT ![m] = row]
      /\ UNCHANGED <<usages, services, now, requesting, miscounted, crossed>>
  BY <1>1, <1>2 DEF CreateRental, MayLet
<1>5. \A j \in Rental \ {k} : rentals[j] # Gone /\ rentals[j].machine = m => Apart(new, rentals[j])
  BY <1>0, <1>3, <1>4, FreeMeansApart DEF Apart
<1>6. RequestsShaped'
  BY <1>4 DEF FleetInv, RequestsShaped
<1> QED BY <1>0, <1>1, <1>3, <1>4, <1>5, <1>6, RentalStep

\* A rental the handler has found, and the new row of it.
LEMMA SetRentalInv ==
    ASSUME FleetInv, served' \in Nat, NEW k \in Rental, NEW new \in RentalRow \cup {Gone}, NEW m \in Machine,
           rentals[k] # Gone, rentals[k].machine = m, NEW row \in EquipmentRow, equipment[m] # Gone,
           equipment' = [equipment EXCEPT ![m] = row], rentals' = [rentals EXCEPT ![k] = new],
           UNCHANGED <<usages, services, now, requesting, miscounted, crossed>>,
           row.hours = equipment[m].hours, row.project = equipment[m].project, row.deleted = equipment[m].deleted,
           new # Gone => new.machine = m /\ new.start <= new.end,
           new # Gone => \A j \in Rental \ {k} :
               rentals[j] # Gone /\ rentals[j].machine = m /\ m \notin crossed => Apart(new, rentals[j]),
           new # Gone /\ new.status = "running" /\ new.end >= now =>
               rentals[k].status = "running" /\ rentals[k].end >= now
    PROVE  FleetInv'
<1>1. RequestsShaped'
  BY DEF FleetInv, RequestsShaped
<1> QED BY <1>1, RentalStep

LEMMA RentalFound ==
    ASSUME FleetInv, NEW k \in Rental, rentals[k] # Gone
    PROVE  /\ rentals[k] \in RentalRow /\ rentals[k].machine \in Machine
           /\ rentals[k].start \in Int /\ rentals[k].end \in Int /\ rentals[k].start <= rentals[k].end
           /\ equipment[rentals[k].machine] \in EquipmentRow /\ equipment[rentals[k].machine] # Gone
           /\ \A j \in Rental \ {k} :
                  rentals[j] # Gone /\ rentals[j].machine = rentals[k].machine /\ rentals[k].machine \notin crossed
                      => Apart(rentals[k], rentals[j])
<1>1. rentals[k] \in RentalRow /\ rentals[k].machine \in Machine /\ rentals[k].start \in Date /\ rentals[k].end \in Date
  BY DEF FleetInv, FleetTypeOK, RentalRow
<1>2. rentals[k].start <= rentals[k].end /\ equipment[rentals[k].machine] # Gone
  BY DEF FleetInv, RentalsKept
<1>3. equipment[rentals[k].machine] \in EquipmentRow
  BY <1>1, <1>2 DEF FleetInv, FleetTypeOK
<1>4. \A j \in Rental \ {k} :
          rentals[j] # Gone /\ rentals[j].machine = rentals[k].machine /\ rentals[k].machine \notin crossed
              => Apart(rentals[k], rentals[j])
  BY DEF FleetInv, RentalsApart
<1> QED BY <1>1, <1>2, <1>3, <1>4, HorizonAssumption DEF Date

LEMMA SetRentalsRow ==
    ASSUME FleetInv, NEW m \in Machine, equipment[m] \in EquipmentRow, NEW table, SetRentals(m, table)
    PROVE  \E row \in EquipmentRow :
               /\ row.hours = equipment[m].hours /\ row.project = equipment[m].project /\ row.deleted = equipment[m].deleted
               /\ equipment' = [equipment EXCEPT ![m] = row] /\ rentals' = table
               /\ UNCHANGED <<usages, services, now, requesting, miscounted, crossed>>
<1>1. PICK row \in EquipmentRow : /\ row = Recalculated(m, equipment[m], services, table) /\ row.hours = equipment[m].hours
                                  /\ row.deleted = equipment[m].deleted /\ row.project = equipment[m].project
  BY RecalculatedRow
<1> QED BY <1>1 DEF SetRentals, Refreshed

LEMMA ChangeRentalInv ==
    ASSUME FleetInv, served' \in Nat, NEW k \in Rental, NEW s \in Date, NEW e \in Date,
           UpdateRental(k, s, e) \/ DeleteRental(k) \/ CompleteRental(k)
    PROVE  FleetInv'
<1>0. rentals[k] # Gone /\ rentals \in [Rental -> RentalRow \cup {Gone}] /\ now \in Date /\ now \in Int /\ FleetTypeOK
  BY HorizonAssumption DEF UpdateRental, DeleteRental, CompleteRental, RentalOf, FleetInv, FleetTypeOK, Date
<1>1. PICK old \in RentalRow, m \in Machine : old = rentals[k] /\ m = old.machine
  BY <1>0, RentalFound
<1>2. /\ old.start \in Int /\ old.end \in Int /\ old.start <= old.end
      /\ equipment[m] \in EquipmentRow /\ equipment[m] # Gone
      /\ \A j \in Rental \ {k} : rentals[j] # Gone /\ rentals[j].machine = m /\ m \notin crossed => Apart(old, rentals[j])
  BY <1>0, <1>1, RentalFound
<1>3. PICK new \in RentalRow \cup {Gone} :
          /\ SetRentals(m, [rentals EXCEPT ![k] = new])
          /\ new # Gone => new.machine = m /\ new.start <= new.end
          /\ new # Gone => \A j \in Rental \ {k} :
                 rentals[j] # Gone /\ rentals[j].machine = m /\ m \notin crossed => Apart(new, rentals[j])
          /\ new # Gone /\ new.status = "running" /\ new.end >= now => old.status = "running" /\ old.end >= now
  <2>1. CASE UpdateRental(k, s, e)
    <3>1. PICK new : new = [old EXCEPT !.start = s, !.end = e]
      OBVIOUS
    <3>2. new \in RentalRow /\ new.machine = m /\ new.start = s /\ new.end = e /\ new.status = old.status
      BY <1>1, <3>1 DEF RentalRow
    <3>3. /\ SetRentals(m, [rentals EXCEPT ![k].start = s, ![k].end = e])
          /\ old.end >= now /\ s <= e /\ FreeBetween(m, s, e, Rental \ {k})
      BY <1>1, <2>1 DEF UpdateRental
    <3>4. [rentals EXCEPT ![k].start = s, ![k].end = e] = [rentals EXCEPT ![k] = new]
      BY <1>0, <1>1, <3>1
    <3>5. \A j \in Rental \ {k} : rentals[j] # Gone /\ rentals[j].machine = m => Apart(new, rentals[j])
      <4>1. Rental \ {k} \in SUBSET Rental
        OBVIOUS
      <4> QED BY <1>0, <3>2, <3>3, <4>1, FreeMeansApart DEF Apart
    <3> QED BY <3>2, <3>3, <3>4, <3>5
  <2>2. CASE DeleteRental(k)
    <3>1. SetRentals(m, [rentals EXCEPT ![k] = Gone])
      BY <1>1, <2>2 DEF DeleteRental
    <3> QED BY <3>1
  <2>3. CASE CompleteRental(k)
    <3>1. PICK new : new = [old EXCEPT !.status = "completed", !.end = now]
      OBVIOUS
    <3>2. new \in RentalRow /\ new.machine = m /\ new.start = old.start /\ new.end = now /\ new.status = "completed"
      BY <1>0, <1>1, <3>1 DEF RentalRow, RentalStatus
    <3>3. SetRentals(m, [rentals EXCEPT ![k].status = "completed", ![k].end = now]) /\ old.start <= now /\ now <= old.end
      BY <1>1, <2>3 DEF CompleteRental, Covers
    <3>4. [rentals EXCEPT ![k].status = "completed", ![k].end = now] = [rentals EXCEPT ![k] = new]
      BY <1>0, <1>1, <3>1
    <3>5. \A j \in Rental \ {k} : rentals[j] # Gone /\ rentals[j].machine = m /\ m \notin crossed => Apart(new, rentals[j])
      <4>1. ASSUME NEW j \in Rental \ {k}, rentals[j] # Gone, rentals[j].machine = m, m \notin crossed
            PROVE  Apart(new, rentals[j])
        <5>1. Apart(old, rentals[j]) /\ rentals[j].start \in Int /\ rentals[j].end \in Int
          BY <1>2, <4>1, RentalFound
        <5> QED BY <1>0, <1>2, <3>2, <3>3, <5>1 DEF Apart
      <4> QED BY <4>1
    <3> QED BY <3>2, <3>3, <3>4, <3>5
  <2> QED BY <2>1, <2>2, <2>3
<1>4. PICK row \in EquipmentRow :
          /\ row.hours = equipment[m].hours /\ row.project = equipment[m].project /\ row.deleted = equipment[m].deleted
          /\ equipment' = [equipment EXCEPT ![m] = row] /\ rentals' = [rentals EXCEPT ![k] = new]
          /\ UNCHANGED <<usages, services, now, requesting, miscounted, crossed>>
  BY <1>2, <1>3, SetRentalsRow
<1> QED BY <1>0, <1>1, <1>2, <1>3, <1>4, SetRentalInv

LEMMA InspectionInv ==
    ASSUME FleetInv, served' \in Nat, NEW m \in Machine, NEW k \in Rental, NEW c \in EquipmentCondition,
           CreateInspection(m, k, c) \/ GenerateInvoice(k)
    PROVE  FleetInv'
<1>0. rentals \in [Rental -> RentalRow \cup {Gone}] /\ equipment \in [Machine -> EquipmentRow \cup {Gone}]
  BY DEF FleetInv, FleetTypeOK
<1>1. rentals[k] # Gone
  BY <1>0 DEF CreateInspection, GenerateInvoice, RentalOf, RentalsOf, Present
<1>2. PICK old \in RentalRow, p \in Machine : old = rentals[k] /\ p = old.machine
  BY <1>1, RentalFound
<1>3. /\ old.start \in Int /\ old.end \in Int /\ old.start <= old.end
      /\ equipment[p] \in EquipmentRow /\ equipment[p] # Gone
      /\ \A j \in Rental \ {k} : rentals[j] # Gone /\ rentals[j].machine = p /\ p \notin crossed => Apart(old, rentals[j])
  BY <1>1, <1>2, RentalFound
<1>4. CASE CreateInspection(m, k, c)
  <2>1. p = m
    BY <1>2, <1>4 DEF CreateInspection, RentalsOf
  <2>2. PICK new : new = [old EXCEPT !.inspected = TRUE]
    OBVIOUS
  <2>3. new \in RentalRow /\ new.machine = p /\ new.start = old.start /\ new.end = old.end /\ new.status = old.status
    BY <1>2, <2>2 DEF RentalRow
  <2>4. PICK first : first = [equipment[m] EXCEPT !.condition = c]
    OBVIOUS
  <2>5. first \in EquipmentRow /\ first.hours = equipment[m].hours /\ first.deleted = equipment[m].deleted
        /\ first.project = equipment[m].project
    BY <1>3, <2>1, <2>4 DEF EquipmentRow
  <2>6. PICK table : table = [rentals EXCEPT ![k] = new]
    OBVIOUS
  <2>7. rentals' = table
    BY <1>0, <1>2, <1>4, <2>2, <2>6 DEF CreateInspection
  <2>8. PICK row \in EquipmentRow : /\ row = Recalculated(m, first, services, table) /\ row.hours = equipment[m].hours
                                    /\ row.deleted = equipment[m].deleted /\ row.project = equipment[m].project
    BY <2>5, RecalculatedRow
  <2>9. equipment' = [equipment EXCEPT ![m] = Recalculated(m, [@ EXCEPT !.condition = c], services, rentals')]
        /\ UNCHANGED <<usages, services, now, requesting, miscounted, crossed>>
    BY <1>4 DEF CreateInspection
  <2>10. equipment' = [equipment EXCEPT ![m] = row]
    BY <1>0, <2>4, <2>7, <2>8, <2>9
  <2>11. \A j \in Rental \ {k} : rentals[j] # Gone /\ rentals[j].machine = m /\ m \notin crossed => Apart(new, rentals[j])
    BY <1>3, <2>1, <2>3 DEF Apart
  <2>12. rentals[k].machine = m /\ equipment[m] # Gone /\ rentals' = [rentals EXCEPT ![k] = new]
         /\ row.hours = equipment[m].hours /\ row.project = equipment[m].project /\ row.deleted = equipment[m].deleted
    BY <1>2, <1>3, <2>1, <2>5, <2>6, <2>7, <2>8
  <2>13. /\ new # Gone => new.machine = m /\ new.start <= new.end
         /\ new # Gone => \A j \in Rental \ {k} :
                rentals[j] # Gone /\ rentals[j].machine = m /\ m \notin crossed => Apart(new, rentals[j])
         /\ new # Gone /\ new.status = "running" /\ new.end >= now =>
                rentals[k].status = "running" /\ rentals[k].end >= now
    BY <1>2, <1>3, <2>1, <2>3, <2>11
  <2>14. new \in RentalRow \cup {Gone}
    BY <2>3
  <2>15. UNCHANGED <<usages, services, now, requesting, miscounted, crossed>>
    BY <2>9
  <2>16. rentals[k] # Gone /\ row \in EquipmentRow /\ m \in Machine
    BY <1>1
  <2> QED BY <2>10, <2>12, <2>13, <2>14, <2>15, <2>16, SetRentalInv
<1>5. CASE GenerateInvoice(k)
  <2>1. PICK new : new = [old EXCEPT !.status = "invoiced"]
    OBVIOUS
  <2>2. new \in RentalRow /\ new.machine = p /\ new.start = old.start /\ new.end = old.end /\ new.status = "invoiced"
    BY <1>2, <2>1 DEF RentalRow, RentalStatus
  <2>3. rentals' = [rentals EXCEPT ![k] = new] /\ UNCHANGED <<equipment, usages, services, now, requesting, miscounted, crossed>>
    BY <1>0, <1>2, <1>5, <2>1 DEF GenerateInvoice
  <2>4. equipment' = [equipment EXCEPT ![p] = equipment[p]]
    BY <1>0, <2>3
  <2>5. \A j \in Rental \ {k} : rentals[j] # Gone /\ rentals[j].machine = p /\ p \notin crossed => Apart(new, rentals[j])
    BY <1>3, <2>2 DEF Apart
  <2> QED BY <1>1, <1>2, <1>3, <2>2, <2>3, <2>4, <2>5, SetRentalInv
<1> QED BY <1>4, <1>5

-----------------------------------------------------------------------------
LEMMA RequestEnds ==
    ASSUME FleetInv, NEW r \in Requesting, requesting' = [requesting EXCEPT ![r] = NotRequesting]
    PROVE  /\ RequestsShaped'
           /\ \A q \in Requesting : requesting'[q] = requesting[q] \/ requesting'[q] = NotRequesting
<1>1. requesting = [q \in Requesting |-> requesting[q]]
  BY DEF FleetInv, RequestsShaped
<1>2. requesting' = [q \in Requesting |-> requesting'[q]]
      /\ \A q \in Requesting : requesting'[q] = requesting[q] \/ requesting'[q] = NotRequesting
  BY <1>1
<1>3. \A q \in Requesting : requesting[q] = NotRequesting \/ RentalKept(requesting[q]) \/ UsageKept(requesting[q])
  BY DEF FleetInv, RequestsShaped
<1>4. \A q \in Requesting : requesting'[q] = NotRequesting \/ RentalKept(requesting'[q]) \/ UsageKept(requesting'[q])
  BY <1>2, <1>3
<1> QED BY <1>2, <1>4 DEF RequestsShaped

\* Only the columns that changed are written.
LEMMA WrittenRow ==
    ASSUME NEW old \in EquipmentRow, NEW to \in EquipmentRow, NEW from \in EquipmentRow
    PROVE  \E row \in EquipmentRow :
               /\ row = [f \in DOMAIN old |-> IF to[f] # from[f] THEN to[f] ELSE old[f]]
               /\ row.project = (IF to.project # from.project THEN to.project ELSE old.project)
               /\ row.hours = (IF to.hours # from.hours THEN to.hours ELSE old.hours)
               /\ row.deleted = (IF to.deleted # from.deleted THEN to.deleted ELSE old.deleted)
<1>1. PICK row : row = [f \in DOMAIN old |-> IF to[f] # from[f] THEN to[f] ELSE old[f]]
  OBVIOUS
<1>2. DOMAIN old = {"condition", "status", "project", "hours", "deleted"}
  BY DEF EquipmentRow
<1>3. /\ row.condition = (IF to.condition # from.condition THEN to.condition ELSE old.condition)
      /\ row.status = (IF to.status # from.status THEN to.status ELSE old.status)
      /\ row.project = (IF to.project # from.project THEN to.project ELSE old.project)
      /\ row.hours = (IF to.hours # from.hours THEN to.hours ELSE old.hours)
      /\ row.deleted = (IF to.deleted # from.deleted THEN to.deleted ELSE old.deleted)
  BY <1>1, <1>2
<1>4. row = [condition |-> row.condition, status |-> row.status, project |-> row.project,
             hours |-> row.hours, deleted |-> row.deleted]
  BY <1>1, <1>2
<1>5. /\ row.condition \in EquipmentCondition /\ row.status \in EquipmentStatus
      /\ row.project \in Workplace \cup {NoWorkplace} /\ row.hours \in Nat
  BY <1>3 DEF EquipmentRow
<1>6. row.deleted \in BOOLEAN
  BY <1>3 DEF EquipmentRow
<1>7. row \in EquipmentRow
  BY <1>4, <1>5, <1>6 DEF EquipmentRow
<1> QED BY <1>1, <1>3, <1>7

LEMMA CommitRentalInv ==
    ASSUME FleetInv, served' \in Nat, NEW r \in Requesting, NEW k \in Rental, CommitRental(r, k)
    PROVE  FleetInv'
<1>1. PICK req : req = requesting[r]
  OBVIOUS
<1>2. /\ req.kind = "rental" /\ requesting' = [requesting EXCEPT ![r] = NotRequesting] /\ rentals[k] = Gone
      /\ rentals' = [rentals EXCEPT ![k] = NewRental(req.machine, req.start, req.end)]
      /\ equipment' = Written(req)
      /\ crossed' = IF rentals # req.seen \/ equipment[req.machine] # req.from
                    THEN crossed \cup {req.machine} ELSE crossed
      /\ UNCHANGED <<usages, services, now, miscounted>>
  BY <1>1 DEF CommitRental, Answer
<1>3. RentalKept(req) /\ req # NotRequesting
  BY <1>1, <1>2 DEF FleetInv, RequestsShaped, UsageKept, UsageRequest, NotRequesting
<1>4. PICK m \in Machine, to \in EquipmentRow, from \in EquipmentRow, s \in Date, e \in Date :
          m = req.machine /\ to = req.to /\ from = req.from /\ s = req.start /\ e = req.end
  BY <1>3 DEF RentalKept, RentalRequest
<1>5. s <= e /\ to.deleted = from.deleted /\ to.hours = from.hours /\ to.project = NoWorkplace
      /\ \A j \in Rental : req.seen[j] # Gone /\ req.seen[j].machine = m =>
             e < req.seen[j].start \/ req.seen[j].end < s
  BY <1>3, <1>4 DEF RentalKept, SameBut, FitsSeen
<1>6. equipment[m] # Gone /\ equipment[m] \in EquipmentRow /\ equipment \in [Machine -> EquipmentRow \cup {Gone}]
  BY <1>1, <1>3, <1>4 DEF FleetInv, RequestsKept, FleetTypeOK
<1>7. PICK row \in EquipmentRow :
          /\ row = [f \in DOMAIN equipment[m] |-> IF to[f] # from[f] THEN to[f] ELSE equipment[m][f]]
          /\ row.project = (IF to.project # from.project THEN to.project ELSE equipment[m].project)
          /\ row.hours = (IF to.hours # from.hours THEN to.hours ELSE equipment[m].hours)
          /\ row.deleted = (IF to.deleted # from.deleted THEN to.deleted ELSE equipment[m].deleted)
  BY <1>6, WrittenRow
<1>8. equipment' = [equipment EXCEPT ![m] = row]
  BY <1>2, <1>4, <1>6, <1>7 DEF Written
<1>9. row.hours = equipment[m].hours
  BY <1>5, <1>7
<1>10. PICK new \in RentalRow : rentals' = [rentals EXCEPT ![k] = new] /\ new.machine = m /\ new.start = s /\ new.end = e
  <2>1. PICK new : new = NewRental(m, s, e)
    OBVIOUS
  <2>2. new \in RentalRow /\ new.machine = m /\ new.start = s /\ new.end = e
    BY <2>1 DEF NewRental, RentalRow, RentalStatus
  <2>3. rentals' = [rentals EXCEPT ![k] = new]
    BY <1>2, <1>4, <2>1
  <2> QED BY <2>2, <2>3
<1>11. m \notin crossed' => rentals = req.seen /\ equipment[m] = from
  BY <1>2, <1>4
<1>12. m \notin crossed' => \A j \in Rental \ {k} : rentals[j] # Gone /\ rentals[j].machine = m => Apart(new, rentals[j])
  BY <1>5, <1>10, <1>11 DEF Apart
<1>13. m \notin crossed' => row.project = NoWorkplace
  BY <1>5, <1>7, <1>11
<1>14. crossed' = crossed \/ crossed' = crossed \cup {m}
  BY <1>2, <1>4
<1>15. RequestsShaped' /\ \A q \in Requesting : requesting'[q] = requesting[q] \/ requesting'[q] = NotRequesting
  BY <1>2, RequestEnds
<1>16. /\ new \in RentalRow \cup {Gone} /\ UNCHANGED <<usages, services, now, miscounted>>
       /\ rentals[k] = Gone \/ rentals[k].machine = m
       /\ new # Gone => new.machine = m /\ new.start <= new.end
       /\ new # Gone /\ m \notin crossed' => \A j \in Rental \ {k} :
              rentals[j] # Gone /\ rentals[j].machine = m => Apart(new, rentals[j])
  BY <1>2, <1>5, <1>10, <1>12
<1>17. m \notin crossed' =>
           \/ row.project = NoWorkplace
           \/ /\ row.project = equipment[m].project /\ row.deleted = equipment[m].deleted
              /\ (new # Gone /\ new.status = "running" /\ new.end >= now =>
                     rentals[k] # Gone /\ rentals[k].status = "running" /\ rentals[k].end >= now)
  BY <1>13
<1> QED BY <1>6, <1>8, <1>9, <1>10, <1>14, <1>15, <1>16, <1>17, RentalStep

LEMMA CommitUsageInv == ASSUME FleetInv, served' \in Nat, NEW r \in Requesting, CommitUsage(r) PROVE FleetInv'
<1>1. PICK req : req = requesting[r]
  OBVIOUS
<1>2. /\ req.kind = "usage" /\ requesting' = [requesting EXCEPT ![r] = NotRequesting]
      /\ usages[req.machine][req.date] = 0
      /\ usages' = [usages EXCEPT ![req.machine][req.date] = req.hours]
      /\ equipment' = Written(req)
      /\ miscounted' = IF equipment[req.machine].hours # req.from.hours
                       THEN miscounted \cup {req.machine} ELSE miscounted
      /\ UNCHANGED <<services, rentals, now, crossed>>
  BY <1>1 DEF CommitUsage, Answer
<1>3. UsageKept(req) /\ req # NotRequesting
  BY <1>1, <1>2 DEF FleetInv, RequestsShaped, RentalKept, RentalRequest, NotRequesting
<1>4. PICK m \in Machine, to \in EquipmentRow, from \in EquipmentRow, d \in Date, h \in Hours :
          m = req.machine /\ to = req.to /\ from = req.from /\ d = req.date /\ h = req.hours
  BY <1>3 DEF UsageKept, UsageRequest
<1>5. to.deleted = from.deleted /\ to.hours = from.hours + h /\ to.project = from.project
  BY <1>3, <1>4 DEF UsageKept, SameBut
<1>6. equipment[m] # Gone /\ equipment[m] \in EquipmentRow /\ equipment \in [Machine -> EquipmentRow \cup {Gone}]
      /\ usages \in [Machine -> [Date -> Nat]] /\ usages[m] \in [Date -> Nat] /\ usages[m][d] = 0
  BY <1>1, <1>2, <1>3, <1>4 DEF FleetInv, RequestsKept, FleetTypeOK
<1>7. PICK row \in EquipmentRow :
          /\ row = [f \in DOMAIN equipment[m] |-> IF to[f] # from[f] THEN to[f] ELSE equipment[m][f]]
          /\ row.project = (IF to.project # from.project THEN to.project ELSE equipment[m].project)
          /\ row.hours = (IF to.hours # from.hours THEN to.hours ELSE equipment[m].hours)
          /\ row.deleted = (IF to.deleted # from.deleted THEN to.deleted ELSE equipment[m].deleted)
  BY <1>6, WrittenRow
<1>8. equipment' = [equipment EXCEPT ![m] = row]
  BY <1>2, <1>4, <1>6, <1>7 DEF Written
<1>9. h \in Nat /\ h > 0 /\ from.hours \in Nat /\ equipment[m].hours \in Nat
  BY <1>6, HoursAssumption DEF EquipmentRow
<1>10. row.hours = from.hours + h /\ row.project = equipment[m].project /\ row.deleted = equipment[m].deleted
  BY <1>5, <1>7, <1>9
<1>11. PICK days \in [Date -> Nat] : days = [usages[m] EXCEPT ![d] = h]
  BY <1>6, <1>9
<1>12. usages' = [usages EXCEPT ![m] = days]
  BY <1>2, <1>4, <1>6, <1>11
<1>13. TotalOf(days) = TotalOf(usages[m]) - usages[m][d] + days[d]
  <2>1. Finitely(usages[m]) /\ DOMAIN usages[m] = Date /\ DOMAIN days = Date
    BY <1>6, DaysFinite
  <2>2. days[d] \in Int /\ \A x \in Date : x # d => days[x] = usages[m][x]
    BY <1>6, <1>9, <1>11
  <2> QED BY <2>1, <2>2, TotalChanged
<1>14. days[d] = h /\ TotalOf(usages[m]) \in Int
  BY <1>6, <1>11, DaysFinite, TotalInt
<1>15. m \notin miscounted' => m \notin miscounted /\ equipment[m].hours = from.hours
  BY <1>2, <1>4
<1>16. m \notin miscounted => equipment[m].hours = TotalOf(usages[m])
  BY <1>6 DEF FleetInv, HoursKept
<1>17. m \notin miscounted' => row.hours = TotalOf(days)
  BY <1>6, <1>9, <1>10, <1>13, <1>14, <1>15, <1>16
<1>18. miscounted' = miscounted \/ miscounted' = miscounted \cup {m}
  BY <1>2, <1>4
<1>19. RequestsShaped' /\ \A q \in Requesting : requesting'[q] = requesting[q] \/ requesting'[q] = NotRequesting
  BY <1>2, RequestEnds
<1> QED BY <1>2, <1>6, <1>8, <1>10, <1>12, <1>17, <1>18, <1>19, UsageStep

\* Nothing but the requests changes, and those for the better or to what a handler read.
LEMMA OnlyRequests ==
    ASSUME FleetInv, UNCHANGED <<equipment, usages, services, rentals, now, miscounted, crossed>>, served' \in Nat,
           RequestsShaped', RequestsKept'
    PROVE  FleetInv'
BY DEF FleetInv, FleetTypeOK, RentalsKept, RentalsApart, PlacedRight, LetFrom, HoursKept

LEMMA BeginInv ==
    ASSUME FleetInv, served' \in Nat, NEW r \in Requesting, NEW req, Begin(r, req), req # NotRequesting,
           RentalKept(req) \/ UsageKept(req), equipment[req.machine] # Gone
    PROVE  FleetInv'
<1>1. requesting' = [requesting EXCEPT ![r] = req]
      /\ UNCHANGED <<equipment, usages, services, rentals, now, miscounted, crossed>>
  BY DEF Begin
<1>2. requesting = [q \in Requesting |-> requesting[q]]
      /\ \A q \in Requesting : requesting[q] = NotRequesting \/ RentalKept(requesting[q]) \/ UsageKept(requesting[q])
  BY DEF FleetInv, RequestsShaped
<1>3. requesting'[r] = req /\ (\A q \in Requesting \ {r} : requesting'[q] = requesting[q])
      /\ requesting' = [q \in Requesting |-> requesting'[q]]
  BY <1>1, <1>2
<1>4. ASSUME NEW q \in Requesting
      PROVE  requesting'[q] = NotRequesting \/ RentalKept(requesting'[q]) \/ UsageKept(requesting'[q])
  BY <1>2, <1>3
<1>5. RequestsShaped'
  BY <1>3, <1>4 DEF RequestsShaped
<1>6. ASSUME NEW q \in Requesting, requesting'[q] # NotRequesting PROVE equipment[requesting'[q].machine] # Gone
  BY <1>3, <1>6 DEF FleetInv, RequestsKept
<1>7. RequestsKept'
  BY <1>1, <1>6 DEF RequestsKept
<1> QED BY <1>1, <1>5, <1>7, OnlyRequests

LEMMA BeginRentalInv ==
    ASSUME FleetInv, served' \in Nat, NEW r \in Requesting, NEW m \in Machine, NEW s \in Date, NEW e \in Date,
           BeginRental(r, m, s, e)
    PROVE  FleetInv'
<1>0. equipment[m] \in EquipmentRow /\ equipment[m] # Gone /\ FleetTypeOK /\ s <= e /\ FreeBetween(m, s, e, Rental)
      /\ rentals \in [Rental -> RentalRow \cup {Gone}]
  BY DEF FleetInv, FleetTypeOK, BeginRental, MayLet, UsableBy, Active
<1>1. PICK to \in EquipmentRow, from \in EquipmentRow :
          /\ to = Let(m, s, e) /\ from = equipment[m]
          /\ to.project = NoWorkplace /\ to.hours = from.hours /\ SameBut(to, from)
  BY <1>0, LetRow
<1>2. PICK req : req = [kind |-> "rental", machine |-> m, from |-> from, to |-> to, start |-> s, end |-> e, seen |-> rentals]
  OBVIOUS
<1>3. /\ req \in RentalRequest /\ req.machine = m /\ req.from = from /\ req.to = to /\ req.start = s /\ req.end = e
      /\ req.seen = rentals /\ req.kind = "rental"
  BY <1>0, <1>2 DEF RentalRequest
<1>4. FitsSeen(req)
  BY <1>0, <1>3, FreeMeansApart DEF FitsSeen
<1>5. RentalKept(req) /\ req # NotRequesting
  BY <1>0, <1>1, <1>3, <1>4 DEF RentalKept, NotRequesting
<1>6. Begin(r, req)
  BY <1>1, <1>2 DEF BeginRental
<1> QED BY <1>0, <1>3, <1>5, <1>6, BeginInv

LEMMA BeginUsageInv ==
    ASSUME FleetInv, served' \in Nat, NEW r \in Requesting, NEW m \in Machine, NEW d \in Date, NEW h \in Hours,
           BeginUsage(r, m, d, h)
    PROVE  FleetInv'
<1>0. equipment[m] \in EquipmentRow /\ equipment[m] # Gone
  BY DEF FleetInv, FleetTypeOK, BeginUsage, MayUse, UsableBy, Active
<1>1. h \in Nat /\ equipment[m].hours \in Nat
  BY <1>0, HoursAssumption DEF EquipmentRow
<1>2. PICK first : first = [equipment[m] EXCEPT !.hours = @ + h]
  OBVIOUS
<1>3. first \in EquipmentRow /\ first.hours = equipment[m].hours + h /\ first.condition = equipment[m].condition
      /\ first.deleted = equipment[m].deleted /\ first.project = equipment[m].project
  BY <1>0, <1>1, <1>2 DEF EquipmentRow
<1>4. PICK to \in EquipmentRow, from \in EquipmentRow :
          /\ to = Used(m, h) /\ from = equipment[m]
          /\ to.project = from.project /\ to.hours = from.hours + h /\ SameBut(to, from)
  <2>1. PICK to \in EquipmentRow : /\ to = Recalculated(m, first, services, rentals) /\ to.hours = first.hours
                                   /\ to.deleted = first.deleted /\ to.project = first.project
                                   /\ to.condition = first.condition
    BY <1>3, RecalculatedRow
  <2>2. to = Used(m, h)
    BY <1>2, <2>1 DEF Used
  <2> QED BY <1>0, <1>3, <2>1, <2>2 DEF SameBut
<1>5. PICK req : req = [kind |-> "usage", machine |-> m, from |-> from, to |-> to, date |-> d, hours |-> h]
  OBVIOUS
<1>6. /\ req \in UsageRequest /\ req.machine = m /\ req.from = from /\ req.to = to /\ req.date = d /\ req.hours = h
      /\ req.kind = "usage"
  BY <1>5 DEF UsageRequest
<1>7. UsageKept(req) /\ req # NotRequesting
  BY <1>4, <1>6 DEF UsageKept, NotRequesting
<1>8. Begin(r, req)
  BY <1>4, <1>5 DEF BeginUsage
<1> QED BY <1>0, <1>6, <1>7, <1>8, BeginInv

LEMMA DateChangesInv == ASSUME FleetInv, served' \in Nat, DateChanges PROVE FleetInv'
<1>1. now' = now + 1 /\ now < Horizon /\ UNCHANGED <<equipment, usages, services, rentals, requesting, miscounted, crossed>>
  BY DEF DateChanges
<1>2. now \in Date /\ Horizon \in Nat /\ rentals \in [Rental -> RentalRow \cup {Gone}]
  BY HorizonAssumption DEF FleetInv, FleetTypeOK
<1>3. now \in Nat /\ now' \in Date
  BY <1>1, <1>2 DEF Date
<1>4. FleetTypeOK'
  BY <1>1, <1>3 DEF FleetInv, FleetTypeOK
<1>5. RequestsShaped' /\ RequestsKept' /\ RentalsKept' /\ RentalsApart' /\ HoursKept'
  BY <1>1 DEF FleetInv, RequestsShaped, RequestsKept, RentalsKept, RentalsApart, HoursKept
<1>6. ASSUME NEW m, LetFrom(m)' PROVE LetFrom(m)
  <2>1. PICK k \in Rental : rentals[k] # Gone /\ rentals[k].machine = m /\ rentals[k].status = "running" /\ rentals[k].end >= now'
    BY <1>1, <1>6 DEF LetFrom
  <2>2. rentals[k].end \in Int
    BY <2>1, RentalFound
  <2>3. rentals[k].end >= now
    BY <1>1, <1>3, <2>1, <2>2
  <2> QED BY <2>1, <2>3 DEF LetFrom
<1>7. PlacedRight'
  BY <1>1, <1>6 DEF FleetInv, PlacedRight
<1> QED BY <1>4, <1>5, <1>7 DEF FleetInv

LEMMA FleetNextInv == FleetInv /\ [FleetNext]_fleetVars => FleetInv'
<1> SUFFICES ASSUME FleetInv, [FleetNext]_fleetVars PROVE FleetInv'
  OBVIOUS
<1>0. served \in Nat
  BY DEF FleetInv, FleetTypeOK
<1>1. CASE UNCHANGED fleetVars
  <2>1. UNCHANGED <<equipment, usages, services, rentals, now, requesting, miscounted, crossed, served>>
    BY <1>1 DEF fleetVars
  <2>2. RequestsShaped' /\ RequestsKept'
    BY <2>1 DEF FleetInv, RequestsShaped, RequestsKept
  <2> QED BY <1>0, <2>1, <2>2, OnlyRequests
<1>2. CASE FleetNext
  <2>1. served' = served + 1 /\ served' \in Nat
    BY <1>0, <1>2 DEF FleetNext
  <2>2. CASE PlaceNext
    BY <2>1, <2>2, PlaceInv DEF PlaceNext
  <2>3. CASE UseNext
    BY <2>1, <2>3, CreateUsageInv, UpdateUsageInv DEF UseNext
  <2>4. CASE ServiceNext
    BY <2>1, <2>4, ServiceInv DEF ServiceNext
  <2>5. CASE RentNext
    BY <2>1, <2>5, CreateRentalInv, ChangeRentalInv, InspectionInv DEF RentNext
  <2>6. CASE RequestNext
    <3>1. ASSUME NEW r \in Requesting, Abandon(r) PROVE FleetInv'
      <4>1. requesting' = [requesting EXCEPT ![r] = NotRequesting]
            /\ UNCHANGED <<equipment, usages, services, rentals, now, miscounted, crossed>>
        BY <3>1 DEF Abandon
      <4>2. RequestsShaped' /\ \A q \in Requesting : requesting'[q] = requesting[q] \/ requesting'[q] = NotRequesting
        BY <4>1, RequestEnds
      <4>3. RequestsKept'
        BY <4>1, <4>2 DEF FleetInv, RequestsKept
      <4> QED BY <2>1, <4>1, <4>2, <4>3, OnlyRequests
    <3> QED BY <2>1, <2>6, <3>1, BeginRentalInv, BeginUsageInv, CommitRentalInv, CommitUsageInv DEF RequestNext
  <2>7. CASE DateChanges
    BY <2>1, <2>7, DateChangesInv
  <2> QED BY <1>2, <2>2, <2>3, <2>4, <2>5, <2>6, <2>7 DEF FleetNext
<1> QED BY <1>1, <1>2

\* A machine is let or on site and let to one at a time, its hours are the sum of its
\* usages, and the reports say the same of a rental and a day (equipment.py).
THEOREM FleetStandsAlways == FleetSpec => [](LetOrOnSite /\ LetOnce /\ HoursAddUp /\ FleetViewsAgree)
<1>1. FleetInv => LetOrOnSite /\ LetOnce /\ HoursAddUp /\ FleetViewsAgree
  BY FleetInvHolds
<1> QED BY <1>1, FleetInitInv, FleetNextInv, PTL DEF FleetSpec

-----------------------------------------------------------------------------
(* What labourers earn and are paid.                                        *)

AttendanceTable == [Attendance -> AttendanceRow \cup {NoRow}]
AccrualTable == [Labourer -> [Workday -> Seq(Nat)]]
PayrollTable == [Labourer -> PayrollRow \cup {NoRow}]
\* What an overlapping request has read: rows that are there still, advances that only grow.
SnapshotRow ==
    [attendance : AttendanceTable, accruals : AccrualTable, waged : [Labourer -> SUBSET Workday],
     advances : [Labourer -> Nat]]
SnapshotKept(view) ==
    /\ view \in SnapshotRow
    /\ \A t \in Attendance : view.attendance[t] # NoRow => attendance[t] # NoRow
    /\ \A l \in Labourer : view.advances[l] <= advances[l]
SnapshotsKept ==
    /\ attending = [r \in Attending |-> attending[r]]
    /\ \A r \in Attending : attending[r] = NoSnapshot \/ SnapshotKept(attending[r])
AccruedOnce == \A l \in Labourer, d \in Workday : Len(accruals[l][d]) > 1 => <<l, d>> \in overtaken
\* Payroll that is still computed has paid nothing out.
RowKept(row, out, advanced) ==
    IF row = NoRow THEN out = 0
    ELSE /\ row.remaining = Floor0(row.total - row.paid)
         /\ out <= row.paid /\ out <= row.total /\ (out > 0 => row.paid <= row.total)
         /\ row.paid - out <= advanced
         /\ row.status = "Draft" => out = 0
PayrollKept == \A l \in Labourer : RowKept(payroll[l], disbursed[l], advances[l])
WorkforceInv == WorkforceTypeOK /\ SnapshotsKept /\ AccruedOnce /\ PayrollKept

LEMMA WorkforceInitInv == WorkforceInit => WorkforceInv
<1> SUFFICES ASSUME WorkforceInit PROVE WorkforceInv
  OBVIOUS
<1>1. \A l \in Labourer, d \in Workday : accruals[l][d] = <<>>
  BY DEF WorkforceInit
<1>2. AccruedOnce
  BY <1>1 DEF AccruedOnce
<1>3. [l \in Labourer |-> [d \in Workday |-> <<>>]] \in [Labourer -> [Workday -> Seq(Nat)]]
  OBVIOUS
<1>4. WorkforceTypeOK
  BY <1>3 DEF WorkforceInit, WorkforceTypeOK
<1>5. SnapshotsKept /\ PayrollKept
  BY DEF WorkforceInit, SnapshotsKept, PayrollKept, RowKept
<1> QED BY <1>2, <1>4, <1>5 DEF WorkforceInv

LEMMA WorkforceNumbers ==
    /\ FullDay \in Nat /\ Attended \subseteq Nat
    /\ \A n \in Advanced : n \in Nat /\ n > 0
    /\ \A n \in Nat : Accrued(n) \in Nat /\ Overtime(n) \in Nat
    /\ \A n \in Int : Floor0(n) \in Nat
BY WorkforceAssumption, AdvanceAssumption DEF Accrued, Overtime, Floor0

-----------------------------------------------------------------------------
(* What a labourer earns.                                                   *)
RowsAreAttendance == \A t \in Attendance : attendance[t] = NoRow \/ attendance[t] \in AttendanceRow
LEMMA WageNat == ASSUME NEW row \in AttendanceRow PROVE Wage(row) \in Nat
<1>1. row.hours \in Nat /\ Overtime(row.hours) \in Nat
  BY WorkforceNumbers DEF AttendanceRow
<1> QED BY <1>1 DEF Wage

LEMMA EarnedNat ==
    ASSUME NEW view, view \in SnapshotRow, NEW l \in Labourer
    PROVE  Earned(l, view) \in Nat
<1> PICK f : f = [t \in Earning(l, view) |-> Wage(view.attendance[t])]
  OBVIOUS
<1>1. view.attendance \in AttendanceTable /\ DOMAIN view.attendance = Attendance
  BY DEF SnapshotRow, AttendanceTable
<1>2. Earning(l, view) \subseteq Attendance /\ \A t \in Earning(l, view) : view.attendance[t] \in AttendanceRow
  BY <1>1 DEF Earning, RowsOf, AttendanceTable
<1>3. DOMAIN f = Earning(l, view) /\ \A t \in DOMAIN f : f[t] \in Nat
  BY <1>2, WageNat
<1>4. IsFiniteSet(DOMAIN f)
  BY <1>2, <1>3, RosterIsFinite, FS_Subset
<1>5. TotalOf(f) \in Nat
  BY <1>3, <1>4, TotalNat DEF Finitely
<1> QED BY <1>5 DEF Earned

LEMMA NowSnapshot == ASSUME WorkforceInv PROVE SnapshotKept(Snapshot)
BY DEF WorkforceInv, WorkforceTypeOK, SnapshotKept, SnapshotRow, Snapshot, AttendanceTable, AccrualTable

\* Every step keeps the views overlapping requests have taken, or takes one of now.
LEMMA SnapshotsStep ==
    ASSUME WorkforceInv, attending' = [r \in Attending |-> attending'[r]],
           \A r \in Attending : attending'[r] \in {attending[r], NoSnapshot, Snapshot},
           \A t \in Attendance : attendance[t] # NoRow => attendance'[t] # NoRow,
           \A l \in Labourer : advances[l] <= advances'[l] /\ advances'[l] \in Nat
    PROVE  SnapshotsKept'
<1>1. ASSUME NEW r \in Attending PROVE (attending[r] = NoSnapshot \/ SnapshotKept(attending[r]))'
  <2>1. PICK view : view = attending'[r]
    OBVIOUS
  <2>2. view = NoSnapshot \/ SnapshotKept(view)
    BY <2>1, NowSnapshot DEF WorkforceInv, SnapshotsKept
  <2>3. ASSUME SnapshotKept(view) PROVE (SnapshotKept(attending[r]))'
    <3>1. view \in SnapshotRow /\ attending'[r] \in SnapshotRow
      BY <2>1, <2>3 DEF SnapshotKept
    <3>2. \A t \in Attendance : view.attendance[t] # NoRow => attendance'[t] # NoRow
      BY <2>3 DEF SnapshotKept
    <3>3. \A l \in Labourer : view.advances[l] \in Nat /\ advances[l] \in Nat
      BY <3>1 DEF SnapshotRow, WorkforceInv, WorkforceTypeOK
    <3>4. \A l \in Labourer : view.advances[l] <= advances'[l]
      BY <2>3, <3>3 DEF SnapshotKept
    <3> QED BY <2>1, <3>1, <3>2, <3>4 DEF SnapshotKept, SnapshotRow, AttendanceTable, AccrualTable,
                                          AttendanceRow, NoRow
  <2>4. view = NoSnapshot => (attending[r] = NoSnapshot)'
    BY <2>1 DEF NoSnapshot, NoRow
  <2> QED BY <2>2, <2>3, <2>4
<1> QED BY <1>1 DEF SnapshotsKept

LEMMA RosterInv ==
    ASSUME WorkforceInv, NEW l \in Labourer, NEW to \in {"active", "inactive"}, NEW from, SetRoster(l, from, to)
    PROVE  WorkforceInv'
<1>1. /\ roster' = [roster EXCEPT ![l] = to]
      /\ UNCHANGED <<attendance, accruals, advances, payroll, disbursed, waged, attending, overtaken>>
  BY DEF SetRoster
<1>2. WorkforceTypeOK'
  BY <1>1 DEF WorkforceInv, WorkforceTypeOK
<1>3. SnapshotsKept'
  BY <1>1 DEF WorkforceInv, SnapshotsKept, SnapshotKept, SnapshotRow, AttendanceTable, AccrualTable
<1>4. AccruedOnce' /\ PayrollKept'
  BY <1>1 DEF WorkforceInv, AccruedOnce, PayrollKept
<1> QED BY <1>2, <1>3, <1>4 DEF WorkforceInv

\* What changes attendance leaves payroll alone.
SlotsFree ==
    /\ attending' = [r \in Attending |-> attending'[r]]
    /\ \A r \in Attending : attending'[r] \in {attending[r], NoSnapshot}
LEMMA AttendanceStep ==
    ASSUME WorkforceInv, SlotsFree, NEW t \in Attendance, NEW row \in AttendanceRow,
           attendance' = [attendance EXCEPT ![t] = row],
           accruals' \in AccrualTable, AccruedOnce', overtaken' \subseteq Labourer \X Workday,
           UNCHANGED <<roster, advances, payroll, disbursed, waged>>
    PROVE  WorkforceInv'
<1>1. attendance' \in AttendanceTable /\ \A u \in Attendance : attendance[u] # NoRow => attendance'[u] # NoRow
  <2>1. row # NoRow
    BY DEF AttendanceRow, NoRow
  <2> QED BY <2>1 DEF WorkforceInv, WorkforceTypeOK, AttendanceTable
<1>2. WorkforceTypeOK'
  BY <1>1 DEF WorkforceInv, WorkforceTypeOK, AttendanceTable, AccrualTable
<1>3. SnapshotsKept'
  <2>1. \A l \in Labourer : advances[l] <= advances'[l] /\ advances'[l] \in Nat
    BY DEF WorkforceInv, WorkforceTypeOK
  <2> QED BY <1>1, <2>1, SnapshotsStep DEF SlotsFree
<1>4. PayrollKept'
  BY DEF WorkforceInv, PayrollKept
<1> QED BY <1>2, <1>3, <1>4 DEF WorkforceInv

LEMMA InInv ==
    ASSUME WorkforceInv, SlotsFree, NEW t \in Attendance, NEW l \in Labourer, NEW d \in Workday,
           attendance' = [attendance EXCEPT ![t] = [labour |-> l, day |-> d, out |-> "no", hours |-> 0]],
           UNCHANGED <<roster, accruals, advances, payroll, disbursed, waged, overtaken>>
    PROVE  WorkforceInv'
<1> PICK row : row = [labour |-> l, day |-> d, out |-> "no", hours |-> 0]
  OBVIOUS
<1>1. row \in AttendanceRow
  BY DEF AttendanceRow
<1>2. accruals' \in AccrualTable /\ AccruedOnce' /\ overtaken' \subseteq Labourer \X Workday
  BY DEF WorkforceInv, WorkforceTypeOK, AccrualTable, AccruedOnce
<1> QED BY <1>1, <1>2, AttendanceStep

\* A row that is left is a row.
LEMMA LeftRow ==
    ASSUME WorkforceInv, NEW t \in Attendance, attendance[t] # NoRow, NEW hours \in Attended,
           NEW out \in {"self", "proxy"}
    PROVE  /\ attendance[t].labour \in Labourer /\ attendance[t].day \in Workday
           /\ \E row \in AttendanceRow :
                  [attendance EXCEPT ![t].out = out, ![t].hours = hours] = [attendance EXCEPT ![t] = row]
<1>1. PICK old \in AttendanceRow : old = attendance[t]
  BY DEF WorkforceInv, WorkforceTypeOK
<1>2. PICK row : row = [old EXCEPT !.out = out, !.hours = hours]
  OBVIOUS
<1>3. hours \in Nat
  BY WorkforceNumbers
<1>4. row \in AttendanceRow
  BY <1>1, <1>2, <1>3 DEF AttendanceRow
<1>5. old.labour \in Labourer /\ old.day \in Workday
  BY <1>1 DEF AttendanceRow
<1>6. [attendance EXCEPT ![t].out = out, ![t].hours = hours] = [attendance EXCEPT ![t] = row]
  BY <1>1, <1>2 DEF WorkforceInv, WorkforceTypeOK
<1> QED BY <1>1, <1>4, <1>5, <1>6

LEMMA BookedSeq ==
    ASSUME NEW booked \in Seq(Nat), NEW n \in Nat, NEW found
    PROVE  /\ Booked1(found, n, booked) \in Seq(Nat)
           /\ found # <<>> => Len(Booked1(found, n, booked)) = Len(booked)
           /\ found = <<>> /\ booked = <<>> => Len(Booked1(found, n, booked)) = 1
<1>1. Append(booked, n) \in Seq(Nat) /\ Len(Append(booked, n)) = Len(booked) + 1
  OBVIOUS
<1>2. [booked EXCEPT ![1] = n] \in Seq(Nat) /\ Len([booked EXCEPT ![1] = n]) = Len(booked)
  <2>1. CASE booked = <<>>
    <3>1. DOMAIN booked = {} /\ booked = [i \in DOMAIN booked |-> booked[i]]
      BY <2>1
    <3>2. [booked EXCEPT ![1] = n] = booked
      BY <3>1
    <3> QED BY <3>2
  <2>2. CASE booked # <<>>
    <3>1. 1 \in 1 .. Len(booked)
      BY <2>2
    <3> QED BY <3>1, ExceptSeq
  <2> QED BY <2>1, <2>2
<1>3. booked = <<>> => Len(booked) = 0
  OBVIOUS
<1>4. CASE found = <<>>
  <2>1. Booked1(found, n, booked) = Append(booked, n)
    BY <1>4 DEF Booked1
  <2>2. booked = <<>> => Len(Append(booked, n)) = 1
    BY <1>1, <1>3
  <2> QED BY <1>1, <1>4, <2>1, <2>2
<1>5. CASE found # <<>>
  <2>1. Booked1(found, n, booked) = [booked EXCEPT ![1] = n]
    BY <1>5 DEF Booked1
  <2> QED BY <1>2, <1>5, <2>1
<1> QED BY <1>4, <1>5

LEMMA OutInv ==
    ASSUME WorkforceInv, SlotsFree, NEW t \in Attendance, NEW hours \in Attended, NEW view, SnapshotKept(view),
           Out(t, hours, view)
    PROVE  WorkforceInv'
<1>0. attendance[t] # NoRow
  BY DEF Out, SnapshotKept
<1>10. /\ attendance[t].labour \in Labourer /\ attendance[t].day \in Workday
      /\ \E row \in AttendanceRow :
             [attendance EXCEPT ![t].out = "self", ![t].hours = hours] = [attendance EXCEPT ![t] = row]
  BY <1>0, LeftRow
<1>11. PICK row \in AttendanceRow :
          [attendance EXCEPT ![t].out = "self", ![t].hours = hours] = [attendance EXCEPT ![t] = row]
  BY <1>10
<1>1. PICK l \in Labourer, d \in Workday : l = attendance[t].labour /\ d = attendance[t].day
  BY <1>10
<1>2. PICK n \in Nat : n = Accrued(hours)
  BY WorkforceNumbers
<1>3. /\ attendance' = [attendance EXCEPT ![t] = row]
      /\ accruals' = [accruals EXCEPT ![l][d] = Booked1(view.accruals[l][d], n, @)]
      /\ overtaken' = IF view.attendance = attendance /\ view.accruals = accruals
                      THEN overtaken ELSE overtaken \cup {<<l, d>>}
      /\ UNCHANGED <<roster, advances, payroll, disbursed, waged>>
  BY <1>11, <1>1, <1>2 DEF Out, OvertookOn
<1>4. PICK new : new = Booked1(view.accruals[l][d], n, accruals[l][d])
  OBVIOUS
<1>5. accruals \in AccrualTable /\ accruals[l] \in [Workday -> Seq(Nat)] /\ accruals[l][d] \in Seq(Nat)
  BY DEF WorkforceInv, WorkforceTypeOK, AccrualTable
<1>6. /\ new \in Seq(Nat)
      /\ Len(new) > 1 => (view.accruals # accruals \/ Len(accruals[l][d]) > 1)
  <2>1. PICK found, booked : found = view.accruals[l][d] /\ booked = accruals[l][d]
    OBVIOUS
  <2>2. booked \in Seq(Nat) /\ new = Booked1(found, n, booked)
    BY <1>4, <1>5, <2>1
  <2>3. /\ new \in Seq(Nat)
        /\ found # <<>> => Len(new) = Len(booked)
        /\ found = <<>> /\ booked = <<>> => Len(new) = 1
    BY <2>2, BookedSeq
  <2>4. view.accruals = accruals => found = booked
    BY <2>1
  <2>5. CASE view.accruals = accruals
    <3>1. CASE booked = <<>>
      <4>1. Len(new) = 1
        BY <2>3, <2>4, <2>5, <3>1
      <4> QED BY <2>3, <4>1
    <3>2. CASE booked # <<>>
      <4>1. Len(new) = Len(booked)
        BY <2>3, <2>4, <2>5, <3>2
      <4> QED BY <2>1, <2>3, <4>1
    <3> QED BY <3>1, <3>2
  <2>6. CASE view.accruals # accruals
    BY <2>3, <2>6
  <2> QED BY <2>5, <2>6
<1>7. /\ accruals' \in AccrualTable /\ accruals'[l][d] = new
      /\ \A m \in Labourer, c \in Workday : <<m, c>> # <<l, d>> => accruals'[m][c] = accruals[m][c]
  BY <1>3, <1>4, <1>5, <1>6 DEF AccrualTable
<1>8. AccruedOnce'
  <2>1. ASSUME NEW m \in Labourer, NEW c \in Workday, Len(accruals'[m][c]) > 1
        PROVE  <<m, c>> \in overtaken'
    <3>1. overtaken \subseteq overtaken'
      BY <1>3
    <3>2. CASE <<m, c>> # <<l, d>>
      BY <1>7, <2>1, <3>1, <3>2 DEF WorkforceInv, AccruedOnce
    <3>3. CASE m = l /\ c = d
      <4>1. Len(new) > 1
        BY <1>7, <2>1, <3>3
      <4>2. CASE view.accruals # accruals
        BY <1>3, <3>3, <4>2
      <4>3. CASE Len(accruals[l][d]) > 1
        BY <3>1, <3>3, <4>3 DEF WorkforceInv, AccruedOnce
      <4> QED BY <1>6, <4>1, <4>2, <4>3
    <3> QED BY <3>2, <3>3
  <2> QED BY <2>1 DEF AccruedOnce
<1>9. overtaken' \subseteq Labourer \X Workday
  BY <1>3 DEF WorkforceInv, WorkforceTypeOK
<1> QED BY <1>3, <1>7, <1>8, <1>9, AttendanceStep

LEMMA ProxyOutInv ==
    ASSUME WorkforceInv, NEW t \in Attendance, NEW hours \in Attended, ProxyCheckOut(t, hours)
    PROVE  WorkforceInv'
<1>1. PICK row \in AttendanceRow :
          [attendance EXCEPT ![t].out = "proxy", ![t].hours = hours] = [attendance EXCEPT ![t] = row]
  BY LeftRow DEF ProxyCheckOut
<1>2. /\ attendance' = [attendance EXCEPT ![t] = row]
      /\ UNCHANGED <<roster, accruals, advances, payroll, disbursed, waged, attending, overtaken>>
  BY <1>1 DEF ProxyCheckOut
<1>3. accruals' \in AccrualTable /\ AccruedOnce' /\ overtaken' \subseteq Labourer \X Workday
  BY <1>2 DEF WorkforceInv, WorkforceTypeOK, AccrualTable, AccruedOnce
<1>4. SlotsFree
  BY <1>2 DEF SlotsFree, WorkforceInv, SnapshotsKept
<1> QED BY <1>2, <1>3, <1>4, AttendanceStep

-----------------------------------------------------------------------------
\* What changes advances and payroll leaves attendance alone.
LEMMA PayrollStep ==
    ASSUME WorkforceInv, SlotsFree, payroll' \in PayrollTable, disbursed' \in [Labourer -> Nat],
           advances' \in [Labourer -> Nat], \A l \in Labourer : advances[l] <= advances'[l], PayrollKept',
           UNCHANGED <<roster, attendance, accruals, waged, overtaken>>
    PROVE  WorkforceInv'
<1>1. WorkforceTypeOK'
  BY DEF WorkforceInv, WorkforceTypeOK, PayrollTable
<1>2. SnapshotsKept'
  <2>1. \A t \in Attendance : attendance[t] # NoRow => attendance'[t] # NoRow
    OBVIOUS
  <2>2. \A l \in Labourer : advances[l] <= advances'[l] /\ advances'[l] \in Nat
    OBVIOUS
  <2> QED BY <2>1, <2>2, SnapshotsStep DEF SlotsFree
<1>3. AccruedOnce'
  BY DEF WorkforceInv, AccruedOnce
<1> QED BY <1>1, <1>2, <1>3 DEF WorkforceInv

LEMMA Payrolls ==
    ASSUME WorkforceInv, NEW l \in Labourer
    PROVE  /\ payroll[l] = NoRow \/ payroll[l] \in PayrollRow
           /\ disbursed[l] \in Nat /\ advances[l] \in Nat
           /\ RowKept(payroll[l], disbursed[l], advances[l])
BY DEF WorkforceInv, WorkforceTypeOK, PayrollKept

LEMMA AdvanceInv ==
    ASSUME WorkforceInv, NEW l \in Labourer, NEW n \in Advanced, AdvancePayment(l, n)
    PROVE  WorkforceInv'
<1>1. /\ advances' = [advances EXCEPT ![l] = @ + n]
      /\ UNCHANGED <<roster, attendance, accruals, payroll, disbursed, waged, attending, overtaken>>
  BY DEF AdvancePayment
<1>2. n \in Nat
  BY WorkforceNumbers
<1>3. /\ advances' \in [Labourer -> Nat]
      /\ \A m \in Labourer : advances[m] <= advances'[m] /\ advances[m] \in Nat /\ advances'[m] \in Nat
  BY <1>1, <1>2 DEF WorkforceInv, WorkforceTypeOK
<1>4. PayrollKept'
  <2>1. ASSUME NEW m \in Labourer PROVE RowKept(payroll[m], disbursed[m], advances'[m])
    <3>0. PICK row : row = payroll[m]
      OBVIOUS
    <3>1. PICK out \in Nat, a \in Nat, b \in Nat : out = disbursed[m] /\ a = advances[m] /\ b = advances'[m]
      BY <1>3, Payrolls
    <3>2. (row = NoRow \/ row \in PayrollRow) /\ RowKept(row, out, a) /\ a <= b
      BY <1>3, <3>0, <3>1, Payrolls
    <3>3. row \in PayrollRow => row.paid \in Nat
      BY DEF PayrollRow
    <3>4. RowKept(row, out, b)
      BY <3>2, <3>3 DEF RowKept
    <3> QED BY <3>0, <3>1, <3>4
  <2> QED BY <1>1, <2>1 DEF PayrollKept
<1>5. SlotsFree /\ payroll' \in PayrollTable /\ disbursed' \in [Labourer -> Nat]
  BY <1>1 DEF SlotsFree, WorkforceInv, SnapshotsKept, WorkforceTypeOK, PayrollTable
<1> QED BY <1>1, <1>3, <1>4, <1>5, PayrollStep

\* A row of payroll for a labourer whose days are counted.
LEMMA NewRow ==
    ASSUME NEW total \in Nat, NEW advance \in Nat, NEW largest \in Nat, advance <= largest
    PROVE  NewPayroll(total, advance) \in PayrollRow /\ RowKept(NewPayroll(total, advance), 0, largest)
<1> PICK row : row = NewPayroll(total, advance)
  OBVIOUS
<1>1. row.total = total /\ row.paid = advance /\ row.remaining = Floor0(total - advance) /\ row.status = "Draft"
  BY DEF NewPayroll
<1>2. row \in PayrollRow
  <2>1. Floor0(total - advance) \in Nat
    BY WorkforceNumbers
  <2> QED BY <2>1 DEF NewPayroll, PayrollRow, PayrollStatus
<1>3. row # NoRow
  BY <1>2 DEF PayrollRow, NoRow
<1> QED BY <1>1, <1>2, <1>3 DEF RowKept

LEMMA RegeneratedRow ==
    ASSUME NEW row \in PayrollRow, row.status = "Draft", NEW total \in Nat, NEW out \in Nat, NEW largest \in Nat,
           RowKept(row, out, largest)
    PROVE  Regenerated(row, total) \in PayrollRow /\ RowKept(Regenerated(row, total), out, largest)
<1> PICK new : new = Regenerated(row, total)
  OBVIOUS
<1>1. row.paid \in Nat /\ row # NoRow
  BY DEF PayrollRow, NoRow
<1>2. Floor0(total - row.paid) \in Nat
  BY <1>1, WorkforceNumbers
<1>3. /\ new \in PayrollRow /\ new.total = total /\ new.paid = row.paid
      /\ new.remaining = Floor0(total - row.paid) /\ new.status = "Draft"
  BY <1>2 DEF Regenerated, PayrollRow
<1>4. new # NoRow
  BY <1>3 DEF PayrollRow, NoRow
<1>5. out = 0 /\ row.paid - out <= largest
  BY <1>1 DEF RowKept
<1> QED BY <1>1, <1>3, <1>4, <1>5 DEF RowKept

LEMMA GenerateInv ==
    ASSUME WorkforceInv, SlotsFree, NEW view, SnapshotKept(view), GeneratePayroll(view)
    PROVE  WorkforceInv'
<1> PICK due : due = {l \in Labourer : Earning(l, view) # {}}
  OBVIOUS
<1>1. /\ \A l \in due : Regenerable(payroll[l])
      /\ payroll' = [l \in Labourer |->
             IF l \notin due THEN payroll[l]
             ELSE IF payroll[l] = NoRow THEN NewPayroll(Earned(l, view), view.advances[l])
             ELSE Regenerated(payroll[l], Earned(l, view))]
      /\ UNCHANGED <<roster, attendance, accruals, advances, disbursed, waged, overtaken>>
  BY DEF GeneratePayroll
<1>2. ASSUME NEW l \in Labourer
      PROVE  /\ payroll'[l] = NoRow \/ payroll'[l] \in PayrollRow
             /\ RowKept(payroll'[l], disbursed[l], advances[l])
  <2> PICK row : row = payroll[l]
    OBVIOUS
  <2>1. PICK out \in Nat, a \in Nat, total \in Nat, b \in Nat :
            out = disbursed[l] /\ a = advances[l] /\ total = Earned(l, view) /\ b = view.advances[l]
    BY Payrolls, EarnedNat DEF SnapshotKept, SnapshotRow
  <2>2. (row = NoRow \/ row \in PayrollRow) /\ RowKept(row, out, a) /\ b <= a
    BY <2>1, Payrolls DEF SnapshotKept
  <2>3. CASE l \notin due
    BY <1>1, <2>1, <2>2, <2>3
  <2>4. CASE l \in due /\ row = NoRow
    <3>1. payroll'[l] = NewPayroll(total, b) /\ out = 0
      BY <1>1, <2>1, <2>2, <2>4 DEF RowKept
    <3> QED BY <2>1, <2>2, <3>1, NewRow
  <2>5. CASE l \in due /\ row # NoRow
    <3>1. payroll'[l] = Regenerated(row, total) /\ row \in PayrollRow /\ row.status = "Draft"
      BY <1>1, <2>1, <2>2, <2>5 DEF Regenerable
    <3> QED BY <2>1, <2>2, <3>1, RegeneratedRow
  <2> QED BY <2>3, <2>4, <2>5
<1>3. payroll' \in PayrollTable
  <2>1. \A l \in Labourer : payroll'[l] \in PayrollRow \cup {NoRow}
    BY <1>2
  <2> QED BY <1>1, <2>1 DEF PayrollTable
<1>4. PayrollKept'
  BY <1>1, <1>2 DEF PayrollKept
<1>5. disbursed' \in [Labourer -> Nat] /\ advances' \in [Labourer -> Nat] /\ \A l \in Labourer : advances[l] <= advances'[l]
  BY <1>1 DEF WorkforceInv, WorkforceTypeOK
<1> QED BY <1>1, <1>3, <1>4, <1>5, PayrollStep

LEMMA LockInv ==
    ASSUME WorkforceInv, NEW ls \in SUBSET Labourer, LockPayroll(ls) \/ UnlockPayroll(ls)
    PROVE  WorkforceInv'
<1>1. PICK status \in {"Draft", "Locked"} :
          /\ \A l \in ls : payroll[l] # NoRow /\ (status = "Draft" => payroll[l].paid = 0)
          /\ SetPayroll(ls, status)
  BY DEF LockPayroll, UnlockPayroll
<1>2. /\ payroll' = [l \in Labourer |-> IF l \in ls THEN [payroll[l] EXCEPT !.status = status] ELSE payroll[l]]
      /\ UNCHANGED <<roster, attendance, accruals, advances, disbursed, waged, attending, overtaken>>
  BY <1>1 DEF SetPayroll
<1>3. ASSUME NEW l \in Labourer
      PROVE  payroll'[l] \in PayrollRow \cup {NoRow} /\ RowKept(payroll'[l], disbursed[l], advances[l])
  <2> PICK row : row = payroll[l]
    OBVIOUS
  <2>1. PICK out \in Nat, a \in Nat : out = disbursed[l] /\ a = advances[l]
    BY Payrolls
  <2>2. (row = NoRow \/ row \in PayrollRow) /\ RowKept(row, out, a)
    BY <2>1, Payrolls
  <2>3. CASE l \notin ls
    BY <1>2, <2>1, <2>2, <2>3
  <2>4. CASE l \in ls
    <3>1. row \in PayrollRow /\ (status = "Draft" => row.paid = 0)
      BY <1>1, <2>1, <2>2, <2>4
    <3>2. PICK new : new = [row EXCEPT !.status = status]
      OBVIOUS
    <3>3. /\ new \in PayrollRow /\ new.total = row.total /\ new.paid = row.paid
          /\ new.remaining = row.remaining /\ new.status = status
      BY <3>1, <3>2 DEF PayrollRow, PayrollStatus
    <3>4. row # NoRow /\ new # NoRow /\ row.paid \in Nat
      BY <3>1, <3>3 DEF PayrollRow, NoRow
    <3>5. RowKept(new, out, a)
      BY <2>2, <3>1, <3>3, <3>4 DEF RowKept
    <3> QED BY <1>2, <2>1, <2>4, <3>2, <3>3, <3>5
  <2> QED BY <2>3, <2>4
<1>4. payroll' \in PayrollTable /\ PayrollKept'
  <2>1. \A l \in Labourer : payroll'[l] \in PayrollRow \cup {NoRow}
    BY <1>3
  <2> QED BY <1>2, <1>3, <2>1 DEF PayrollTable, PayrollKept
<1>5. /\ SlotsFree /\ disbursed' \in [Labourer -> Nat] /\ advances' \in [Labourer -> Nat]
      /\ \A l \in Labourer : advances[l] <= advances'[l]
  BY <1>2 DEF SlotsFree, WorkforceInv, SnapshotsKept, WorkforceTypeOK
<1> QED BY <1>2, <1>4, <1>5, PayrollStep

LEMMA PaidRow ==
    ASSUME NEW row \in PayrollRow, NEW n \in Nat, n > 0, Payable(row, n), NEW out \in Nat, NEW largest \in Nat,
           RowKept(row, out, largest)
    PROVE  /\ PaidOff(row, n) \in PayrollRow /\ RowKept(PaidOff(row, n), out + n, largest)
           /\ PaidOff(row, n).total = row.total /\ PaidOff(row, n).paid >= row.paid
           /\ PaidOff(row, n).status \in {"Partial", "Paid"}
<1> PICK new : new = PaidOff(row, n)
  OBVIOUS
<1>1. row.paid \in Nat /\ row.total \in Nat /\ row.remaining \in Nat /\ row # NoRow
  BY DEF PayrollRow, NoRow
<1>2. n <= row.remaining
  BY DEF Payable
<1>3. /\ row.remaining = Floor0(row.total - row.paid) /\ out <= row.paid /\ row.paid - out <= largest
  BY <1>1 DEF RowKept
<1>4. row.remaining = row.total - row.paid
  BY <1>1, <1>2, <1>3 DEF Floor0
<1>5. Floor0(row.remaining - n) = row.remaining - n /\ row.remaining - n \in Nat
  BY <1>1, <1>2 DEF Floor0
<1>6. /\ new \in PayrollRow /\ new.total = row.total /\ new.paid = row.paid + n
      /\ new.remaining = row.remaining - n /\ new.status \in {"Partial", "Paid"}
  <2>1. PICK status \in {"Paid", "Partial"} : status = IF row.remaining <= n THEN "Paid" ELSE "Partial"
    OBVIOUS
  <2>2. PICK paid \in Nat, rest \in Nat : paid = row.paid + n /\ rest = row.remaining - n
    BY <1>1, <1>5
  <2>3. new = [row EXCEPT !.paid = paid, !.remaining = rest, !.status = status]
    BY <1>5, <2>1, <2>2 DEF PaidOff
  <2> QED BY <2>2, <2>3 DEF PayrollRow, PayrollStatus
<1>7. new # NoRow
  BY <1>6 DEF PayrollRow, NoRow
<1>8. new.remaining = Floor0(new.total - new.paid)
  BY <1>1, <1>2, <1>4, <1>6 DEF Floor0
<1>9. RowKept(new, out + n, largest)
  BY <1>1, <1>2, <1>3, <1>4, <1>6, <1>7, <1>8 DEF RowKept
<1> QED BY <1>1, <1>6, <1>9

LEMMA PayInv ==
    ASSUME WorkforceInv, NEW l \in Labourer, NEW n \in Advanced, PaySalary(l, n)
    PROVE  /\ WorkforceInv' /\ \A m \in Labourer \ {l} : payroll'[m] = payroll[m]
           /\ payroll'[l].total = payroll[l].total /\ payroll'[l].paid >= payroll[l].paid
           /\ payroll[l].status \in {"Locked", "Partial"} /\ payroll'[l].status \in {"Partial", "Paid"}
<1> PICK row : row = payroll[l]
  OBVIOUS
<1>1. PICK out \in Nat, a \in Nat : out = disbursed[l] /\ a = advances[l]
  BY Payrolls
<1>2. row \in PayrollRow /\ RowKept(row, out, a) /\ n \in Nat /\ n > 0 /\ Payable(row, n)
  BY <1>1, Payrolls, WorkforceNumbers DEF PaySalary, Payable
<1>3. PICK new : new = PaidOff(row, n)
  OBVIOUS
<1>4. /\ new \in PayrollRow /\ RowKept(new, out + n, a)
      /\ new.total = row.total /\ new.paid >= row.paid /\ new.status \in {"Partial", "Paid"}
  BY <1>2, <1>3, PaidRow
<1>5. payroll \in PayrollTable /\ disbursed \in [Labourer -> Nat]
  BY DEF WorkforceInv, WorkforceTypeOK, PayrollTable
<1>6. /\ payroll' = [payroll EXCEPT ![l] = new] /\ disbursed' = [disbursed EXCEPT ![l] = out + n]
      /\ UNCHANGED <<roster, attendance, accruals, advances, waged, attending, overtaken>>
  <2>1. payroll' = [payroll EXCEPT ![l] = PaidOff(payroll[l], n)]
    BY DEF PaySalary
  <2>2. disbursed' = [disbursed EXCEPT ![l] = disbursed[l] + n]
        /\ UNCHANGED <<roster, attendance, accruals, advances, waged, attending, overtaken>>
    BY DEF PaySalary
  <2> QED BY <1>1, <1>3, <2>1, <2>2
<1>7. payroll'[l] = new /\ disbursed'[l] = out + n /\ payroll' \in PayrollTable /\ disbursed' \in [Labourer -> Nat]
      /\ \A m \in Labourer \ {l} : payroll'[m] = payroll[m] /\ disbursed'[m] = disbursed[m]
  BY <1>2, <1>4, <1>5, <1>6 DEF PayrollTable
<1>8. PayrollKept'
  <2>1. \A m \in Labourer \ {l} : RowKept(payroll'[m], disbursed'[m], advances[m])
    BY <1>7 DEF WorkforceInv, PayrollKept
  <2>2. RowKept(payroll'[l], disbursed'[l], advances[l])
    BY <1>1, <1>4, <1>7
  <2> QED BY <1>6, <2>1, <2>2 DEF PayrollKept
<1>9. /\ SlotsFree /\ advances' \in [Labourer -> Nat] /\ \A m \in Labourer : advances[m] <= advances'[m]
  BY <1>6 DEF SlotsFree, WorkforceInv, SnapshotsKept, WorkforceTypeOK
<1>10. WorkforceInv'
  BY <1>6, <1>7, <1>8, <1>9, PayrollStep
<1> QED BY <1>1, <1>2, <1>4, <1>7, <1>10 DEF Payable

LEMMA WagedInv ==
    ASSUME WorkforceInv, NEW l \in Labourer, NEW days \in SUBSET Workday, CreateWageRecord(l, days)
    PROVE  WorkforceInv'
<1>1. /\ waged' = [waged EXCEPT ![l] = @ \cup days]
      /\ UNCHANGED <<roster, attendance, accruals, advances, payroll, disbursed, attending, overtaken>>
  BY DEF CreateWageRecord
<1>2. WorkforceTypeOK'
  BY <1>1 DEF WorkforceInv, WorkforceTypeOK
<1>3. SnapshotsKept' /\ AccruedOnce' /\ PayrollKept'
  BY <1>1 DEF WorkforceInv, SnapshotsKept, SnapshotKept, SnapshotRow, AttendanceTable, AccrualTable,
              AccruedOnce, PayrollKept
<1> QED BY <1>2, <1>3 DEF WorkforceInv

LEMMA BeginRequestInv ==
    ASSUME WorkforceInv, NEW r \in Attending, BeginRequest(r)
    PROVE  WorkforceInv'
<1>1. /\ attending' = [attending EXCEPT ![r] = Snapshot]
      /\ UNCHANGED <<roster, attendance, accruals, advances, payroll, disbursed, waged, overtaken>>
  BY DEF BeginRequest
<1>2. WorkforceTypeOK'
  BY <1>1 DEF WorkforceInv, WorkforceTypeOK
<1>3. SnapshotsKept'
  <2>1. /\ attending' = [q \in Attending |-> attending'[q]]
        /\ \A q \in Attending : attending'[q] \in {attending[q], NoSnapshot, Snapshot}
    BY <1>1 DEF WorkforceInv, SnapshotsKept
  <2>2. \A l \in Labourer : advances[l] <= advances'[l] /\ advances'[l] \in Nat
    BY <1>1 DEF WorkforceInv, WorkforceTypeOK
  <2>3. \A t \in Attendance : attendance[t] # NoRow => attendance'[t] # NoRow
    BY <1>1
  <2> QED BY <2>1, <2>2, <2>3, SnapshotsStep
<1>4. AccruedOnce' /\ PayrollKept'
  BY <1>1 DEF WorkforceInv, AccruedOnce, PayrollKept
<1> QED BY <1>2, <1>3, <1>4 DEF WorkforceInv

LEMMA EndFrees ==
    ASSUME WorkforceInv, NEW r \in Attending, EndRequest(r) PROVE SlotsFree
BY DEF WorkforceInv, SnapshotsKept, EndRequest, SlotsFree

LEMMA WorkforceNextInv ==
    ASSUME WorkforceInv, [WorkforceNext]_workforceVars
    PROVE  WorkforceInv'
<1>1. CASE UNCHANGED workforceVars
  <2>1. WorkforceTypeOK'
    BY <1>1 DEF workforceVars, WorkforceInv, WorkforceTypeOK
  <2>2. SnapshotsKept' /\ AccruedOnce' /\ PayrollKept'
    BY <1>1 DEF workforceVars, WorkforceInv, SnapshotsKept, SnapshotKept, SnapshotRow, AttendanceTable,
                AccrualTable, AccruedOnce, PayrollKept
  <2> QED BY <2>1, <2>2 DEF WorkforceInv
<1>2. SnapshotKept(Snapshot) /\ (UNCHANGED attending => SlotsFree)
      /\ \A r \in Attending : attending[r] = NoSnapshot \/ SnapshotKept(attending[r])
  BY NowSnapshot DEF WorkforceInv, SnapshotsKept, SlotsFree
<1>3. ASSUME NEW l \in Labourer, NEW status \in {"active", "inactive"},
             CreateLabour(l) \/ DeleteLabour(l) \/ UpdateLabourStatus(l, status)
      PROVE  WorkforceInv'
  BY <1>3, RosterInv DEF CreateLabour, DeleteLabour, UpdateLabourStatus
<1>4. ASSUME NEW l \in Labourer, NEW t \in Attendance, NEW d \in Workday, CheckIn(t, l, d) \/ ProxyCheckIn(t, l, d)
      PROVE  WorkforceInv'
  BY <1>2, <1>4, InInv DEF CheckIn, In, ProxyCheckIn
<1>5. ASSUME NEW l \in Labourer, NEW t \in Attendance, NEW d \in Workday, NEW r \in Attending,
             OverlappingCheckIn(r, t, l, d)
      PROVE  WorkforceInv'
  <2>1. SlotsFree
    BY <1>5, EndFrees DEF OverlappingCheckIn
  <2> QED BY <1>5, <2>1, InInv DEF OverlappingCheckIn, In
<1>6. ASSUME NEW t \in Attendance, NEW hours \in Attended, CheckOut(t, hours) \/ ProxyCheckOut(t, hours)
      PROVE  WorkforceInv'
  BY <1>2, <1>6, OutInv, ProxyOutInv DEF CheckOut
<1>7. ASSUME NEW t \in Attendance, NEW hours \in Attended, NEW r \in Attending, OverlappingCheckOut(r, t, hours)
      PROVE  WorkforceInv'
  <2>1. SlotsFree /\ attending[r] # NoSnapshot /\ Out(t, hours, attending[r])
    BY <1>7, EndFrees DEF OverlappingCheckOut
  <2>2. PICK view : view = attending[r]
    OBVIOUS
  <2>3. SnapshotKept(view) /\ Out(t, hours, view)
    BY <1>2, <2>1, <2>2
  <2> QED BY <2>1, <2>3, OutInv
<1>8. ASSUME Generate PROVE WorkforceInv'
  BY <1>2, <1>8, GenerateInv DEF Generate
<1>9. ASSUME NEW r \in Attending, OverlappingGenerate(r) PROVE WorkforceInv'
  <2>1. SlotsFree /\ attending[r] # NoSnapshot /\ GeneratePayroll(attending[r])
    BY <1>9, EndFrees DEF OverlappingGenerate
  <2>2. PICK view : view = attending[r]
    OBVIOUS
  <2>3. SnapshotKept(view) /\ GeneratePayroll(view)
    BY <1>2, <2>1, <2>2
  <2> QED BY <2>1, <2>3, GenerateInv
<1>10. ASSUME NEW l \in Labourer, NEW n \in Advanced, AdvancePayment(l, n) \/ PaySalary(l, n) PROVE WorkforceInv'
  BY <1>10, AdvanceInv, PayInv
<1>11. ASSUME NEW l \in Labourer, NEW days \in SUBSET Workday, CreateWageRecord(l, days) PROVE WorkforceInv'
  BY <1>11, WagedInv
<1>12. ASSUME NEW ls \in SUBSET Labourer, LockPayroll(ls) \/ UnlockPayroll(ls) PROVE WorkforceInv'
  BY <1>12, LockInv
<1>13. ASSUME NEW r \in Attending, BeginRequest(r) PROVE WorkforceInv'
  BY <1>13, BeginRequestInv
<1>14. CASE WorkforceNext
  BY <1>14, <1>3, <1>4, <1>5, <1>6, <1>7, <1>8, <1>9, <1>10, <1>11, <1>12, <1>13 DEF WorkforceNext
<1> QED BY <1>1, <1>14

-----------------------------------------------------------------------------
(* The reports on wages.                                                    *)
PaidHours(t) ==
    attendance[t].hours + IF attendance[t].out = "self" THEN Overtime(attendance[t].hours) ELSE 0

\* A labourer's rows, and what each is paid.
LEMMA RowsPaid ==
    ASSUME WorkforceTypeOK, NEW l \in Labourer, NEW S \in SUBSET RowsOf(l, attendance), NEW f,
           f = [t \in S |-> PaidHours(t)]
    PROVE  /\ Finitely(f) /\ DOMAIN f = S
           /\ \A t \in S : f[t] \in Nat /\ attendance[t] \in AttendanceRow /\ attendance[t].day \in Workday
<1>1. S \subseteq Attendance /\ \A t \in S : attendance[t] \in AttendanceRow
  BY DEF WorkforceTypeOK, RowsOf
<1>2. ASSUME NEW t \in S PROVE PaidHours(t) \in Nat /\ attendance[t].day \in Workday
  <2>1. attendance[t].hours \in Nat /\ Overtime(attendance[t].hours) \in Nat /\ attendance[t].day \in Workday
    BY <1>1, WorkforceNumbers DEF AttendanceRow
  <2> QED BY <2>1 DEF PaidHours
<1>3. IsFiniteSet(S)
  BY <1>1, RosterIsFinite, FS_Subset
<1> QED BY <1>1, <1>2, <1>3 DEF Finitely

LEMMA MonthByDays ==
    ASSUME WorkforceTypeOK, NEW l \in Labourer
    PROVE  AggregateReport(l) = MonthlyReport(l)
<1>7. PICK f : f = [t \in RowsOf(l, attendance) |-> PaidHours(t)]
  OBVIOUS
<1>8. PICK key : key = [t \in RowsOf(l, attendance) |-> attendance[t].day]
  OBVIOUS
<1>9. PICK g : g = [d \in Workday |-> WeeklyReport(l, {d})]
  OBVIOUS
<1>1. /\ Finitely(f) /\ DOMAIN f = RowsOf(l, attendance)
      /\ \A t \in RowsOf(l, attendance) : attendance[t].day \in Workday
  BY <1>7, RowsPaid
<1>2. key \in [DOMAIN f -> Workday]
  BY <1>1, <1>8
<1>3. ASSUME NEW d \in Workday PROVE g[d] = TotalOf(Part1(f, WithKey(f, key, d)))
  <2>1. WithKey(f, key, d) = {t \in RowsOf(l, attendance) : attendance[t].day \in {d}}
    BY <1>1, <1>8 DEF WithKey
  <2>2. Part1(f, WithKey(f, key, d)) =
            [t \in {t \in RowsOf(l, attendance) : attendance[t].day \in {d}} |-> PaidHours(t)]
    BY <1>7, <2>1 DEF Part1
  <2> QED BY <1>9, <2>2 DEF WeeklyReport, PaidHours
<1>4. TotalOf(g) = TotalOf(f)
  <2>1. DOMAIN g = Workday /\ IsFiniteSet(Workday)
    BY <1>9, RosterIsFinite
  <2> QED BY <1>1, <1>2, <1>3, <2>1, TotalByKey
<1>5. {t \in RowsOf(l, attendance) : attendance[t].day \in Workday} = RowsOf(l, attendance)
  BY <1>1
<1>6. MonthlyReport(l) = TotalOf(f)
  BY <1>5, <1>7 DEF MonthlyReport, WeeklyReport, PaidHours
<1> QED BY <1>4, <1>6, <1>9 DEF AggregateReport

LEMMA BilledRows ==
    ASSUME WorkforceInv
    PROVE  /\ IsFiniteSet(Billed) /\ Billed \subseteq Labourer
           /\ \A l \in Billed : /\ payroll[l].total \in Nat /\ payroll[l].paid \in Nat /\ payroll[l].remaining \in Nat
                                /\ payroll[l].total <= payroll[l].paid + payroll[l].remaining
<1>1. Billed \subseteq Labourer /\ IsFiniteSet(Billed)
  <2>1. Billed \subseteq Labourer
    BY DEF Billed
  <2> QED BY <2>1, RosterIsFinite, FS_Subset
<1>2. ASSUME NEW l \in Billed
      PROVE  /\ payroll[l].total \in Nat /\ payroll[l].paid \in Nat /\ payroll[l].remaining \in Nat
             /\ payroll[l].total <= payroll[l].paid + payroll[l].remaining
  <2>1. l \in Labourer /\ payroll[l] # NoRow
    BY DEF Billed
  <2>2. payroll[l] \in PayrollRow /\ RowKept(payroll[l], disbursed[l], advances[l])
    BY <2>1, Payrolls
  <2>3. payroll[l].total \in Nat /\ payroll[l].paid \in Nat /\ payroll[l].remaining \in Nat
        /\ payroll[l].remaining = Floor0(payroll[l].total - payroll[l].paid)
    BY <2>1, <2>2 DEF PayrollRow, RowKept
  <2> QED BY <2>3 DEF Floor0
<1> QED BY <1>1, <1>2

LEMMA StatsCover ==
    ASSUME WorkforceInv
    PROVE  PayrollStats.paid + PayrollStats.pending >= PayrollStats.budget
<1>11. PICK f : f = [l \in Billed |-> payroll[l].paid]
  OBVIOUS
<1>12. PICK g : g = [l \in Billed |-> payroll[l].remaining]
  OBVIOUS
<1>13. PICK h : h = [l \in Billed |-> f[l] + g[l]]
  OBVIOUS
<1>14. PICK b : b = [l \in Billed |-> payroll[l].total]
  OBVIOUS
<1>1. Finitely(f) /\ Finitely(g) /\ Finitely(b)
  BY <1>11, <1>12, <1>13, <1>14, BilledRows DEF Finitely
<1>2. DOMAIN f = Billed /\ DOMAIN g = Billed /\ DOMAIN h = Billed /\ DOMAIN b = Billed
  BY <1>11, <1>12, <1>13, <1>14
<1>3. \A l \in Billed : b[l] <= h[l] /\ h[l] = f[l] + g[l]
  BY <1>11, <1>12, <1>13, <1>14, BilledRows
<1>4. Finitely(h) /\ TotalOf(h) = TotalOf(f) + TotalOf(g)
  BY <1>1, <1>2, <1>3, TotalSum
<1>5. TotalOf(b) <= TotalOf(h)
  BY <1>1, <1>2, <1>3, <1>4, TotalMost
<1>6. PayrollStats.paid = TotalOf(f) /\ PayrollStats.pending = TotalOf(g) /\ PayrollStats.budget = TotalOf(b)
  BY <1>11, <1>12, <1>13, <1>14 DEF PayrollStats
<1>7. TotalOf(f) \in Int /\ TotalOf(g) \in Int /\ TotalOf(b) \in Int
  BY <1>1, TotalInt
<1> QED BY <1>4, <1>5, <1>6, <1>7

LEMMA LiabilityByLabourer ==
    ASSUME WorkforceInv
    PROVE  FiscalSummary = TotalOf([l \in Labourer |-> ContractorLiability({l})])
<1>11. PICK f : f = [l \in Billed |-> payroll[l].total]
  OBVIOUS
<1>12. PICK key : key = [l \in Billed |-> l]
  OBVIOUS
<1>13. PICK g : g = [l \in Labourer |-> ContractorLiability({l})]
  OBVIOUS
<1>1. Finitely(f) /\ key \in [DOMAIN f -> Labourer]
  BY <1>11, <1>12, BilledRows DEF Finitely
<1>2. ASSUME NEW l \in Labourer PROVE g[l] = TotalOf(Part1(f, WithKey(f, key, l)))
  <2>1. WithKey(f, key, l) = Billed \cap {l}
    BY <1>11, <1>12 DEF WithKey
  <2>2. Part1(f, WithKey(f, key, l)) = [x \in Billed \cap {l} |-> payroll[x].total]
    BY <1>11, <2>1 DEF Part1
  <2> QED BY <1>13, <2>2 DEF ContractorLiability
<1>3. TotalOf(g) = TotalOf(f)
  <2>1. DOMAIN g = Labourer /\ IsFiniteSet(Labourer)
    BY <1>13, RosterIsFinite
  <2> QED BY <1>1, <1>2, <2>1, TotalByKey
<1> QED BY <1>3, <1>11, <1>13 DEF FiscalSummary

LEMMA WagesReported == ASSUME WorkforceInv PROVE ReportedAsPaid
<1>0. WorkforceTypeOK
  BY DEF WorkforceInv
<1>1. ASSUME NEW l \in Labourer, waged[l] = {} PROVE Earned(l, Snapshot) = MonthlyReport(l)
  <2>1. \A t \in RowsOf(l, attendance) : attendance[t].day \in Workday
    BY <1>0, RowsPaid
  <2>2. Earning(l, Snapshot) = {t \in RowsOf(l, attendance) : attendance[t].day \in Workday}
    BY <1>1, <2>1 DEF Earning, Snapshot
  <2>3. Earned(l, Snapshot) =
            TotalOf([t \in {t \in RowsOf(l, attendance) : attendance[t].day \in Workday} |-> PaidHours(t)])
    BY <2>2 DEF Earned, Wage, PaidHours, Snapshot
  <2> QED BY <2>3 DEF MonthlyReport, WeeklyReport, PaidHours
<1>2. \A l \in Labourer : AggregateReport(l) = MonthlyReport(l)
  BY <1>0, MonthByDays
<1>3. [l \in Labourer |-> WeeklyReport(l, Workday)] = [l \in Labourer |-> AggregateReport(l)]
  BY <1>2 DEF MonthlyReport
<1>4. WeeklyVelocity(Workday) = TotalOf([l \in Labourer |-> AggregateReport(l)])
  BY <1>3 DEF WeeklyVelocity
<1>5. PayrollStats.budget = PayrollMomentum /\ PayrollStats.budget = FiscalSummary
  BY DEF PayrollStats, PayrollMomentum, FiscalSummary
<1> QED BY <1>1, <1>2, <1>4, <1>5, StatsCover, LiabilityByLabourer DEF ReportedAsPaid

LEMMA WorkforceInvHolds == WorkforceInv => WorkforceTypeOK /\ PaidWithinEarned /\ DayAccruedOnce /\ ReportedAsPaid
<1> SUFFICES ASSUME WorkforceInv PROVE WorkforceTypeOK /\ PaidWithinEarned /\ DayAccruedOnce /\ ReportedAsPaid
  OBVIOUS
<1>1. PaidWithinEarned
  BY DEF WorkforceInv, PayrollKept, RowKept, PaidWithinEarned
<1>2. DayAccruedOnce
  BY DEF WorkforceInv, AccruedOnce, DayAccruedOnce
<1> QED BY <1>1, <1>2, WagesReported DEF WorkforceInv

\* Every step: payroll that has left its draft keeps its total and what is paid.
PayrollKeeps ==
    \A l \in Labourer : payroll[l] # NoRow /\ payroll[l].status # "Draft" =>
        /\ payroll'[l].total = payroll[l].total
        /\ payroll'[l].paid >= payroll[l].paid
        /\ payroll[l].status \in {"Partial", "Paid"} => payroll'[l].status \in {payroll[l].status, "Paid"}
LEMMA PayrollStepStands ==
    ASSUME WorkforceInv, [WorkforceNext]_workforceVars
    PROVE  PayrollKeeps
<1>0. \A l \in Labourer : payroll[l] # NoRow => payroll[l] \in PayrollRow /\ payroll[l].paid \in Nat
  BY Payrolls DEF PayrollRow
<1>1. CASE UNCHANGED payroll
  BY <1>0, <1>1 DEF PayrollKeeps
<1>2. ASSUME NEW view, GeneratePayroll(view) PROVE PayrollKeeps
  <2> PICK due : due = {l \in Labourer : Earning(l, view) # {}}
    OBVIOUS
  <2>1. /\ \A l \in due : payroll[l] = NoRow \/ payroll[l].status = "Draft"
        /\ \A l \in Labourer \ due : payroll'[l] = payroll[l]
    BY <1>2 DEF GeneratePayroll, Regenerable
  <2> QED BY <1>0, <2>1 DEF PayrollKeeps
<1>3. ASSUME NEW ls \in SUBSET Labourer, LockPayroll(ls) \/ UnlockPayroll(ls) PROVE PayrollKeeps
  <2>1. PICK status :
            /\ \A l \in ls : payroll[l] # NoRow /\ payroll[l].status \in {"Draft", "Locked"}
            /\ payroll' = [l \in Labourer |-> IF l \in ls THEN [payroll[l] EXCEPT !.status = status] ELSE payroll[l]]
    BY <1>3 DEF LockPayroll, UnlockPayroll, SetPayroll
  <2>2. ASSUME NEW l \in ls PROVE payroll'[l].total = payroll[l].total /\ payroll'[l].paid = payroll[l].paid
    <3>1. PICK row \in PayrollRow : row = payroll[l]
      BY <1>0, <2>1
    <3>2. payroll'[l] = [row EXCEPT !.status = status]
      BY <2>1, <3>1
    <3> QED BY <3>1, <3>2 DEF PayrollRow
  <2>3. \A l \in Labourer \ ls : payroll'[l] = payroll[l]
    BY <2>1
  <2> QED BY <1>0, <2>1, <2>2, <2>3 DEF PayrollKeeps
<1>4. ASSUME NEW l \in Labourer, NEW n \in Advanced, PaySalary(l, n) PROVE PayrollKeeps
  <2>1. /\ \A m \in Labourer \ {l} : payroll'[m] = payroll[m]
        /\ payroll'[l].total = payroll[l].total /\ payroll'[l].paid >= payroll[l].paid
        /\ payroll[l].status \in {"Locked", "Partial"} /\ payroll'[l].status \in {"Partial", "Paid"}
    BY <1>4, PayInv
  <2> QED BY <1>0, <2>1 DEF PayrollKeeps
<1>5. CASE WorkforceNext
  BY <1>5, <1>1, <1>2, <1>3, <1>4
     DEF WorkforceNext, CreateLabour, DeleteLabour, UpdateLabourStatus, SetRoster, AdvancePayment, CreateWageRecord,
         CheckIn, ProxyCheckIn, OverlappingCheckIn, In, CheckOut, ProxyCheckOut, OverlappingCheckOut, Out,
         Generate, OverlappingGenerate, BeginRequest
<1> QED BY <1>1, <1>5 DEF workforceVars

\* What payroll pays stays within what days earn and what was advanced, a day is one
\* expense and the reports show the wages, whatever overlaps (attendance.py, labour.py).
THEOREM WagesHoldAlways == WorkforceSpec => [](PaidWithinEarned /\ DayAccruedOnce /\ ReportedAsPaid)
<1>1. WorkforceInv => PaidWithinEarned /\ DayAccruedOnce /\ ReportedAsPaid
  BY WorkforceInvHolds
<1> QED BY <1>1, WorkforceInitInv, WorkforceNextInv, PTL DEF WorkforceSpec

-----------------------------------------------------------------------------
(* Offers to clients, their totals and what is made out of them.               *)

QuotationView ==
    [of : Quotation, row : QuotationRow \cup {NoQuotation}, lines : [Line -> Nat], busy : SUBSET Client]
QuotingShaped ==
    /\ quoting = [r \in Quoting |-> quoting[r]]
    /\ \A r \in Quoting : quoting[r] # NoRead => quoting[r] \in QuotationView
\* A quotation that documents were made of is approved; and one that no request wrote
\* on an old view adds up, is what its documents say and shows its decision.
AddsUp(row, amounts, docs) ==
    /\ row.total = SumOfLines(amounts) - row.discount
    /\ \A k \in Kind : docs[k] \in {NoDocument, row.total}
    /\ row.isApproved <=> row.status \in {"approved", "converted"}
Documented(docs) == \E k \in Kind : docs[k] # NoDocument
QuotationKept(q) ==
    /\ Documented(documents[q]) => quotations[q] # NoQuotation /\ quotations[q].isApproved
    /\ quotations[q] # NoQuotation /\ q \notin overwritten =>
          AddsUp(quotations[q], lines[q], documents[q])
ActiveAlone(client) == ActiveFor(client) \ (overwritten \cup resent)
OneActive == \A client \in Client : \A p, q \in ActiveAlone(client) : p = q
QuotationsInv ==
    /\ QuotationsTypeOK /\ QuotingShaped
    /\ \A q \in Quotation : QuotationKept(q)
    /\ OneActive

LEMMA LinesTotal == ASSUME NEW amounts \in [Line -> Nat] PROVE SumOfLines(amounts) \in Int
<1>1. Finitely(amounts)
  BY PricedAssumption DEF Finitely, Line
<1> QED BY <1>1, TotalInt DEF SumOfLines

LEMMA QuotationsInvHolds == QuotationsInv => QuotationsTypeOK /\ QuotedAsApproved /\ OneActivePerClient
<1> SUFFICES ASSUME QuotationsInv PROVE QuotationsTypeOK /\ QuotedAsApproved /\ OneActivePerClient
  OBVIOUS
<1> USE DEF QuotationsInv
<1>1. QuotedAsApproved
  BY DEF QuotedAsApproved, QuotationKept, AddsUp
<1>2. ASSUME NEW client \in Client PROVE Cardinality(ActiveAlone(client)) <= 1
  <2>1. CASE ActiveAlone(client) = {}
    BY <2>1, FS_EmptySet
  <2>2. CASE ActiveAlone(client) # {}
    <3>1. PICK q : q \in ActiveAlone(client)
      BY <2>2
    <3>2. ActiveAlone(client) = {q}
      BY <3>1 DEF OneActive
    <3> QED BY <3>2, FS_Singleton
  <2> QED BY <2>1, <2>2
<1>3. OneActivePerClient
  BY <1>2 DEF OneActivePerClient, ActiveAlone, QuotationKept, AddsUp
<1> QED BY <1>1, <1>3

LEMMA QuotationsInitInv == QuotationsInit => QuotationsInv
<1> SUFFICES ASSUME QuotationsInit PROVE QuotationsInv
  OBVIOUS
<1> USE DEF QuotationsInit
<1>1. QuotationsTypeOK /\ QuotingShaped
  BY DEF QuotationsTypeOK, QuotingShaped, NoLine, NoDocument
<1>2. \A q \in Quotation : QuotationKept(q)
  BY DEF QuotationKept, Documented
<1>3. OneActive
  BY DEF OneActive, ActiveAlone, ActiveFor
<1> QED BY <1>1, <1>2, <1>3 DEF QuotationsInv

LEMMA QuotingEnds == ASSUME QuotationsInv, NEW r \in Quoting, EndQuoting(r) PROVE QuotingShaped'
BY DEF QuotationsInv, QuotingShaped, EndQuoting

\* What a step of one quotation has to show.
LEMMA QuotationStep ==
    ASSUME QuotationsInv, QuotingShaped', NEW q \in Quotation,
           NEW row \in QuotationRow \cup {NoQuotation}, NEW amounts \in [Line -> Nat], NEW docs \in [Kind -> Int],
           quotations' = [quotations EXCEPT ![q] = row], lines' = [lines EXCEPT ![q] = amounts],
           documents' = [documents EXCEPT ![q] = docs],
           overwritten' = overwritten \/ overwritten' = overwritten \cup {q} \/ overwritten' = overwritten \ {q},
           resent' = resent \/ resent' = resent \cup {q} \/ resent' = resent \ {q},
           Documented(docs) => row # NoQuotation /\ row.isApproved,
           row # NoQuotation /\ q \notin overwritten' => AddsUp(row, amounts, docs),
           row # NoQuotation /\ q \notin overwritten' \cup resent' /\ row.status \in {"draft", "sent", "approved"} =>
               q \in ActiveAlone(row.client) \/ ActiveFor(row.client) = {}
    PROVE  QuotationsInv'
<1> USE DEF QuotationsInv
<1>1. /\ quotations \in [Quotation -> QuotationRow \cup {NoQuotation}] /\ lines \in [Quotation -> [Line -> Nat]]
      /\ documents \in [Quotation -> [Kind -> Int]] /\ overwritten \subseteq Quotation /\ resent \subseteq Quotation
  BY DEF QuotationsTypeOK
<1>2. /\ quotations'[q] = row /\ lines'[q] = amounts /\ documents'[q] = docs
      /\ \A p \in Quotation \ {q} : quotations'[p] = quotations[p] /\ lines'[p] = lines[p] /\ documents'[p] = documents[p]
  BY <1>1
<1>3. QuotationsTypeOK'
  <2>1. quotations' \in [Quotation -> QuotationRow \cup {NoQuotation}]
    BY <1>1
  <2>2. lines' \in [Quotation -> [Line -> Nat]] /\ documents' \in [Quotation -> [Kind -> Int]]
    BY <1>1
  <2>3. overwritten' \subseteq Quotation /\ resent' \subseteq Quotation
    BY <1>1
  <2> QED BY <2>1, <2>2, <2>3 DEF QuotationsTypeOK
<1>4. \A p \in Quotation \ {q} : (p \in overwritten' <=> p \in overwritten) /\ (p \in resent' <=> p \in resent)
  OBVIOUS
<1>5. ASSUME NEW p \in Quotation PROVE QuotationKept(p)'
  <2>1. CASE p = q
    BY <1>2, <2>1 DEF QuotationKept
  <2>2. CASE p # q
    <3>1. QuotationKept(p)
      OBVIOUS
    <3>2. quotations'[p] = quotations[p] /\ lines'[p] = lines[p] /\ documents'[p] = documents[p]
          /\ (p \in overwritten' <=> p \in overwritten)
      BY <1>2, <1>4, <2>2
    <3> QED BY <3>1, <3>2 DEF QuotationKept
  <2> QED BY <2>1, <2>2
<1>6. ASSUME NEW client \in Client, NEW p \in ActiveAlone(client)', NEW s \in ActiveAlone(client)' PROVE p = s
  <2>1. p \in Quotation /\ s \in Quotation
    BY DEF ActiveAlone, ActiveFor
  <2>2. ASSUME NEW x \in ActiveAlone(client)', x # q PROVE x \in ActiveAlone(client)
    <3>1. x \in Quotation
      BY DEF ActiveAlone, ActiveFor
    <3>2. quotations'[x] = quotations[x] /\ (x \in overwritten' <=> x \in overwritten) /\ (x \in resent' <=> x \in resent)
      BY <1>2, <1>4, <2>2, <3>1
    <3> QED BY <3>1, <3>2 DEF ActiveAlone, ActiveFor
  <2>3. q \in ActiveAlone(client)' => q \in ActiveAlone(client) \/ ActiveFor(client) = {}
    BY <1>2 DEF ActiveAlone, ActiveFor
  <2>4. ActiveFor(client) = {} => ActiveAlone(client) = {}
    BY DEF ActiveAlone
  <2>5. \A x, y \in ActiveAlone(client) : x = y
    BY DEF OneActive
  <2> QED BY <2>2, <2>3, <2>4, <2>5
<1>7. OneActive'
  BY <1>6 DEF OneActive
<1> QED BY <1>3, <1>5, <1>7

\* A quotation nobody wrote on an old view of is as the view shows it.
LEMMA ViewTold ==
    ASSUME QuotationsInv, NEW q \in Quotation, NEW view, NoteOutdated(view, q)
    PROVE  /\ overwritten' = overwritten \/ overwritten' = overwritten \cup {q}
           /\ q \notin overwritten' => q \notin overwritten /\ view.row = quotations[q] /\ view.lines = lines[q]
BY DEF NoteOutdated

LEMMA CreateQuotationInv ==
    ASSUME QuotationsInv, QuotingShaped', NEW q \in Quotation, NEW view,
           NEW client \in Client, NEW discount \in Discount, NEW amounts \in [Line -> Priced \cup {NoLine}],
           CreateQuotation(q, client, amounts, discount, view)
    PROVE  QuotationsInv'
<1>1. amounts \in [Line -> Nat] /\ discount \in Nat
  <2>1. Priced \cup {NoLine} \subseteq Nat
    BY PricedAssumption DEF NoLine
  <2> QED BY <2>1, PricedAssumption
<1>2. PICK row : row = [client |-> client, status |-> "draft", isApproved |-> FALSE, discount |-> discount,
                        total |-> SumOfLines(amounts) - discount]
  OBVIOUS
<1>3. row \in QuotationRow
  BY <1>1, <1>2, LinesTotal DEF QuotationRow, QuotationStatus
<1>4. quotations[q] = NoQuotation /\ quotations' = [quotations EXCEPT ![q] = row] /\ lines' = [lines EXCEPT ![q] = amounts]
      /\ UNCHANGED <<documents, resent>> /\ client \notin view.busy
      /\ overwritten' = IF client \in view.busy <=> ActiveFor(client) # {} THEN overwritten ELSE overwritten \cup {q}
  <2> DEFINE first == [client |-> client, status |-> "draft", isApproved |-> FALSE, discount |-> discount, total |-> 0]
  <2>1. CalculateTotals(first, amounts) = SumOfLines(amounts) - discount
    BY DEF CalculateTotals
  <2>2. row = [first EXCEPT !.total = CalculateTotals(first, amounts)]
    <3>1. PICK total \in Int : total = SumOfLines(amounts) - discount
      BY <1>1, LinesTotal
    <3>2. [first EXCEPT !.total = total] = [client |-> client, status |-> "draft", isApproved |-> FALSE,
                                            discount |-> discount, total |-> total]
      <4>0. first \in QuotationRow
        BY <1>1 DEF QuotationRow, QuotationStatus
      <4>1. PICK old \in QuotationRow : old = first
        BY <4>0
      <4>2. old.client = client /\ old.status = "draft" /\ old.isApproved = FALSE /\ old.discount = discount
        BY <4>1
      <4> HIDE DEF first
      <4>3. [old EXCEPT !.total = total] = [client |-> client, status |-> "draft", isApproved |-> FALSE,
                                            discount |-> discount, total |-> total]
        <5>1. PICK new : new = [old EXCEPT !.total = total]
          OBVIOUS
        <5>2. new \in QuotationRow /\ new.client = client /\ new.status = "draft" /\ new.isApproved = FALSE
              /\ new.discount = discount /\ new.total = total
          BY <4>2, <5>1 DEF QuotationRow
        <5>3. new = [client |-> client, status |-> "draft", isApproved |-> FALSE, discount |-> discount, total |-> total]
          BY <5>2 DEF QuotationRow
        <5> QED BY <5>1, <5>3
      <4> QED BY <4>1, <4>3
    <3> HIDE DEF first
    <3> QED BY <1>2, <2>1, <3>1, <3>2
  <2>3. quotations' = [quotations EXCEPT ![q] = row]
    BY <2>2 DEF CreateQuotation
  <2> QED BY <2>3 DEF CreateQuotation, MayCreate
<1>5. documents[q] \in [Kind -> Int] /\ documents' = [documents EXCEPT ![q] = documents[q]]
  BY <1>4 DEF QuotationsInv, QuotationsTypeOK
<1>6. ~Documented(documents[q])
  BY <1>4 DEF QuotationsInv, QuotationKept
<1>7. AddsUp(row, amounts, documents[q])
  BY <1>2, <1>6 DEF AddsUp, Documented
<1>8. /\ q \notin overwritten' => ActiveFor(client) = {}
      /\ overwritten' = overwritten \/ overwritten' = overwritten \cup {q}
  BY <1>4
<1>9. row.client = client
  BY <1>2
<1> QED BY <1>1, <1>3, <1>4, <1>5, <1>6, <1>7, <1>8, <1>9, QuotationStep

\* An action that leaves the client and the decision alone, on a quotation not approved.
LEMMA QuotationRevised ==
    ASSUME QuotationsInv, QuotingShaped', NEW q \in Quotation, NEW view \in QuotationView,
           NEW row \in QuotationRow, NEW amounts \in [Line -> Nat],
           quotations[q] # NoQuotation, NoteOutdated(view, q),
           row.client = quotations[q].client, row.status = quotations[q].status,
           row.isApproved = quotations[q].isApproved,
           quotations' = [quotations EXCEPT ![q] = row], lines' = [lines EXCEPT ![q] = amounts],
           UNCHANGED <<documents, resent>>,
           view.row = quotations[q] /\ view.lines = lines[q] =>
               row.total = SumOfLines(amounts) - row.discount /\ ~(quotations[q].isApproved /\ q \notin overwritten)
    PROVE  QuotationsInv'
<1>1. documents[q] \in [Kind -> Int] /\ documents' = [documents EXCEPT ![q] = documents[q]]
  BY DEF QuotationsInv, QuotationsTypeOK
<1>2. QuotationKept(q)
  BY DEF QuotationsInv
<1>3. Documented(documents[q]) => row.isApproved
  BY <1>2 DEF QuotationKept
<1>4. q \notin overwritten' => q \notin overwritten /\ view.row = quotations[q] /\ view.lines = lines[q]
  BY ViewTold
<1>5. ASSUME q \notin overwritten' PROVE AddsUp(row, amounts, documents[q])
  <2>1. AddsUp(quotations[q], lines[q], documents[q])
    BY <1>2, <1>4, <1>5 DEF QuotationKept
  <2>2. ~Documented(documents[q])
    BY <1>2, <1>4, <1>5 DEF QuotationKept
  <2>3. row.total = SumOfLines(amounts) - row.discount
    BY <1>4, <1>5
  <2> QED BY <2>1, <2>2, <2>3 DEF AddsUp, Documented
<1>6. row.status \in {"draft", "sent", "approved"} /\ q \notin overwritten' \cup resent' => q \in ActiveAlone(row.client)
  BY <1>4 DEF ActiveAlone, ActiveFor
<1>7. row # NoQuotation
  BY DEF QuotationRow, QuotationStatus, NoQuotation
<1>8. overwritten' = overwritten \/ overwritten' = overwritten \cup {q}
  BY ViewTold
<1> QED BY <1>1, <1>3, <1>5, <1>6, <1>7, <1>8, QuotationStep

LEMMA UpdateQuotationInv ==
    ASSUME QuotationsInv, QuotingShaped', NEW q \in Quotation, NEW view \in QuotationView,
           NEW discount \in Discount, UpdateQuotation(q, discount, view)
    PROVE  QuotationsInv'
<1> DEFINE total == SumOfLines(view.lines) - discount
<1>1. /\ quotations[q] # NoQuotation /\ view.row # NoQuotation /\ view.row.status = "draft"
      /\ NoteOutdated(view, q) /\ UNCHANGED <<lines, documents, resent>>
  BY DEF UpdateQuotation
<1>2. view.row \in QuotationRow /\ view.lines \in [Line -> Nat] /\ discount \in Nat
  BY <1>1, PricedAssumption DEF QuotationView
<1>3. quotations \in [Quotation -> QuotationRow \cup {NoQuotation}] /\ quotations[q] \in QuotationRow
      /\ lines \in [Quotation -> [Line -> Nat]] /\ lines[q] \in [Line -> Nat]
  BY <1>1 DEF QuotationsInv, QuotationsTypeOK
<1>4. total \in Int
  BY <1>2, LinesTotal
<1>5. [view.row EXCEPT !.discount = discount].discount = discount
  BY <1>2 DEF QuotationRow
<1>6. quotations' = [quotations EXCEPT ![q].discount = discount, ![q].total = total]
  BY <1>5 DEF UpdateQuotation, CalculateTotals
<1> HIDE DEF total
<1>7. PICK row : row = [quotations[q] EXCEPT !.discount = discount, !.total = total]
  OBVIOUS
<1>8. row \in QuotationRow /\ row.client = quotations[q].client /\ row.status = quotations[q].status
      /\ row.isApproved = quotations[q].isApproved /\ row.discount = discount /\ row.total = total
  BY <1>2, <1>3, <1>4, <1>7 DEF QuotationRow
<1>9. quotations' = [quotations EXCEPT ![q] = row] /\ lines' = [lines EXCEPT ![q] = lines[q]]
  BY <1>1, <1>3, <1>6, <1>7
<1>10. ASSUME view.row = quotations[q], view.lines = lines[q]
       PROVE  row.total = SumOfLines(lines[q]) - row.discount /\ ~(quotations[q].isApproved /\ q \notin overwritten)
  <2>1. quotations[q].status = "draft"
    BY <1>1, <1>10
  <2>2. row.total = SumOfLines(lines[q]) - row.discount
    BY <1>8, <1>10 DEF total
  <2> QED BY <1>1, <2>1, <2>2 DEF QuotationsInv, QuotationKept, AddsUp
<1> QED BY <1>1, <1>3, <1>8, <1>9, <1>10, QuotationRevised

LEMMA WriteLineInv ==
    ASSUME QuotationsInv, QuotingShaped', NEW q \in Quotation, NEW view \in QuotationView,
           NEW l \in Line, NEW amount \in Nat, WriteLine(q, l, amount, view)
    PROVE  QuotationsInv'
<1>1. /\ quotations[q] # NoQuotation /\ view.row # NoQuotation /\ ~view.row.isApproved
      /\ NoteOutdated(view, q) /\ UNCHANGED <<documents, resent>>
  BY DEF WriteLine, Modifiable
<1>2. view.row \in QuotationRow /\ view.lines \in [Line -> Nat] /\ view.row.discount \in Nat
  BY <1>1 DEF QuotationView, QuotationRow
<1>3. quotations \in [Quotation -> QuotationRow \cup {NoQuotation}] /\ quotations[q] \in QuotationRow
      /\ lines \in [Quotation -> [Line -> Nat]] /\ lines[q] \in [Line -> Nat]
  BY <1>1 DEF QuotationsInv, QuotationsTypeOK
<1>4. PICK seen \in [Line -> Nat] : seen = [view.lines EXCEPT ![l] = amount]
  BY <1>2
<1>5. PICK total \in Int : total = SumOfLines(seen) - view.row.discount
  BY <1>2, LinesTotal
<1>6. PICK amounts \in [Line -> Nat] : amounts = [lines[q] EXCEPT ![l] = amount]
  BY <1>3
<1>7. lines' = [lines EXCEPT ![q] = amounts] /\ quotations' = [quotations EXCEPT ![q].total = total]
  BY <1>3, <1>4, <1>5, <1>6 DEF WriteLine, CalculateTotals
<1>8. PICK row : row = [quotations[q] EXCEPT !.total = total]
  OBVIOUS
<1>9. row \in QuotationRow /\ row.client = quotations[q].client /\ row.status = quotations[q].status
      /\ row.isApproved = quotations[q].isApproved /\ row.discount = quotations[q].discount /\ row.total = total
  BY <1>3, <1>8 DEF QuotationRow
<1>10. quotations' = [quotations EXCEPT ![q] = row]
  BY <1>3, <1>7, <1>8
<1>11. view.row = quotations[q] /\ view.lines = lines[q] =>
           row.total = SumOfLines(amounts) - row.discount /\ ~(quotations[q].isApproved /\ q \notin overwritten)
  BY <1>1, <1>4, <1>5, <1>6, <1>9
<1> QED BY <1>1, <1>7, <1>9, <1>10, <1>11, QuotationRevised

LEMMA DecideInv ==
    ASSUME QuotationsInv, QuotingShaped', NEW q \in Quotation, NEW view \in QuotationView,
           SendQuotation(q, view) \/ ApproveQuotation(q, view) \/ RejectQuotation(q, view)
    PROVE  QuotationsInv'
<1>1. PICK status \in {"sent", "approved", "rejected"}, isApproved \in BOOLEAN :
          /\ Decide(q, view, status, isApproved)
          /\ isApproved = (quotations[q].isApproved \/ status = "approved")
          /\ resent' = resent \/ resent' = resent \cup {q}
          /\ view.row # NoQuotation
          /\ status # "sent" => view.row.status = "sent"
          /\ status = "sent" => view.row.status = "draft" \/ (view.row.status = "rejected" /\ q \in resent')
  <2> DEFINE D(status, isApproved) ==
          /\ Decide(q, view, status, isApproved)
          /\ isApproved = (quotations[q].isApproved \/ status = "approved")
          /\ resent' = resent \/ resent' = resent \cup {q}
          /\ view.row # NoQuotation
          /\ status # "sent" => view.row.status = "sent"
          /\ status = "sent" => view.row.status = "draft" \/ (view.row.status = "rejected" /\ q \in resent')
  <2>0. quotations[q] # NoQuotation
    BY DEF SendQuotation, ApproveQuotation, RejectQuotation, Decide
  <2>1. quotations[q].isApproved \in BOOLEAN
    BY <2>0 DEF QuotationsInv, QuotationsTypeOK, QuotationRow
  <2>2. SendQuotation(q, view) => D("sent", quotations[q].isApproved)
    BY <2>1 DEF SendQuotation
  <2>3. ApproveQuotation(q, view) => D("approved", TRUE)
    BY <2>1 DEF ApproveQuotation, Approvable
  <2>4. RejectQuotation(q, view) => D("rejected", quotations[q].isApproved)
    BY <2>1 DEF RejectQuotation, Rejectable
  <2>5. \E status \in {"sent", "approved", "rejected"}, isApproved \in BOOLEAN : D(status, isApproved)
    <3> HIDE DEF D
    <3> QED BY <2>1, <2>2, <2>3, <2>4
  <2> QED BY <2>5
<1>2. /\ quotations[q] # NoQuotation /\ NoteOutdated(view, q) /\ UNCHANGED <<lines, documents>>
      /\ quotations' = [quotations EXCEPT ![q].status = status, ![q].isApproved = isApproved]
  BY <1>1 DEF Decide
<1>3. quotations \in [Quotation -> QuotationRow \cup {NoQuotation}] /\ quotations[q] \in QuotationRow
      /\ lines \in [Quotation -> [Line -> Nat]] /\ documents \in [Quotation -> [Kind -> Int]]
      /\ lines[q] \in [Line -> Nat] /\ documents[q] \in [Kind -> Int]
  BY <1>2 DEF QuotationsInv, QuotationsTypeOK
<1>4. PICK old \in QuotationRow : old = quotations[q]
  BY <1>3
<1>5. old.isApproved \in BOOLEAN /\ isApproved \in BOOLEAN
  BY <1>1, <1>4 DEF QuotationRow
<1>6. PICK row : row = [old EXCEPT !.status = status, !.isApproved = isApproved]
  OBVIOUS
<1>7. row \in QuotationRow /\ row.client = old.client /\ row.status = status
      /\ row.isApproved = isApproved /\ row.discount = old.discount /\ row.total = old.total
  BY <1>5, <1>6 DEF QuotationRow, QuotationStatus
<1>8. quotations' = [quotations EXCEPT ![q] = row] /\ lines' = [lines EXCEPT ![q] = lines[q]]
      /\ documents' = [documents EXCEPT ![q] = documents[q]]
  BY <1>2, <1>3, <1>4, <1>6
<1>9. QuotationKept(q)
  BY DEF QuotationsInv
<1>10. Documented(documents[q]) => row.isApproved
  BY <1>1, <1>4, <1>7, <1>9 DEF QuotationKept
<1>11. q \notin overwritten' => q \notin overwritten /\ view.row = old
  BY <1>2, <1>4, ViewTold
<1>12. ASSUME q \notin overwritten' PROVE AddsUp(row, lines[q], documents[q])
  <2>1. AddsUp(old, lines[q], documents[q])
    BY <1>2, <1>4, <1>9, <1>11, <1>12 DEF QuotationKept
  <2>2. old.status \in {"draft", "sent", "rejected"} /\ ~old.isApproved
    BY <1>1, <1>11, <1>12, <2>1 DEF AddsUp
  <2>3. row.isApproved <=> row.status \in {"approved", "converted"}
    <3>1. isApproved <=> status = "approved"
      BY <1>1, <1>4, <2>2
    <3> QED BY <1>7, <3>1
  <2>4. row.total = SumOfLines(lines[q]) - row.discount /\ \A k \in Kind : documents[q][k] \in {NoDocument, row.total}
    BY <1>7, <2>1 DEF AddsUp
  <2> QED BY <2>3, <2>4 DEF AddsUp
<1>13. ASSUME q \notin overwritten' \cup resent' PROVE q \in ActiveAlone(row.client)
  <2>1. old.status \in {"draft", "sent"} /\ q \notin overwritten /\ q \notin resent
    BY <1>1, <1>11, <1>13
  <2> QED BY <1>2, <1>4, <1>7, <2>1 DEF ActiveAlone, ActiveFor
<1>14. overwritten' = overwritten \/ overwritten' = overwritten \cup {q}
  BY <1>2, ViewTold
<1>15. row # NoQuotation
  BY <1>7 DEF QuotationRow, QuotationStatus, NoQuotation
<1> QED BY <1>1, <1>3, <1>7, <1>8, <1>10, <1>12, <1>13, <1>14, <1>15, QuotationStep

LEMMA DeleteQuotationInv == ASSUME QuotationsInv, NEW q \in Quotation, DeleteQuotation(q) PROVE QuotationsInv'
<1>1. /\ quotations[q] # NoQuotation /\ ~quotations[q].isApproved
      /\ quotations' = [quotations EXCEPT ![q] = NoQuotation]
      /\ lines' = [lines EXCEPT ![q] = [l \in Line |-> NoLine]]
      /\ overwritten' = overwritten \ {q} /\ resent' = resent \ {q} /\ UNCHANGED <<documents, quoting>>
  BY DEF DeleteQuotation
<1>2. PICK amounts \in [Line -> Nat] : amounts = [l \in Line |-> NoLine]
  BY DEF NoLine
<1>3. documents[q] \in [Kind -> Int] /\ documents' = [documents EXCEPT ![q] = documents[q]]
  BY <1>1 DEF QuotationsInv, QuotationsTypeOK
<1>4. ~Documented(documents[q])
  BY <1>1 DEF QuotationsInv, QuotationKept
<1>5. QuotingShaped'
  BY <1>1 DEF QuotationsInv, QuotingShaped
<1> QED BY <1>1, <1>2, <1>3, <1>4, <1>5, QuotationStep

LEMMA ConvertInv == ASSUME QuotationsInv, NEW q \in Quotation, NEW k \in Kind, Convert(q, k) PROVE QuotationsInv'
<1>1. /\ quotations[q] # NoQuotation /\ quotations[q].isApproved
      /\ documents' = [documents EXCEPT ![q][k] = quotations[q].total]
      /\ quotations' = [quotations EXCEPT ![q].status = "converted"]
      /\ UNCHANGED <<lines, quoting, overwritten, resent>>
  BY DEF Convert
<1>2. quotations \in [Quotation -> QuotationRow \cup {NoQuotation}] /\ quotations[q] \in QuotationRow
      /\ lines \in [Quotation -> [Line -> Nat]] /\ documents \in [Quotation -> [Kind -> Int]]
      /\ lines[q] \in [Line -> Nat] /\ documents[q] \in [Kind -> Int]
  BY <1>1 DEF QuotationsInv, QuotationsTypeOK
<1>3. quotations[q].total \in Int
  BY <1>2 DEF QuotationRow
<1>4. PICK row : row = [quotations[q] EXCEPT !.status = "converted"]
  OBVIOUS
<1>5. row \in QuotationRow /\ row.client = quotations[q].client /\ row.status = "converted"
      /\ row.isApproved = quotations[q].isApproved /\ row.discount = quotations[q].discount /\ row.total = quotations[q].total
  BY <1>2, <1>4 DEF QuotationRow, QuotationStatus
<1>6. PICK docs \in [Kind -> Int] : docs = [documents[q] EXCEPT ![k] = quotations[q].total]
  BY <1>2, <1>3
<1>7. quotations' = [quotations EXCEPT ![q] = row] /\ lines' = [lines EXCEPT ![q] = lines[q]]
      /\ documents' = [documents EXCEPT ![q] = docs]
  BY <1>1, <1>2, <1>4, <1>6
<1>8. q \notin overwritten => AddsUp(row, lines[q], docs)
  <2>1. q \notin overwritten => AddsUp(quotations[q], lines[q], documents[q])
    BY <1>1 DEF QuotationsInv, QuotationKept
  <2>2. (\A j \in Kind : documents[q][j] \in {NoDocument, row.total}) => \A j \in Kind : docs[j] \in {NoDocument, row.total}
    BY <1>2, <1>5, <1>6
  <2> QED BY <1>1, <1>5, <2>1, <2>2 DEF AddsUp
<1>9. row # NoQuotation
  BY <1>5 DEF QuotationRow, QuotationStatus, NoQuotation
<1>10. QuotingShaped'
  BY <1>1 DEF QuotationsInv, QuotingShaped
<1>11. ~(row.status \in {"draft", "sent", "approved"}) /\ row.isApproved /\ overwritten' = overwritten /\ resent' = resent
  BY <1>1, <1>5
<1> QED BY <1>2, <1>5, <1>7, <1>8, <1>9, <1>10, <1>11, QuotationStep

LEMMA HandleInv ==
    ASSUME QuotationsInv, QuotingShaped', NEW q \in Quotation, NEW view \in QuotationView, Handle(q, view)
    PROVE  QuotationsInv'
<1>1. ASSUME NEW l \in Line, NEW amount \in Priced,
             \/ AddQuotationItem(q, l, amount, view) \/ UpdateQuotationItem(q, l, amount, view)
             \/ AddLabourItem(q, l, amount, view)    \/ UpdateLabourItem(q, l, amount, view)
             \/ AddMaterialItem(q, l, amount, view)  \/ UpdateMaterialItem(q, l, amount, view)
             \/ AddExtraCharge(q, l, amount, view)   \/ UpdateExtraCharge(q, l, amount, view)
      PROVE  QuotationsInv'
  <2>1. WriteLine(q, l, amount, view)
    BY <1>1 DEF AddQuotationItem, UpdateQuotationItem, AddLabourItem, UpdateLabourItem,
           AddMaterialItem, UpdateMaterialItem, AddExtraCharge, UpdateExtraCharge, AddLine, UpdateLine
  <2>2. amount \in Nat
    BY PricedAssumption
  <2> QED BY <2>1, <2>2, WriteLineInv
<1>2. ASSUME NEW l \in Line,
             \/ DeleteQuotationItem(q, l, view)      \/ DeleteLabourItem(q, l, view)
             \/ DeleteMaterialItem(q, l, view)       \/ DeleteExtraCharge(q, l, view)
      PROVE  QuotationsInv'
  <2>1. WriteLine(q, l, NoLine, view)
    BY <1>2 DEF DeleteQuotationItem, DeleteLabourItem, DeleteMaterialItem, DeleteExtraCharge, DeleteLine
  <2>2. NoLine \in Nat
    BY DEF NoLine
  <2> QED BY <2>1, <2>2, WriteLineInv
<1>3. ASSUME NEW client \in Client, NEW discount \in Discount, NEW amounts \in [Line -> Priced \cup {NoLine}],
             CreateQuotation(q, client, amounts, discount, view)
      PROVE  QuotationsInv'
  BY <1>3, CreateQuotationInv
<1>4. ASSUME NEW discount \in Discount, UpdateQuotation(q, discount, view) PROVE QuotationsInv'
  BY <1>4, UpdateQuotationInv
<1>5. CASE SendQuotation(q, view) \/ ApproveQuotation(q, view) \/ RejectQuotation(q, view)
  BY <1>5, DecideInv
<1> QED BY <1>1, <1>2, <1>3, <1>4, <1>5 DEF Handle

LEMMA QuotationsNextInv == QuotationsInv /\ [QuotationsNext]_quotationVars => QuotationsInv'
<1> SUFFICES ASSUME QuotationsInv, [QuotationsNext]_quotationVars PROVE QuotationsInv'
  OBVIOUS
<1>0. ASSUME UNCHANGED <<quotations, lines, documents, overwritten, resent>>, QuotingShaped' PROVE QuotationsInv'
  BY <1>0 DEF QuotationsInv, QuotationsTypeOK, QuotationKept, OneActive, ActiveAlone, ActiveFor
<1>1. CASE UNCHANGED quotationVars
  <2>1. UNCHANGED <<quotations, lines, documents, quoting, overwritten, resent>>
    BY <1>1 DEF quotationVars
  <2>2. QuotingShaped'
    BY <2>1 DEF QuotationsInv, QuotingShaped
  <2> QED BY <1>0, <2>1, <2>2
<1>2. ASSUME NEW q \in Quotation PROVE Read(q) \in QuotationView
  BY DEF QuotationsInv, QuotationsTypeOK, Read, QuotationView
<1>3. ASSUME NEW q \in Quotation, Handle(q, Read(q)), UNCHANGED quoting PROVE QuotationsInv'
  <2>1. PICK view \in QuotationView : view = Read(q)
    BY <1>2
  <2>2. Handle(q, view)
    BY <1>3, <2>1
  <2>3. QuotingShaped'
    BY <1>3 DEF QuotationsInv, QuotingShaped
  <2> QED BY <2>2, <2>3, HandleInv
<1>4. ASSUME NEW q \in Quotation, NEW r \in Quoting, quoting[r] # NoRead, Handle(q, quoting[r]), EndQuoting(r)
      PROVE  QuotationsInv'
  <2>1. PICK view \in QuotationView : view = quoting[r]
    BY <1>4 DEF QuotationsInv, QuotingShaped
  <2>2. Handle(q, view)
    BY <1>4, <2>1
  <2>3. QuotingShaped'
    BY <1>4, QuotingEnds
  <2> QED BY <2>2, <2>3, HandleInv
<1>5. ASSUME NEW q \in Quotation, NEW r \in Quoting, BeginQuoting(r, q) PROVE QuotationsInv'
  <2>1. quoting' = [quoting EXCEPT ![r] = Read(q)] /\ UNCHANGED <<quotations, lines, documents, overwritten, resent>>
    BY <1>5 DEF BeginQuoting
  <2>2. QuotingShaped'
    BY <1>2, <2>1 DEF QuotationsInv, QuotingShaped
  <2> QED BY <1>0, <2>1, <2>2
<1>6. ASSUME NEW q \in Quotation, NEW k \in Kind, Convert(q, k) PROVE QuotationsInv'
  BY <1>6, ConvertInv
<1>7. ASSUME NEW q \in Quotation,
             ConvertToBill(q) \/ ConvertToWorkOrder(q) \/ ConvertToProject(q) \/ CreateInvoiceFromQuotation(q)
      PROVE  QuotationsInv'
  <2>1. Convert(q, "bill") \/ Convert(q, "order") \/ Convert(q, "project") \/ Convert(q, "invoice")
    BY <1>7 DEF ConvertToBill, ConvertToWorkOrder, ConvertToProject, CreateInvoiceFromQuotation
  <2> QED BY <1>6, <2>1 DEF Kind
<1> QED BY <1>1, <1>3, <1>4, <1>5, <1>7, DeleteQuotationInv DEF QuotationsNext

\* What the client approved is what is billed, ordered, budgeted and invoiced; and a
\* client decides on one quotation at a time (quotation.py).
THEOREM QuotedAsApprovedAlways == QuotationsSpec => [](QuotedAsApproved /\ OneActivePerClient)
<1>1. QuotationsInv => QuotedAsApproved /\ OneActivePerClient
  BY QuotationsInvHolds
<1> QED BY <1>1, QuotationsInitInv, QuotationsNextInv, PTL DEF QuotationsSpec

-----------------------------------------------------------------------------
(* How the amount of a quotation's item comes about.                        *)

ItemRow(q) ==
    [unit |-> q.unit, measurement |-> q.measurement, rate |-> q.rate, quantity |-> q.quantity, amount |-> q.amount]
\* The measurement kept is the one entered, its count replaced by what was measured.
ItemKept ==
    quoted # NoQuotedItem =>
        /\ quoted = ItemRow(quoted) /\ quoted.unit \in QuotedUnit /\ entered \in Measurement
        /\ quoted.measurement = [entered EXCEPT !.count = quoted.quantity]
DummyRows == [saved : {TRUE}, subtotal : Nat, gst : Nat, cgst : Nat, sgst : Nat, other : Nat, total : Int]
ItemsInv == ItemKept /\ ItemFollowsUnit /\ (dummy # NoDummy => dummy \in DummyRows) /\ SavedTaxShown

LEMMA FamilyKnown == ASSUME NEW unit \in QuotedUnit PROVE FamilyOf[unit] \in Family
BY UnitAssumption

\* What is measured depends on the count only where nothing but the count is measured,
\* and there the count kept is what was measured.
LEMMA MeasuredAgain ==
    ASSUME NEW old \in QuotedUnit, NEW unit \in QuotedUnit, Convertible(old, unit), NEW m \in Measurement
    PROVE  Measured(unit, [m EXCEPT !.count = Measured(old, m)]) = Measured(unit, m)
<1> DEFINE k == [m EXCEPT !.count = Measured(old, m)]
<1>1. k.length = m.length /\ k.width = m.width /\ k.height = m.height /\ k.count = Measured(old, m)
  BY DEF Measurement
<1>2. FamilyOf[old] \in Family /\ FamilyOf[unit] \in Family
  BY FamilyKnown
<1>3. CASE FamilyOf[unit] \in Dimensional
  BY <1>1, <1>2, <1>3 DEF Dimensional, Measured
<1>4. CASE FamilyOf[unit] \notin Dimensional
  <2>1. FamilyOf[old] = FamilyOf[unit]
    BY <1>4 DEF Convertible
  <2>2. m.count \in Nat
    BY SizeAssumption DEF Measurement
  <2>3. CASE FamilyOf[unit] = "lump_sum"
    <3>1. Measured(old, m) = IF m.count > 0 THEN m.count ELSE 1
      BY <2>1, <2>3 DEF Measured
    <3>2. /\ Measured(unit, m) = IF m.count > 0 THEN m.count ELSE 1
          /\ Measured(unit, k) = IF k.count > 0 THEN k.count ELSE 1
      BY <2>3 DEF Measured
    <3> QED BY <1>1, <2>2, <3>1, <3>2
  <2>4. CASE FamilyOf[unit] # "lump_sum"
    <3>1. FamilyOf[unit] \in {"count", "weight_kg", "weight_ton"}
      BY <1>2, <1>4, <2>4 DEF Family, Dimensional
    <3>2. Measured(old, m) = m.count /\ Measured(unit, m) = m.count /\ Measured(unit, k) = k.count
      BY <2>1, <3>1 DEF Measured
    <3> QED BY <1>1, <3>2
  <2> QED BY <2>3, <2>4
<1> QED BY <1>3, <1>4

\* A unit accepts a measurement with the count that it measures.
LEMMA ValidAgain ==
    ASSUME NEW unit \in QuotedUnit, NEW m \in Measurement, NEW k, ValidFor(unit, k),
           k.length = m.length, k.width = m.width, k.height = m.height, Measured(unit, k) = Measured(unit, m)
    PROVE  ValidFor(unit, [m EXCEPT !.count = Measured(unit, m)])
<1> DEFINE n == [m EXCEPT !.count = Measured(unit, m)]
<1>1. n.length = m.length /\ n.width = m.width /\ n.height = m.height /\ n.count = Measured(unit, m)
  BY DEF Measurement
<1>2. CASE FamilyOf[unit] \in Dimensional \cup {"lump_sum"}
  BY <1>1, <1>2 DEF Dimensional, ValidFor
<1>3. CASE FamilyOf[unit] \notin Dimensional \cup {"lump_sum"}
  <2>1. FamilyOf[unit] \in {"count", "weight_kg", "weight_ton"}
    BY <1>3, FamilyKnown DEF Family, Dimensional
  <2>2. k.count > 0 /\ Measured(unit, k) = k.count
    BY <2>1 DEF ValidFor, Measured
  <2>3. n.count = k.count
    BY <1>1, <2>2
  <2> HIDE DEF n
  <2> QED BY <2>1, <2>2, <2>3 DEF ValidFor, n
<1> QED BY <1>2, <1>3

\* An item priced from a measurement that measures what the one entered does.
LEMMA PricedInv ==
    ASSUME NEW unit \in QuotedUnit, NEW rate, NEW k, entered' \in Measurement,
           quoted' = Priced1(unit, k, rate), ValidFor(unit, k), Measured(unit, k) = Measured(unit, entered'),
           k = [entered' EXCEPT !.count = k.count]
    PROVE  ItemKept' /\ ItemFollowsUnit'
<1>1. PICK m \in Measurement : m = entered'
  OBVIOUS
<1>2. k = [m EXCEPT !.count = k.count] /\ Measured(unit, k) = Measured(unit, m)
  BY <1>1
<1>3. k.length = m.length /\ k.width = m.width /\ k.height = m.height
  BY <1>2 DEF Measurement
<1>4. [k EXCEPT !.count = Measured(unit, k)] = [m EXCEPT !.count = Measured(unit, m)]
  BY <1>2 DEF Measurement
<1>5. ValidFor(unit, [m EXCEPT !.count = Measured(unit, m)])
  BY <1>2, <1>3, ValidAgain
<1>6. quoted' = [unit |-> unit, measurement |-> [m EXCEPT !.count = Measured(unit, m)],
                 rate |-> rate, quantity |-> Measured(unit, m), amount |-> Measured(unit, m) * rate]
  BY <1>2, <1>4 DEF Priced1
<1> QED BY <1>1, <1>5, <1>6 DEF ItemKept, ItemFollowsUnit, ItemRow

LEMMA ItemsInitInv == ItemsInit => ItemsInv
BY DEF ItemsInit, ItemsInv, ItemKept, ItemFollowsUnit, SavedTaxShown

LEMMA DummyKept == UNCHANGED dummy /\ ItemsInv => ((dummy # NoDummy => dummy \in DummyRows) /\ SavedTaxShown)'
BY DEF ItemsInv, SavedTaxShown

LEMMA ItemKeptOn == UNCHANGED <<quoted, entered>> /\ ItemsInv => (ItemKept /\ ItemFollowsUnit)'
BY DEF ItemsInv, ItemKept, ItemFollowsUnit

LEMMA MeasureInv ==
    ASSUME ItemsInv, NEW unit \in QuotedUnit, NEW m \in Measurement, NEW rate \in Price,
           CreateItem(unit, m, rate) \/ Remeasure(unit, m, rate)
    PROVE  ItemsInv'
<1>1. quoted' = Priced1(unit, m, rate) /\ entered' = m /\ ValidFor(unit, m) /\ UNCHANGED dummy
  BY DEF CreateItem, Remeasure
<1>2. m = [m EXCEPT !.count = m.count]
  BY DEF Measurement
<1>3. ItemKept' /\ ItemFollowsUnit'
  BY <1>1, <1>2, PricedInv
<1> QED BY <1>1, <1>3, DummyKept DEF ItemsInv

LEMMA ChangeUnitInv ==
    ASSUME ItemsInv, NEW unit \in QuotedUnit, NEW rate \in Price, ChangeUnit(unit, rate)
    PROVE  ItemsInv'
<1>1. PICK old, k, m : old = quoted.unit /\ k = quoted.measurement /\ m = entered
  OBVIOUS
<1>2. /\ Convertible(old, unit) /\ ValidFor(unit, k) /\ quoted' = Priced1(unit, k, rate) /\ UNCHANGED <<entered, dummy>>
      /\ old \in QuotedUnit /\ m \in Measurement /\ k = [m EXCEPT !.count = Measured(old, m)]
  BY <1>1 DEF ChangeUnit, ItemsInv, ItemKept, ItemFollowsUnit
<1>3. Measured(unit, k) = Measured(unit, m)
  BY <1>2, MeasuredAgain
<1>4. k = [m EXCEPT !.count = k.count]
  BY <1>2 DEF Measurement
<1>5. entered' = m
  BY <1>1, <1>2
<1>6. ItemKept' /\ ItemFollowsUnit'
  BY <1>2, <1>3, <1>4, <1>5, PricedInv
<1> QED BY <1>2, <1>6, DummyKept DEF ItemsInv

LEMMA ChangeRateInv == ASSUME ItemsInv, NEW rate \in Price, ChangeRate(rate) PROVE ItemsInv'
<1>1. PICK q : q = quoted
  OBVIOUS
<1>2. quoted' = Rated(q, rate) /\ q # NoQuotedItem /\ UNCHANGED <<entered, dummy>>
  BY <1>1 DEF ChangeRate
<1>3. /\ q = ItemRow(q) /\ q.unit \in QuotedUnit /\ entered \in Measurement
      /\ q.measurement = [entered EXCEPT !.count = q.quantity]
      /\ q.quantity = Measured(q.unit, entered) /\ ValidFor(q.unit, q.measurement)
  BY <1>1, <1>2 DEF ItemsInv, ItemKept, ItemFollowsUnit
<1>4. quoted' = [unit |-> q.unit, measurement |-> q.measurement, rate |-> rate, quantity |-> q.quantity,
                 amount |-> q.quantity * rate]
  BY <1>2, <1>3 DEF Rated, ItemRow
<1>5. ItemKept' /\ ItemFollowsUnit'
  BY <1>2, <1>3, <1>4 DEF ItemKept, ItemFollowsUnit, ItemRow
<1> QED BY <1>2, <1>5, DummyKept DEF ItemsInv

\* The halves of a GST, which is even, are the whole of it.
LEMMA TotalsShown ==
    ASSUME NEW row \in DummyRows, row.gst % 2 = 0
    PROVE  LET t == DummyTotals(row)
           IN  t \in DummyRows /\ t.total = t.subtotal * (1 + t.cgst + t.sgst) + t.other
<1> DEFINE halved == row.gst > 0 /\ row.cgst = 0 /\ row.sgst = 0
           h == row.gst \div 2
<1>1. row.gst \in Nat /\ h \in Nat /\ h + h = row.gst
  BY DEF DummyRows
<1>2. row.subtotal \in Nat /\ row.cgst \in Nat /\ row.sgst \in Nat /\ row.other \in Nat
  BY DEF DummyRows
<1>3. CASE halved
  <2>1. DummyTotals(row) = [[row EXCEPT !.cgst = h, !.sgst = h] EXCEPT !.total = row.subtotal + row.subtotal * row.gst + row.other]
    BY <1>3 DEF DummyTotals, Split, TaxOf
  <2> HIDE DEF h
  <2>2. PICK t : t = DummyTotals(row)
    OBVIOUS
  <2>3. /\ t.subtotal = row.subtotal /\ t.cgst = h /\ t.sgst = h /\ t.other = row.other
        /\ t.total = row.subtotal + row.subtotal * row.gst + row.other
    BY <2>1, <2>2 DEF DummyRows
  <2>4. \A s, g \in Nat : s + s * g \in Int /\ s * (1 + g) = s + s * g
    OBVIOUS
  <2>5. row.subtotal + row.subtotal * row.gst + row.other \in Int
    BY <1>1, <1>2, <2>4
  <2>6. t \in DummyRows
    BY <1>1, <2>1, <2>2, <2>5 DEF DummyRows
  <2>7. 1 + h + h = 1 + row.gst
    BY <1>1
  <2>8. t.total = t.subtotal * (1 + t.cgst + t.sgst) + t.other
    BY <1>1, <1>2, <2>3, <2>4, <2>7
  <2> QED BY <2>2, <2>6, <2>8
<1>4. CASE ~halved
  <2>1. DummyTotals(row) = [row EXCEPT !.total = row.subtotal + row.subtotal * (row.cgst + row.sgst) + row.other]
    BY <1>4 DEF DummyTotals, Split, TaxOf
  <2>2. PICK t : t = DummyTotals(row)
    OBVIOUS
  <2>3. /\ t.subtotal = row.subtotal /\ t.cgst = row.cgst /\ t.sgst = row.sgst /\ t.other = row.other
        /\ t.total = row.subtotal + row.subtotal * (row.cgst + row.sgst) + row.other
    BY <2>1, <2>2 DEF DummyRows
  <2>4. \A s, g \in Nat : s + s * g \in Int /\ s * (1 + g) = s + s * g
    OBVIOUS
  <2>5. row.cgst + row.sgst \in Nat /\ 1 + row.cgst + row.sgst = 1 + (row.cgst + row.sgst)
    BY <1>2
  <2>6. row.subtotal + row.subtotal * (row.cgst + row.sgst) + row.other \in Int
    BY <1>2, <2>4, <2>5
  <2>7. t \in DummyRows
    BY <2>1, <2>2, <2>6 DEF DummyRows
  <2>8. t.total = t.subtotal * (1 + t.cgst + t.sgst) + t.other
    BY <1>2, <2>3, <2>4, <2>5
  <2> QED BY <2>2, <2>7, <2>8
<1> QED BY <1>3, <1>4

LEMMA DummyWritten ==
    ASSUME ItemsInv, NEW row \in DummyRows, row.gst % 2 = 0, dummy' = DummyTotals(row), UNCHANGED <<quoted, entered>>
    PROVE  ItemsInv'
<1>1. dummy' \in DummyRows /\ dummy'.total = dummy'.subtotal * (1 + dummy'.cgst + dummy'.sgst) + dummy'.other
  BY TotalsShown
<1> QED BY <1>1, ItemKeptOn DEF ItemsInv, SavedTaxShown

LEMMA ItemsNextInv == ItemsInv /\ [ItemsNext]_itemVars => ItemsInv'
<1> SUFFICES ASSUME ItemsInv, [ItemsNext]_itemVars PROVE ItemsInv'
  OBVIOUS
<1>1. CASE UNCHANGED itemVars
  BY <1>1, ItemKeptOn, DummyKept DEF itemVars, ItemsInv
<1>2. ASSUME NEW content \in Percents, CreateDummy(content) PROVE ItemsInv'
  <2>1. RowOf(content) \in DummyRows /\ RowOf(content).gst % 2 = 0
    <3>1. /\ content.subtotal \in Nat /\ content.other \in Nat /\ content.gst \in Nat
          /\ content.cgst \in Nat /\ content.sgst \in Nat
      BY SizeAssumption, PercentAssumption DEF Percents
    <3>2. content.gst \in Percent2
      BY DEF Percents
    <3>3. content.gst % 2 = 0
      BY <3>2, PercentAssumption
    <3> QED BY <3>1, <3>3 DEF RowOf, DummyRows
  <2>2. dummy' = DummyTotals(RowOf(content)) /\ UNCHANGED <<quoted, entered>>
    BY <1>2 DEF CreateDummy, PreviewDummy
  <2> QED BY <2>1, <2>2, DummyWritten
<1>3. ASSUME NEW subtotal \in Size, NEW other \in Size, NEW gst \in Percent2,
             NEW cgst \in Percent2 \cup {dummy.cgst}, NEW sgst \in Percent2 \cup {dummy.sgst},
             UpdateDummy(subtotal, gst, cgst, sgst, other)
      PROVE  ItemsInv'
  <2> DEFINE row == [dummy EXCEPT !.subtotal = subtotal, !.gst = gst, !.cgst = cgst, !.sgst = sgst, !.other = other]
  <2>1. dummy \in DummyRows
    BY <1>3 DEF UpdateDummy, ItemsInv
  <2>2. /\ subtotal \in Nat /\ other \in Nat /\ gst \in Nat /\ gst % 2 = 0 /\ cgst \in Nat /\ sgst \in Nat
    BY <2>1, SizeAssumption, PercentAssumption DEF DummyRows
  <2>3. row \in DummyRows /\ row.gst = gst
    BY <2>1, <2>2 DEF DummyRows
  <2>4. dummy' = DummyTotals(row) /\ UNCHANGED <<quoted, entered>>
    BY <1>3 DEF UpdateDummy
  <2> HIDE DEF row
  <2> QED BY <2>2, <2>3, <2>4, DummyWritten
<1>4. CASE DeleteDummy
  BY <1>4, ItemKeptOn DEF DeleteDummy, ItemsInv, SavedTaxShown
<1> QED BY <1>1, <1>2, <1>3, <1>4, MeasureInv, ChangeUnitInv, ChangeRateInv DEF ItemsNext

\* An item costs its rate times what was measured for it, whichever of unit, measurement and
\* rate was changed and in whatever order, and the tax in the total of a dummy quotation
\* is that of the percentages saved with it (quotation.py, dummy_quotation.py).
THEOREM ItemFollowsUnitAlways == ItemsSpec => [](ItemFollowsUnit /\ SavedTaxShown)
<1>1. ItemsInv => ItemFollowsUnit /\ SavedTaxShown
  BY DEF ItemsInv
<1> QED BY <1>1, ItemsInitInv, ItemsNextInv, PTL DEF ItemsSpec

-----------------------------------------------------------------------------
(* What a contractor is owed and has been paid.                             *)

\* What an overlapping payment has read, if it has read anything.
PaymentView == [contractor : ContractorRow, payables : [ContractorBill -> PayableRow]]
ViewsHeld ==
    \A r \in Paying : paying[r] # NotOwed => paying[r] \in PaymentView /\ contractor # NoContractor
ContractorKept ==
    /\ spent \in Nat
    /\ contractor # NoContractor => contractor.total <= most
    /\ "contractor" \notin raced =>
          /\ contractor = NoContractor => spent = 0
          /\ contractor # NoContractor => contractor.given = spent /\ contractor.given <= most
\* Overlapping payments that saw room on a bill pay each its amount once more at most.
Roomy(b) == {r \in Paying : paying[r] # NotOwed /\ paying[r].payables[b].paid < BillAmount}
PaidFew(b) == payables[b].paid <= BillAmount * (1 + Cardinality(Paying) - Cardinality(Roomy(b)))
BillKept(row) ==
    /\ row.booked = row.paid
    /\ row.status \in {"none", "Draft", "Submitted", "Approved"} => row.paid = 0
\* A bill no overlapping payment wrote.
BillSettled(row) ==
    /\ row.paid <= BillAmount
    /\ row.status = "Partial" => row.paid > 0 /\ row.paid < BillAmount
    /\ row.status = "Paid" /\ ~row.set => row.paid = BillAmount
BillsKept ==
    \A b \in ContractorBill :
        BillKept(payables[b]) /\ PaidFew(b) /\ (b \notin raced => BillSettled(payables[b]))
ContractorsShaped ==
    /\ ContractorsTypeOK /\ paying = [r \in Paying |-> paying[r]] /\ spent \in Nat
ContractorsInv == ContractorsShaped /\ ViewsHeld /\ ContractorKept /\ BillsKept

LEMMA ContractorNumbers ==
    /\ BillAmount \in Nat /\ BillAmount > 0 /\ Cardinality(Paying) \in Nat
    /\ \A R \in SUBSET Paying : IsFiniteSet(R) /\ Cardinality(R) \in Nat /\ Cardinality(R) <= Cardinality(Paying)
    /\ Work \subseteq Nat /\ \A n \in Part : n \in Nat /\ n > 0
<1>1. IsFiniteSet(Paying) /\ Cardinality(Paying) \in Nat
  BY ContractorAssumption, FS_CardinalityType
<1>2. ASSUME NEW R \in SUBSET Paying
      PROVE  IsFiniteSet(R) /\ Cardinality(R) \in Nat /\ Cardinality(R) <= Cardinality(Paying)
  BY <1>1, FS_Subset, FS_CardinalityType
<1> QED BY <1>1, <1>2, ContractorAssumption

LEMMA PaidTimes ==
    /\ MostPaid \in Nat /\ MostPaid = BillAmount * (1 + Cardinality(Paying))
    /\ \A k \in Nat : k <= Cardinality(Paying) =>
          /\ BillAmount * (1 + Cardinality(Paying) - k) \in Nat
          /\ BillAmount * (1 + Cardinality(Paying) - k) <= MostPaid
          /\ BillAmount <= BillAmount * (1 + Cardinality(Paying) - k)
          /\ k > 0 => BillAmount * (1 + Cardinality(Paying) - (k - 1)) =
                      BillAmount * (1 + Cardinality(Paying) - k) + BillAmount
<1>1. PICK p \in Nat : p = Cardinality(Paying)
  BY ContractorNumbers
<1>2. PICK a \in Nat : a = BillAmount
  BY ContractorNumbers
<1>3. \A x, y \in Int : a * (x + y) = a * x + a * y /\ a * x \in Int
  OBVIOUS
<1>4. \A x \in Nat : a * x \in Nat
  BY <1>3
<1>5. MostPaid = a * (1 + p) /\ MostPaid \in Nat
  <2>1. MostPaid = a * (p + 1) /\ p + 1 = 1 + p /\ 1 + p \in Nat
    BY <1>1, <1>2 DEF MostPaid
  <2> QED BY <2>1, <1>4
<1>6. ASSUME NEW k \in Nat, k <= p
      PROVE  /\ a * (1 + p - k) \in Nat /\ a * (1 + p - k) <= MostPaid /\ a <= a * (1 + p - k)
             /\ k > 0 => a * (1 + p - (k - 1)) = a * (1 + p - k) + a
  <2>1. 1 + p - k \in Nat /\ p - k \in Nat /\ 1 + p - k = 1 + (p - k) /\ 1 + p = (1 + p - k) + k
    BY <1>6
  <2>2. a * (1 + p - k) \in Nat /\ a * (p - k) \in Nat /\ a * k \in Nat /\ a * 1 = a
    BY <2>1, <1>4
  <2>3. a * (1 + (p - k)) = a * 1 + a * (p - k)
    BY <2>1, <1>3
  <2>4. a * ((1 + p - k) + k) = a * (1 + p - k) + a * k
    BY <2>1, <1>3
  <2>5. 1 + p - (k - 1) = (1 + p - k) + 1 /\ a * ((1 + p - k) + 1) = a * (1 + p - k) + a * 1
    BY <2>1, <1>3
  <2>6. a <= a * (1 + p - k)
    BY <2>1, <2>2, <2>3
  <2>7. a * (1 + p - k) <= MostPaid
    BY <1>5, <2>1, <2>2, <2>4
  <2> QED BY <2>2, <2>5, <2>6, <2>7
<1> QED BY <1>1, <1>2, <1>5, <1>6

LEMMA ContractorsInvHolds == ContractorsInv => ContractorsTypeOK /\ BillsPaidOnce /\ GivenIsBooked
<1> SUFFICES ASSUME ContractorsInv PROVE ContractorsTypeOK /\ BillsPaidOnce /\ GivenIsBooked
  OBVIOUS
<1> USE DEF ContractorsInv
<1>1. ContractorsTypeOK
  BY DEF ContractorsShaped
<1>2. \A b \in ContractorBill : payables[b] \in PayableRow /\ payables[b].paid \in Nat /\ payables[b].set \in BOOLEAN
                                /\ payables[b].status \in PayableStatus
  BY <1>1, PaidTimes DEF ContractorsTypeOK, PayableRow
<1>3. GivenIsBooked
  <2>1. contractor # NoContractor => contractor.total \in Nat /\ contractor.given \in Nat
    BY <1>1 DEF ContractorsTypeOK, ContractorRow
  <2>2. contractor # NoContractor => (PendingReported <=> contractor.given < contractor.total)
    BY <2>1 DEF PendingReported, PaymentPending
  <2> QED BY <2>2 DEF ContractorKept, GivenIsBooked
<1>4. ASSUME NEW b \in ContractorBill, b \notin raced
      PROVE  /\ payables[b].paid <= BillAmount /\ payables[b].booked = payables[b].paid
             /\ (PayableListed(b) = "paid" <=> b \notin Outstanding)
             /\ (payables[b].status = "Partial" => PayableListed(b) = "partial" /\ DashboardOf(b) = "none")
             /\ ~payables[b].set => (payables[b].status = "Paid" <=> PayableListed(b) = "paid")
                                    /\ (ReconciledPaid(b) <= payables[b].paid)
  <2> DEFINE row == payables[b]
  <2>1. BillKept(row) /\ BillSettled(row)
    BY <1>4 DEF BillsKept
  <2>2. row.paid \in Nat /\ row.paid <= BillAmount /\ Pending2(row) = BillAmount - row.paid /\ BillAmount \in Nat /\ BillAmount > 0
    BY <1>2, <2>1, ContractorNumbers DEF BillSettled, Pending2
  <2>3. PayableListed(b) = IF row.paid = BillAmount THEN "paid" ELSE IF row.paid > 0 THEN "partial" ELSE "pending"
    BY <2>2 DEF PayableListed
  <2>4. b \in Outstanding <=> row.paid < BillAmount
    BY <2>2 DEF Outstanding
  <2>5. PayableListed(b) = "paid" <=> b \notin Outstanding
    BY <2>2, <2>3, <2>4
  <2>6. row.status = "Partial" => PayableListed(b) = "partial" /\ DashboardOf(b) = "none"
    BY <2>1, <2>2, <2>3 DEF BillSettled, DashboardOf
  <2>7. ~row.set => (row.status = "Paid" <=> row.paid = BillAmount)
    BY <1>2, <2>1, <2>2 DEF BillSettled, BillKept, PayableStatus
  <2>8. ~row.set => ReconciledPaid(b) <= row.paid
    BY <2>2, <2>7 DEF ReconciledPaid
  <2> QED BY <2>1, <2>2, <2>3, <2>5, <2>6, <2>7, <2>8 DEF BillKept
<1>5. ASSUME raced \cap ContractorBill = {} PROVE PendingTotal = PendingOf(Outstanding)
  <2> DEFINE f == [b \in ContractorBill |-> Pending2(payables[b])]
             g == [b \in Outstanding |-> Pending2(payables[b])]
  <2>1. \A b \in ContractorBill : f[b] \in Nat /\ (b \notin Outstanding => f[b] = 0)
    <3>1. ASSUME NEW b \in ContractorBill
          PROVE  Pending2(payables[b]) \in Nat /\ (b \notin Outstanding => Pending2(payables[b]) = 0)
      <4>1. payables[b].paid \in Nat /\ payables[b].paid <= BillAmount /\ BillAmount \in Nat
        BY <1>2, <1>4, <1>5, ContractorNumbers
      <4>2. Pending2(payables[b]) = BillAmount - payables[b].paid
        BY DEF Pending2
      <4> QED BY <4>1, <4>2 DEF Outstanding
    <3> QED BY <3>1
  <2>2. Outstanding \subseteq ContractorBill /\ \A b \in Outstanding : g[b] = f[b]
    BY DEF Outstanding
  <2>3. DOMAIN f = ContractorBill /\ DOMAIN g = Outstanding
    OBVIOUS
  <2>4. PendingTotal = TotalOf(f) /\ PendingOf(Outstanding) = TotalOf(g)
    BY DEF PendingTotal, PendingOf
  <2> HIDE DEF f, g
  <2>5. UnitsOf(f) = UnitsOf(g)
    <3>1. \A b \in ContractorBill \ Outstanding : 1..f[b] = {}
      BY <2>1
    <3>2. \A x : x \in UnitsOf(f) <=> \E b \in ContractorBill : x \in {b} \X (1..f[b])
      BY <2>3 DEF UnitsOf
    <3>3. \A x : x \in UnitsOf(g) <=> \E b \in Outstanding : x \in {b} \X (1..f[b])
      BY <2>2, <2>3 DEF UnitsOf
    <3>4. \A x : x \in UnitsOf(f) <=> x \in UnitsOf(g)
      BY <2>2, <3>1, <3>2, <3>3
    <3> QED BY <3>4
  <2>6. UnitsOf(Opposite(f)) = {} /\ UnitsOf(Opposite(g)) = {}
    <3>1. \A b \in ContractorBill : 1..-f[b] = {}
      BY <2>1
    <3>2. DOMAIN Opposite(f) = ContractorBill /\ DOMAIN Opposite(g) = Outstanding
      BY <2>3 DEF Opposite
    <3>3. \A b \in ContractorBill : 1..Opposite(f)[b] = {}
      BY <2>3, <3>1 DEF Opposite
    <3>4. \A b \in Outstanding : 1..Opposite(g)[b] = {}
      BY <2>2, <2>3, <3>1 DEF Opposite
    <3>5. ~\E x : x \in UnitsOf(Opposite(f))
      BY <3>2, <3>3 DEF UnitsOf
    <3>6. ~\E x : x \in UnitsOf(Opposite(g))
      BY <3>2, <3>4 DEF UnitsOf
    <3> QED BY <3>5, <3>6
  <2> QED BY <2>4, <2>5, <2>6 DEF TotalOf
<1>6. BillsPaidOnce
  BY <1>4, <1>5 DEF BillsPaidOnce
<1> QED BY <1>1, <1>3, <1>6

LEMMA ContractorsInitInv == ContractorsInit => ContractorsInv
<1> SUFFICES ASSUME ContractorsInit PROVE ContractorsInv
  OBVIOUS
<1> USE DEF ContractorsInit
<1>1. ContractorsShaped
  BY PaidTimes DEF ContractorsShaped, ContractorsTypeOK, PayableRow, PayableStatus
<1>2. ViewsHeld /\ ContractorKept
  BY DEF ViewsHeld, ContractorKept
<1>3. ASSUME NEW b \in ContractorBill
      PROVE  BillKept(payables[b]) /\ PaidFew(b) /\ (b \notin raced => BillSettled(payables[b]))
  <2>1. payables[b] = [status |-> "none", paid |-> 0, booked |-> 0, set |-> FALSE]
    OBVIOUS
  <2>2. Cardinality(Roomy(b)) \in Nat /\ Cardinality(Roomy(b)) <= Cardinality(Paying)
    BY ContractorNumbers DEF Roomy
  <2>3. PaidFew(b)
    BY <2>1, <2>2, PaidTimes DEF PaidFew
  <2> QED BY <2>1, <2>3, ContractorNumbers DEF BillKept, BillSettled
<1> QED BY <1>1, <1>2, <1>3 DEF ContractorsInv, BillsKept

LEMMA BillsSame ==
    ASSUME BillsKept, UNCHANGED <<payables, paying>>, raced \subseteq raced' PROVE BillsKept'
<1>1. \A b : Roomy(b)' = Roomy(b)
  BY DEF Roomy
<1> QED BY <1>1 DEF BillsKept, PaidFew

LEMMA ContractorRowInv ==
    ASSUME ContractorsInv, (\E n \in Work : CreateContractor(n) \/ UpdateContractor(n)) \/ DeleteContractor
    PROVE  ContractorsInv'
<1> USE DEF ContractorsInv
<1>1. UNCHANGED <<spent, payables, paying, raced>>
  BY DEF CreateContractor, UpdateContractor, DeleteContractor
<1>2. BillsKept'
  BY <1>1, BillsSame
<1>t. /\ contractor \in {NoContractor} \cup ContractorRow /\ most \in Nat /\ joined \subseteq JoinedProject
      /\ spent \in Nat
  BY DEF ContractorsShaped, ContractorsTypeOK
<1>3. CASE \E n \in Work : CreateContractor(n) \/ UpdateContractor(n)
  <2>1. PICK n \in Work : CreateContractor(n) \/ UpdateContractor(n)
    BY <1>3
  <2>2. n \in Nat /\ UNCHANGED joined
    BY <2>1, ContractorNumbers DEF CreateContractor, UpdateContractor
  <2>3. CASE CreateContractor(n)
    <3>1. contractor' = [total |-> n, given |-> 0] /\ most' = n /\ contractor = NoContractor
      BY <2>3 DEF CreateContractor
    <3>2. contractor' # NoContractor /\ contractor' \in ContractorRow
      BY <2>2, <3>1 DEF ContractorRow, NoContractor
    <3>3. ContractorKept'
      BY <1>1, <1>t, <2>2, <3>1, <3>2 DEF ContractorKept
    <3>4. ViewsHeld'
      BY <1>1, <3>2 DEF ViewsHeld
    <3>5. ContractorsShaped'
      BY <1>1, <1>t, <2>2, <3>1, <3>2 DEF ContractorsShaped, ContractorsTypeOK
    <3> QED BY <1>2, <3>3, <3>4, <3>5
  <2>4. CASE UpdateContractor(n)
    <3>0. contractor # NoContractor /\ contractor' = [contractor EXCEPT !.total = n]
          /\ most' = IF n > most THEN n ELSE most
      BY <2>4 DEF UpdateContractor
    <3>1. contractor \in ContractorRow
      BY <1>t, <3>0
    <3>2. contractor' \in ContractorRow /\ contractor'.total = n /\ contractor'.given = contractor.given
      BY <2>2, <3>0, <3>1 DEF ContractorRow
    <3>3. contractor' # NoContractor
      BY <3>2 DEF ContractorRow, NoContractor
    <3>4. most' \in Nat /\ n <= most' /\ most <= most'
      BY <1>t, <2>2, <3>0
    <3>5. contractor.given \in Nat /\ contractor'.given \in Nat
      BY <3>1, <3>2 DEF ContractorRow
    <3>6. ContractorKept'
      BY <1>1, <1>t, <3>0, <3>2, <3>3, <3>4, <3>5 DEF ContractorKept
    <3>7. ViewsHeld'
      BY <1>1, <3>3 DEF ViewsHeld
    <3>8. ContractorsShaped'
      BY <1>1, <2>2, <3>2, <3>4 DEF ContractorsShaped, ContractorsTypeOK
    <3> QED BY <1>2, <3>6, <3>7, <3>8
  <2> QED BY <2>1, <2>3, <2>4
<1>4. CASE DeleteContractor
  <2>1. /\ contractor # NoContractor /\ contractor.given = 0 /\ \A r \in Paying : paying[r] = NotOwed
        /\ contractor' = NoContractor /\ joined' = {} /\ most' = 0
    BY <1>4 DEF DeleteContractor
  <2>2. ViewsHeld'
    BY <1>1, <2>1 DEF ViewsHeld
  <2>3. ContractorKept'
    BY <1>1, <1>t, <2>1 DEF ContractorKept
  <2>4. ContractorsShaped'
    BY <1>1, <2>1 DEF ContractorsShaped, ContractorsTypeOK
  <2> QED BY <1>2, <2>2, <2>3, <2>4
<1> QED BY <1>3, <1>4

LEMMA AssignProjectInv == ASSUME ContractorsInv, NEW j \in JoinedProject, AssignProject(j) PROVE ContractorsInv'
<1> USE DEF ContractorsInv, AssignProject
<1>1. BillsKept'
  BY BillsSame
<1>2. ContractorsShaped' /\ ViewsHeld' /\ ContractorKept'
  BY DEF ContractorsShaped, ContractorsTypeOK, ViewsHeld, ContractorKept
<1> QED BY <1>1, <1>2

LEMMA SetBillInv ==
    ASSUME ContractorsInv, NEW b \in ContractorBill, CreateBill(b) \/ SubmitBill(b) \/ ApproveBill(b) \/ PayBill(b)
    PROVE  ContractorsInv'
<1> USE DEF ContractorsInv
<1>1. PICK from, to, hand :
          /\ SetBill(b, from, to, hand)
          /\ from \in {"none", "Draft", "Submitted", "Approved"} /\ to \in PayableStatus /\ hand \in BOOLEAN
          /\ to \in {"Draft", "Submitted", "Approved", "Paid"} /\ (to = "Paid" => hand)
  <2> DEFINE Sets(from, to, hand) ==
          /\ SetBill(b, from, to, hand)
          /\ from \in {"none", "Draft", "Submitted", "Approved"} /\ to \in PayableStatus /\ hand \in BOOLEAN
          /\ to \in {"Draft", "Submitted", "Approved", "Paid"} /\ (to = "Paid" => hand)
  <2>1. CreateBill(b) => Sets("none", "Draft", FALSE)
    BY DEF CreateBill, PayableStatus
  <2>2. SubmitBill(b) => Sets("Draft", "Submitted", FALSE)
    BY DEF SubmitBill, PayableStatus
  <2>3. ApproveBill(b) => Sets("Submitted", "Approved", FALSE)
    BY DEF ApproveBill, PayableStatus
  <2>4. PayBill(b) => Sets("Approved", "Paid", TRUE)
    BY DEF PayBill, PayableStatus
  <2>5. \E from, to, hand : Sets(from, to, hand)
    <3> HIDE DEF Sets
    <3> QED BY <2>1, <2>2, <2>3, <2>4
  <2> QED BY <2>5
<1>2. /\ payables[b].status = from /\ payables' = [payables EXCEPT ![b].status = to, ![b].set = @ \/ hand]
      /\ UNCHANGED <<contractor, joined, spent, paying, raced, most>>
  BY <1>1 DEF SetBill
<1>3. payables \in [ContractorBill -> PayableRow]
  BY DEF ContractorsShaped, ContractorsTypeOK
<1>4. /\ payables'[b] = [payables[b] EXCEPT !.status = to, !.set = @ \/ hand]
      /\ \A c \in ContractorBill \ {b} : payables'[c] = payables[c]
      /\ payables' = [c \in ContractorBill |-> payables'[c]]
  BY <1>2, <1>3
<1>5. /\ payables'[b] \in PayableRow /\ payables'[b].status = to /\ payables'[b].paid = payables[b].paid
      /\ payables'[b].booked = payables[b].booked /\ (hand => payables'[b].set)
  <2>1. PICK row \in PayableRow : row = payables[b]
    BY <1>3
  <2>2. PICK new : new = [row EXCEPT !.status = to, !.set = @ \/ hand]
    OBVIOUS
  <2>3. row.set \in BOOLEAN
    BY DEF PayableRow
  <2>4. PICK s \in BOOLEAN : s = (row.set \/ hand)
    BY <1>1, <2>3
  <2>5. new = [row EXCEPT !.status = to, !.set = s]
    BY <2>2, <2>4
  <2>6. new \in PayableRow /\ new.status = to /\ new.paid = row.paid /\ new.booked = row.booked /\ new.set = s
    BY <1>1, <2>5 DEF PayableRow
  <2>7. hand => new.set
    BY <2>4, <2>6
  <2>8. payables'[b] = new
    BY <1>4, <2>1, <2>2
  <2> QED BY <2>1, <2>6, <2>7, <2>8
<1>6. payables' \in [ContractorBill -> PayableRow]
  BY <1>3, <1>4, <1>5
<1>7. \A c : Roomy(c)' = Roomy(c)
  BY <1>2 DEF Roomy
<1>8. ASSUME NEW c \in ContractorBill
      PROVE  (BillKept(payables[c]) /\ PaidFew(c) /\ (c \notin raced => BillSettled(payables[c])))'
  <2>1. BillKept(payables[c]) /\ PaidFew(c) /\ (c \notin raced => BillSettled(payables[c]))
    BY DEF BillsKept
  <2>2. CASE c # b
    BY <1>2, <1>4, <1>7, <2>1, <2>2 DEF PaidFew
  <2>3. CASE c = b
    <3>1. payables[b].paid = 0 /\ payables'[b].paid = 0
      BY <1>1, <1>2, <1>5, <2>1, <2>3 DEF BillKept
    <3>2. PaidFew(b)'
      BY <1>5, <1>7, <2>1, <2>3 DEF PaidFew
    <3>3. BillKept(payables'[b])
      BY <1>5, <2>1, <2>3, <3>1 DEF BillKept
    <3>4. BillSettled(payables'[b])
      BY <1>1, <1>5, <3>1, ContractorNumbers DEF BillSettled
    <3> QED BY <2>3, <3>2, <3>3, <3>4
  <2> QED BY <2>2, <2>3
<1>9. BillsKept'
  BY <1>8 DEF BillsKept
<1>10. ContractorsShaped' /\ ViewsHeld' /\ ContractorKept'
  BY <1>2, <1>6 DEF ContractorsShaped, ContractorsTypeOK, ViewsHeld, ContractorKept
<1> QED BY <1>9, <1>10

\* Views: what a payment reads, or has read.
LEMMA PaymentViews ==
    ASSUME ContractorsInv
    PROVE  /\ contractor # NoContractor => Owed2 \in PaymentView
           /\ \A r \in Paying : paying[r] # NotOwed => paying[r] \in PaymentView /\ contractor # NoContractor
           /\ NotOwed.contractor = NoContractor
           /\ \A v \in PaymentView : v # NotOwed /\ v.contractor \in ContractorRow /\ v.contractor # NoContractor
                                     /\ v.payables \in [ContractorBill -> PayableRow]
<1>1. contractor # NoContractor => Owed2 \in PaymentView
  BY DEF ContractorsInv, ContractorsShaped, ContractorsTypeOK, Owed2, PaymentView
<1>2. \A row \in ContractorRow : row # NoContractor
  BY DEF ContractorRow, NoContractor
<1>3. NotOwed.contractor = NoContractor
  BY DEF NotOwed
<1> QED BY <1>1, <1>2, <1>3 DEF ContractorsInv, ViewsHeld, PaymentView

\* The slots after a step: the one whose view is used ends, or none.
LEMMA RoomLeft ==
    ASSUME ContractorsInv, NEW b \in ContractorBill, NEW r \in Paying, paying' = [paying EXCEPT ![r] = NotOwed]
    PROVE  /\ Roomy(b)' = Roomy(b) \ {r}
           /\ Cardinality(Roomy(b)) \in Nat /\ Cardinality(Roomy(b)) <= Cardinality(Paying)
           /\ Cardinality(Roomy(b)') \in Nat /\ Cardinality(Roomy(b)') <= Cardinality(Roomy(b))
           /\ r \in Roomy(b) => Cardinality(Roomy(b)') = Cardinality(Roomy(b)) - 1
<1>1. paying = [s \in Paying |-> paying[s]]
  BY DEF ContractorsInv, ContractorsShaped
<1>2. Roomy(b)' = Roomy(b) \ {r}
  BY <1>1 DEF Roomy
<1>3. Roomy(b) \in SUBSET Paying /\ Roomy(b) \ {r} \in SUBSET Paying
  BY DEF Roomy
<1>4. IsFiniteSet(Roomy(b)) /\ Cardinality(Roomy(b)) \in Nat /\ Cardinality(Roomy(b)) <= Cardinality(Paying)
      /\ Cardinality(Roomy(b) \ {r}) \in Nat
  BY <1>3, ContractorNumbers
<1>5. Cardinality(Roomy(b) \ {r}) = IF r \in Roomy(b) THEN Cardinality(Roomy(b)) - 1 ELSE Cardinality(Roomy(b))
  BY <1>4, FS_RemoveElement
<1> QED BY <1>2, <1>4, <1>5

LEMMA BeginPaymentInv == ASSUME ContractorsInv, NEW r \in Paying, BeginPayment(r) PROVE ContractorsInv'
<1> USE DEF ContractorsInv
<1>1. /\ paying[r] = NotOwed /\ contractor # NoContractor /\ paying' = [paying EXCEPT ![r] = Owed2]
      /\ UNCHANGED <<contractor, joined, spent, payables, raced, most>> /\ Owed2 \in PaymentView
  BY PaymentViews DEF BeginPayment
<1>2. /\ paying' = [s \in Paying |-> paying'[s]] /\ paying'[r] = Owed2
      /\ \A s \in Paying \ {r} : paying'[s] = paying[s]
  BY <1>1 DEF ContractorsShaped
<1>3. ContractorsShaped' /\ ContractorKept'
  BY <1>1, <1>2 DEF ContractorsShaped, ContractorsTypeOK, ContractorKept
<1>4. ViewsHeld'
  BY <1>1, <1>2 DEF ViewsHeld
<1>5. ASSUME NEW b \in ContractorBill PROVE PaidFew(b)'
  <2>1. Roomy(b) \in SUBSET Paying /\ Roomy(b)' \in SUBSET Paying
    BY DEF Roomy
  <2>2. Cardinality(Roomy(b)') \in Nat /\ Cardinality(Roomy(b)') <= Cardinality(Paying)
    BY <2>1, ContractorNumbers
  <2>3. PaidFew(b)
    BY DEF BillsKept
  <2>4. CASE payables[b].paid < BillAmount
    <3>1. payables[b].paid \in Nat
      BY PaidTimes DEF ContractorsShaped, ContractorsTypeOK, PayableRow
    <3>2. /\ BillAmount <= BillAmount * (1 + Cardinality(Paying) - Cardinality(Roomy(b)'))
          /\ BillAmount * (1 + Cardinality(Paying) - Cardinality(Roomy(b)')) \in Nat
      BY <2>2, PaidTimes
    <3>3. payables[b].paid <= BillAmount * (1 + Cardinality(Paying) - Cardinality(Roomy(b)'))
      BY <2>4, <3>1, <3>2, ContractorNumbers
    <3> QED BY <1>1, <3>3 DEF PaidFew
  <2>5. CASE ~(payables[b].paid < BillAmount)
    <3>1. ~(Owed2.payables[b].paid < BillAmount)
      BY <2>5 DEF Owed2
    <3>2. Roomy(b)' = Roomy(b)
      BY <1>1, <1>2, <3>1 DEF Roomy
    <3> QED BY <1>1, <2>3, <3>2 DEF PaidFew
  <2> QED BY <2>4, <2>5
<1>6. BillsKept'
  BY <1>1, <1>5 DEF BillsKept
<1> QED BY <1>3, <1>4, <1>6

\* One payment of the contractor, on a view and with the slots it leaves.
LEMMA PayContractorInv ==
    ASSUME ContractorsInv, NEW n \in Part, NEW view \in PaymentView, contractor # NoContractor,
           PayContractor(n, view), UNCHANGED paying \/ \E r \in Paying : paying' = [paying EXCEPT ![r] = NotOwed]
    PROVE  ContractorsInv'
<1> USE DEF ContractorsInv
<1>1. /\ contractor' = [contractor EXCEPT !.given = view.contractor.given + n] /\ spent' = spent + n
      /\ raced' = IF view.contractor = contractor THEN raced ELSE raced \cup {"contractor"}
      /\ UNCHANGED <<joined, payables, most>> /\ WithinWork(n, view.contractor)
  BY DEF PayContractor
<1>2. /\ contractor \in ContractorRow /\ view.contractor \in ContractorRow /\ n \in Nat /\ spent \in Nat /\ most \in Nat
  BY PaymentViews, ContractorNumbers DEF ContractorsShaped, ContractorsTypeOK
<1>3. contractor.total \in Nat /\ contractor.given \in Nat /\ view.contractor.given \in Nat /\ view.contractor.total \in Nat
  BY <1>2 DEF ContractorRow
<1>4. /\ contractor' \in ContractorRow /\ contractor'.total = contractor.total
      /\ contractor'.given = view.contractor.given + n
  BY <1>1, <1>2, <1>3 DEF ContractorRow
<1>5. contractor' # NoContractor
  BY <1>4, PaymentViews DEF ContractorRow, NoContractor
<1>6. ContractorKept'
  <2>1. spent' \in Nat /\ contractor'.total <= most'
    BY <1>1, <1>2, <1>4 DEF ContractorKept
  <2>2. ASSUME "contractor" \notin raced' PROVE contractor'.given = spent' /\ contractor'.given <= most'
    <3>1. view.contractor = contractor /\ "contractor" \notin raced
      BY <1>1, <2>2
    <3>2. contractor.given = spent /\ contractor.total <= most
      BY <3>1 DEF ContractorKept
    <3>3. contractor.given + n <= contractor.total
      BY <1>1, <3>1 DEF WithinWork
    <3> QED BY <1>1, <1>2, <1>3, <1>4, <3>1, <3>2, <3>3
  <2> QED BY <1>5, <2>1, <2>2 DEF ContractorKept
<1>7. paying' = [s \in Paying |-> paying'[s]] /\ \A s \in Paying : paying'[s] = NotOwed \/ paying'[s] = paying[s]
  BY DEF ContractorsShaped
<1>8. ViewsHeld'
  BY <1>5, <1>7 DEF ViewsHeld
<1>9. ContractorsShaped'
  BY <1>1, <1>2, <1>4, <1>7 DEF ContractorsShaped, ContractorsTypeOK
<1>10. ASSUME NEW b \in ContractorBill PROVE PaidFew(b)'
  <2>1. PaidFew(b)
    BY DEF BillsKept
  <2>2. CASE UNCHANGED paying
    BY <1>1, <2>1, <2>2 DEF PaidFew, Roomy
  <2>3. CASE \E r \in Paying : paying' = [paying EXCEPT ![r] = NotOwed]
    <3>1. /\ Cardinality(Roomy(b)) \in Nat /\ Cardinality(Roomy(b)) <= Cardinality(Paying)
          /\ Cardinality(Roomy(b)') = Cardinality(Roomy(b)) \/ Cardinality(Roomy(b)') = Cardinality(Roomy(b)) - 1
          /\ Cardinality(Roomy(b)') \in Nat
      <4>1. PICK r \in Paying : paying' = [paying EXCEPT ![r] = NotOwed]
        BY <2>3
      <4>2. r \notin Roomy(b) => Roomy(b)' = Roomy(b)
        <5>1. Roomy(b)' = Roomy(b) \ {r}
          BY <4>1, RoomLeft
        <5> QED BY <5>1
      <4> QED BY <4>1, <4>2, RoomLeft
    <3>2. BillAmount * (1 + Cardinality(Paying) - Cardinality(Roomy(b))) <=
              BillAmount * (1 + Cardinality(Paying) - Cardinality(Roomy(b)'))
      <4>1. CASE Cardinality(Roomy(b)') = Cardinality(Roomy(b))
        BY <3>1, <4>1, PaidTimes
      <4>2. CASE Cardinality(Roomy(b)') = Cardinality(Roomy(b)) - 1
        <5>1. Cardinality(Roomy(b)) > 0
          BY <3>1, <4>2
        <5>2. /\ BillAmount * (1 + Cardinality(Paying) - (Cardinality(Roomy(b)) - 1)) =
                     BillAmount * (1 + Cardinality(Paying) - Cardinality(Roomy(b))) + BillAmount
              /\ BillAmount * (1 + Cardinality(Paying) - Cardinality(Roomy(b))) \in Nat
          BY <3>1, <5>1, PaidTimes
        <5> QED BY <4>2, <5>2, ContractorNumbers
      <4> QED BY <3>1, <4>1, <4>2
    <3>3. payables[b].paid \in Nat /\ BillAmount * (1 + Cardinality(Paying) - Cardinality(Roomy(b))) \in Nat
          /\ BillAmount * (1 + Cardinality(Paying) - Cardinality(Roomy(b)')) \in Nat
      <4>1. payables[b].paid \in Nat
        BY PaidTimes DEF ContractorsShaped, ContractorsTypeOK, PayableRow
      <4>2. Cardinality(Roomy(b)') <= Cardinality(Paying)
        BY <3>1, ContractorNumbers
      <4> QED BY <3>1, <4>1, <4>2, PaidTimes
    <3>4. payables[b].paid <= BillAmount * (1 + Cardinality(Paying) - Cardinality(Roomy(b)'))
      BY <2>1, <3>2, <3>3 DEF PaidFew
    <3> QED BY <1>1, <3>4 DEF PaidFew
  <2> QED BY <2>2, <2>3
<1>11. BillsKept'
  BY <1>1, <1>10 DEF BillsKept
<1> QED BY <1>6, <1>8, <1>9, <1>11

\* One payment of a bill: the view it decided on is the tables', or a slot's that ends.
LEMMA PayPayableInv ==
    ASSUME ContractorsInv, NEW b \in ContractorBill, NEW n \in Part, NEW view \in PaymentView, contractor # NoContractor,
           PayPayable(b, n, view),
           \/ view = Owed2 /\ UNCHANGED paying
           \/ \E r \in Paying : view = paying[r] /\ paying' = [paying EXCEPT ![r] = NotOwed]
    PROVE  ContractorsInv'
<1> USE DEF ContractorsInv
<1> DEFINE old == view.payables[b]
           status == Settled2(old.paid + n)
           k == Cardinality(Roomy(b))
<1>1. /\ Payable2(n, old)
      /\ payables' = [payables EXCEPT ![b].paid = @ + n, ![b].booked = @ + n, ![b].status = status]
      /\ raced' = IF old = payables[b] THEN raced ELSE raced \cup {b}
      /\ UNCHANGED <<contractor, joined, spent, most>>
  BY DEF PayPayable
<1>2. payables \in [ContractorBill -> PayableRow] /\ old \in PayableRow /\ n \in Nat /\ n > 0
  BY PaymentViews, ContractorNumbers DEF ContractorsShaped, ContractorsTypeOK
<1>3. payables[b].paid \in Nat /\ old.paid \in Nat /\ payables[b] \in PayableRow
  BY <1>2, PaidTimes DEF PayableRow
<1>4. old.paid + n <= BillAmount /\ old.paid < BillAmount
  BY <1>1, <1>2, <1>3, ContractorNumbers DEF Payable2, Pending2
<1>5. status \in PayableStatus /\ status \in {"Partial", "Paid"} /\ (status = "Paid" <=> old.paid + n = BillAmount)
  BY DEF Settled2, PayableStatus
<1>6. /\ payables'[b] = [payables[b] EXCEPT !.paid = @ + n, !.booked = @ + n, !.status = status]
      /\ \A c \in ContractorBill \ {b} : payables'[c] = payables[c]
      /\ payables' = [c \in ContractorBill |-> payables'[c]]
  BY <1>1, <1>2
<1>7. /\ payables'[b].paid = payables[b].paid + n /\ payables'[b].booked = payables[b].booked + n
      /\ payables'[b].status = status /\ payables'[b].set = payables[b].set
      /\ payables'[b] = [status |-> status, paid |-> payables[b].paid + n, booked |-> payables[b].booked + n, set |-> payables[b].set]
  BY <1>3, <1>6 DEF PayableRow
<1> HIDE DEF status, old
<1>8. ASSUME NEW c \in ContractorBill
      PROVE  /\ Cardinality(Roomy(c)) \in Nat /\ Cardinality(Roomy(c)) <= Cardinality(Paying)
             /\ Cardinality(Roomy(c)') \in Nat /\ Cardinality(Roomy(c)') <= Cardinality(Roomy(c))
             /\ Cardinality(Roomy(c)') = Cardinality(Roomy(c)) \/ Cardinality(Roomy(c)') = Cardinality(Roomy(c)) - 1
             /\ ~(view = Owed2) /\ c = b => Cardinality(Roomy(c)') = Cardinality(Roomy(c)) - 1
  <2>1. CASE view = Owed2 /\ UNCHANGED paying
    <3>1. Roomy(c)' = Roomy(c) /\ Roomy(c) \in SUBSET Paying
      BY <2>1 DEF Roomy
    <3> QED BY <2>1, <3>1, ContractorNumbers
  <2>2. CASE \E r \in Paying : view = paying[r] /\ paying' = [paying EXCEPT ![r] = NotOwed]
    <3>1. PICK r \in Paying : view = paying[r] /\ paying' = [paying EXCEPT ![r] = NotOwed]
      BY <2>2
    <3>2. r \in Roomy(b)
      BY <1>4, <3>1, PaymentViews DEF Roomy, old
    <3>3. r \notin Roomy(c) => Roomy(c)' = Roomy(c)
      <4>1. Roomy(c)' = Roomy(c) \ {r}
        BY <3>1, RoomLeft
      <4> QED BY <4>1
    <3> QED BY <3>1, <3>2, <3>3, RoomLeft
  <2> QED BY <2>1, <2>2
<1>9. ASSUME NEW c \in ContractorBill
      PROVE  /\ payables[c].paid <= BillAmount * (1 + Cardinality(Paying) - Cardinality(Roomy(c)))
             /\ BillAmount * (1 + Cardinality(Paying) - Cardinality(Roomy(c))) \in Nat
             /\ BillAmount * (1 + Cardinality(Paying) - Cardinality(Roomy(c)')) \in Nat
             /\ BillAmount * (1 + Cardinality(Paying) - Cardinality(Roomy(c)')) <= MostPaid
             /\ BillAmount <= BillAmount * (1 + Cardinality(Paying) - Cardinality(Roomy(c)'))
             /\ Cardinality(Roomy(c)') = Cardinality(Roomy(c)) - 1 =>
                   BillAmount * (1 + Cardinality(Paying) - Cardinality(Roomy(c)')) =
                       BillAmount * (1 + Cardinality(Paying) - Cardinality(Roomy(c))) + BillAmount
  <2>1. Cardinality(Roomy(c)') <= Cardinality(Paying)
    BY <1>8, ContractorNumbers
  <2>2. PaidFew(c)
    BY DEF BillsKept
  <2>3. Cardinality(Roomy(c)') = Cardinality(Roomy(c)) - 1 => Cardinality(Roomy(c)) > 0
    BY <1>8
  <2> QED BY <1>8, <2>1, <2>2, <2>3, PaidTimes DEF PaidFew
<1>10. ASSUME NEW c \in ContractorBill PROVE payables'[c].paid <= BillAmount * (1 + Cardinality(Paying) - Cardinality(Roomy(c)'))
  <2>0. payables[c].paid \in Nat
    BY <1>2, PaidTimes DEF PayableRow
  <2>1. CASE c # b
    <3>1. payables'[c].paid = payables[c].paid
      BY <1>6, <2>1
    <3>2. Cardinality(Roomy(c)') = Cardinality(Roomy(c)) \/ Cardinality(Roomy(c)') = Cardinality(Roomy(c)) - 1
      BY <1>8
    <3>3. CASE Cardinality(Roomy(c)') = Cardinality(Roomy(c))
      BY <1>9, <3>1, <3>3
    <3>4. CASE Cardinality(Roomy(c)') = Cardinality(Roomy(c)) - 1
      BY <1>9, <2>0, <3>1, <3>4, ContractorNumbers
    <3> QED BY <3>2, <3>3, <3>4
  <2>2. CASE c = b /\ view = Owed2
    <3>1. payables'[c].paid <= BillAmount /\ payables'[c].paid \in Nat
      BY <1>2, <1>3, <1>4, <1>7, <2>2 DEF Owed2, old
    <3> QED BY <1>9, <3>1, ContractorNumbers
  <2>3. CASE c = b /\ ~(view = Owed2)
    <3>1. BillAmount * (1 + Cardinality(Paying) - Cardinality(Roomy(c)')) =
              BillAmount * (1 + Cardinality(Paying) - Cardinality(Roomy(c))) + BillAmount
      BY <1>8, <1>9, <2>3
    <3>2. payables'[c].paid = payables[c].paid + n /\ n <= BillAmount
      BY <1>2, <1>3, <1>4, <1>7, <2>3, ContractorNumbers
    <3> QED BY <1>2, <1>9, <2>0, <3>1, <3>2, ContractorNumbers
  <2> QED BY <2>1, <2>2, <2>3
<1>11. payables[b].booked = payables[b].paid
  BY DEF BillsKept, BillKept
<1>12. payables'[b] \in PayableRow
  <2>1. payables'[b].paid \in 0..MostPaid
    BY <1>2, <1>3, <1>7, <1>9, <1>10, PaidTimes
  <2>2. payables[b].set \in BOOLEAN
    BY <1>3 DEF PayableRow
  <2> QED BY <1>5, <1>7, <1>11, <2>1, <2>2 DEF PayableRow
<1>13. payables' \in [ContractorBill -> PayableRow]
  BY <1>2, <1>6, <1>12
<1>14. ASSUME NEW c \in ContractorBill
       PROVE  (BillKept(payables[c]) /\ PaidFew(c) /\ (c \notin raced => BillSettled(payables[c])))'
  <2>1. BillKept(payables[c]) /\ (c \notin raced => BillSettled(payables[c]))
    BY DEF BillsKept
  <2>2. PaidFew(c)'
    BY <1>10 DEF PaidFew
  <2>3. CASE c # b
    <3>1. c \notin raced' => c \notin raced
      BY <1>1
    <3> QED BY <1>6, <2>1, <2>2, <2>3, <3>1
  <2>4. CASE c = b
    <3>1. BillKept(payables'[b])
      BY <1>5, <1>7, <1>11 DEF BillKept
    <3>2. ASSUME b \notin raced' PROVE BillSettled(payables'[b])
      <4>1. old = payables[b]
        BY <1>1, <3>2
      <4>2. payables'[b].paid = old.paid + n
        BY <1>7, <4>1
      <4>3. payables'[b].paid > 0
        BY <1>2, <1>3, <4>2
      <4> QED BY <1>3, <1>4, <1>5, <1>7, <4>2, <4>3, ContractorNumbers DEF BillSettled
    <3> QED BY <2>2, <2>4, <3>1, <3>2
  <2> QED BY <2>3, <2>4
<1>15. BillsKept'
  BY <1>14 DEF BillsKept
<1>16. paying' = [s \in Paying |-> paying'[s]] /\ \A s \in Paying : paying'[s] = NotOwed \/ paying'[s] = paying[s]
  BY DEF ContractorsShaped
<1>17. ViewsHeld'
  BY <1>1, <1>16 DEF ViewsHeld
<1>18. ContractorsShaped'
  BY <1>1, <1>13, <1>16 DEF ContractorsShaped, ContractorsTypeOK
<1>19. ContractorKept'
  <2>1. "contractor" \notin raced' => "contractor" \notin raced
    BY <1>1
  <2> QED BY <1>1, <2>1 DEF ContractorKept
<1> QED BY <1>15, <1>17, <1>18, <1>19

LEMMA ContractorsNextInv == ContractorsInv /\ [ContractorsNext]_contractorVars => ContractorsInv'
<1> SUFFICES ASSUME ContractorsInv, [ContractorsNext]_contractorVars PROVE ContractorsInv'
  OBVIOUS
<1>1. CASE UNCHANGED contractorVars
  <2>1. UNCHANGED <<contractor, joined, spent, payables, paying, raced, most>>
    BY <1>1 DEF contractorVars
  <2>2. BillsKept'
    BY <2>1, BillsSame DEF ContractorsInv
  <2> QED BY <2>1, <2>2 DEF ContractorsInv, ContractorsShaped, ContractorsTypeOK, ViewsHeld, ContractorKept
<1>2. ASSUME NEW n \in Part, NEW view, view = Owed2 \/ \E r \in Paying : view = paying[r] /\ paying[r] # NotOwed,
             PayContractor(n, view) \/ \E b \in ContractorBill : PayPayable(b, n, view)
      PROVE  view \in PaymentView /\ contractor # NoContractor
  <2>1. view.contractor # NoContractor
    BY <1>2 DEF PayContractor, PayPayable
  <2>2. CASE view = Owed2
    BY <2>1, <2>2, PaymentViews DEF Owed2
  <2>3. CASE \E r \in Paying : view = paying[r] /\ paying[r] # NotOwed
    BY <2>3, PaymentViews
  <2> QED BY <1>2, <2>2, <2>3
<1>3. ASSUME NEW n \in Part, PayContractor(n, Owed2), UNCHANGED paying PROVE ContractorsInv'
  BY <1>2, <1>3, PayContractorInv
<1>4. ASSUME NEW n \in Part, NEW b \in ContractorBill, PayPayable(b, n, Owed2), UNCHANGED paying PROVE ContractorsInv'
  BY <1>2, <1>4, PayPayableInv
<1>5. ASSUME NEW r \in Paying, CommitPayment(r) PROVE ContractorsInv'
  <2>1. /\ paying[r] # NotOwed /\ paying' = [paying EXCEPT ![r] = NotOwed]
        /\ \E n \in Part : PayContractor(n, paying[r]) \/ \E b \in ContractorBill : PayPayable(b, n, paying[r])
    BY <1>5 DEF CommitPayment
  <2>2. PICK n \in Part : PayContractor(n, paying[r]) \/ \E b \in ContractorBill : PayPayable(b, n, paying[r])
    BY <2>1
  <2>3. PICK view : view = paying[r]
    OBVIOUS
  <2>4. view \in PaymentView /\ contractor # NoContractor
    BY <1>2, <2>1, <2>2, <2>3
  <2>5. CASE PayContractor(n, view)
    BY <2>1, <2>4, <2>5, PayContractorInv
  <2>6. ASSUME NEW b \in ContractorBill, PayPayable(b, n, view) PROVE ContractorsInv'
    BY <2>1, <2>3, <2>4, <2>6, PayPayableInv
  <2> QED BY <2>2, <2>3, <2>5, <2>6
<1> QED BY <1>1, <1>3, <1>4, <1>5, ContractorRowInv, AssignProjectInv, SetBillInv, BeginPaymentInv DEF ContractorsNext

\* No bill that overlapping payments did not write is paid beyond its amount, and the
\* reports agree on it; and a contractor has been given what was booked, within the
\* most work assigned (contractor.py, accountant.py, billing.py).
THEOREM PaidAsBookedAlways == ContractorsSpec => [](BillsPaidOnce /\ GivenIsBooked)
<1>1. ContractorsInv => BillsPaidOnce /\ GivenIsBooked
  BY ContractorsInvHolds
<1> QED BY <1>1, ContractorsInitInv, ContractorsNextInv, PTL DEF ContractorsSpec

-----------------------------------------------------------------------------
(* The accountant's records: nothing is there twice.                          *)

StatementTable == [StatementLine -> LineRow \cup {Missing}]
ReceiptTable == [Receipt -> [made : BOOLEAN, reversals : Nat]]
DeductionTable == [Deduction -> DeductionRow \cup {Missing}]
AssetTable == [Asset -> Nat \cup {-1}]
\* What a request has read: lines and assets that are there still.
RecordView ==
    [statement : StatementTable, onBank : SUBSET BankEntry, receipts : ReceiptTable,
     deductions : DeductionTable, assets : AssetTable]
ViewKept2(view) ==
    /\ view \in RecordView
    /\ \A s \in StatementLine : view.statement[s] # Missing => statement[s] # Missing
    /\ \A a \in Asset : view.assets[a] >= 0 => assets[a] >= 0
RecordsShaped ==
    /\ RecordsTypeOK
    /\ statement \in StatementTable /\ deductions \in DeductionTable
    /\ recording = [r \in Recording |-> recording[r]]
    /\ \A r \in Recording : recording[r] = NoView2 \/ ViewKept2(recording[r])

\* Two lines that are there with the same entry, or imported with the same key, are one.
EntryIs(s, e) == statement[s] # Missing /\ statement[s].entry = e
KeyIs(s, k) == statement[s] # Missing /\ statement[s].key = k /\ statement[s].imported
BillIs(t, b) == deductions[t] # Missing /\ deductions[t].bill = b
EntriesOnce ==
    \A e \in BankEntry \ (byHand \cup overlapped) : \A s, t \in StatementLine : EntryIs(s, e) /\ EntryIs(t, e) => s = t
KeysOnce == \A k \in LineKey \ overlapped : \A s, t \in StatementLine : KeyIs(s, k) /\ KeyIs(t, k) => s = t
ReceiptsOnce == \A r \in Receipt \ overlapped : receipts[r].reversals <= 1
BillsOnce == \A b \in DeductedBill \ overlapped : \A t, u \in Deduction : BillIs(t, b) /\ BillIs(u, b) => t = u
AssetsReduced ==
    \A a \in Asset : /\ assets[a] = -1 => depreciated[a] = 0
                     /\ a \notin overlapped => assets[a] \in {-1, depreciated[a]}
RecordsInv == RecordsShaped /\ EntriesOnce /\ KeysOnce /\ ReceiptsOnce /\ BillsOnce /\ AssetsReduced

LEMMA AtMostOne ==
    ASSUME NEW S, \A x, y \in S : x = y
    PROVE  Cardinality(S) <= 1
<1>1. CASE S = {}
  BY <1>1, FS_EmptySet
<1>2. CASE S # {}
  <2>1. PICK x \in S : S = {x}
    BY <1>2
  <2> QED BY <2>1, FS_Singleton
<1> QED BY <1>1, <1>2

LEMMA RecordsInvHolds == RecordsInv => RecordsTypeOK /\ RecordedOnce
<1> SUFFICES ASSUME RecordsInv PROVE RecordsTypeOK /\ RecordedOnce
  OBVIOUS
<1> USE DEF RecordsInv
<1>1. ASSUME NEW e \in BankEntry \ (byHand \cup overlapped)
      PROVE  Cardinality({s \in LinesIn(statement) : statement[s].entry = e}) <= 1
  <2>0. PICK S : S = {s \in LinesIn(statement) : statement[s].entry = e}
    OBVIOUS
  <2>1. \A s, t \in S : s = t
    BY <2>0 DEF EntriesOnce, EntryIs, LinesIn
  <2> QED BY <2>0, <2>1, AtMostOne
<1>2. ASSUME NEW k \in LineKey \ overlapped
      PROVE  Cardinality({s \in LinesIn(statement) : statement[s].key = k /\ statement[s].imported}) <= 1
  <2>0. PICK S : S = {s \in LinesIn(statement) : statement[s].key = k /\ statement[s].imported}
    OBVIOUS
  <2>1. \A s, t \in S : s = t
    BY <2>0 DEF KeysOnce, KeyIs, LinesIn
  <2> QED BY <2>0, <2>1, AtMostOne
<1>3. ASSUME NEW b \in DeductedBill \ overlapped
      PROVE  Cardinality({t \in Deduction : deductions[t] # Missing /\ deductions[t].bill = b}) <= 1
  <2>0. PICK S : S = {t \in Deduction : deductions[t] # Missing /\ deductions[t].bill = b}
    OBVIOUS
  <2>1. \A s, t \in S : s = t
    BY <2>0 DEF BillsOnce, BillIs
  <2> QED BY <2>0, <2>1, AtMostOne
<1>4. /\ \A r \in Receipt \ overlapped : receipts[r].reversals <= 1
      /\ \A a \in Asset \ overlapped : assets[a] \in {-1, depreciated[a]}
  BY DEF ReceiptsOnce, AssetsReduced
<1> QED BY <1>1, <1>2, <1>3, <1>4 DEF RecordedOnce, RecordsShaped

LEMMA RecordsInitInv == RecordsInit => RecordsInv
<1> SUFFICES ASSUME RecordsInit PROVE RecordsInv
  OBVIOUS
<1> USE DEF RecordsInit
<1>1. RecordsTypeOK
  BY DEF RecordsTypeOK
<1>2. RecordsShaped
  BY <1>1 DEF RecordsShaped, StatementTable, DeductionTable
<1>3. EntriesOnce /\ KeysOnce /\ BillsOnce
  BY DEF EntriesOnce, KeysOnce, BillsOnce, EntryIs, KeyIs, BillIs
<1>4. ReceiptsOnce /\ AssetsReduced
  BY DEF ReceiptsOnce, AssetsReduced
<1> QED BY <1>2, <1>3, <1>4 DEF RecordsInv

\* The view of now.
LEMMA ViewNow == ASSUME RecordsInv PROVE ViewKept2(View2)
BY DEF RecordsInv, RecordsShaped, RecordsTypeOK, ViewKept2, RecordView, View2, StatementTable, ReceiptTable,
       DeductionTable, AssetTable

\* Lines and assets stay: so do the views of them.
LEMMA ShapedStep ==
    ASSUME RecordsInv, RecordsTypeOK', statement' \in StatementTable, deductions' \in DeductionTable,
           recording' = [r \in Recording |-> recording'[r]],
           \A r \in Recording : recording'[r] \in {recording[r], NoView2, View2},
           \A s \in StatementLine : statement[s] # Missing => statement'[s] # Missing,
           \A a \in Asset : assets[a] >= 0 => assets'[a] >= 0
    PROVE  RecordsShaped'
<1>1. ASSUME NEW r \in Recording PROVE (recording[r] = NoView2 \/ ViewKept2(recording[r]))'
  <2>1. ViewKept2(View2)
    BY ViewNow
  <2>2. PICK view : view = recording'[r]
    OBVIOUS
  <2>3. view = NoView2 \/ ViewKept2(view)
    BY <2>1, <2>2 DEF RecordsInv, RecordsShaped
  <2>4. ASSUME ViewKept2(view) PROVE (ViewKept2(recording[r]))'
    <3>1. view \in RecordView /\ recording'[r] \in RecordView
      BY <2>2, <2>4 DEF ViewKept2
    <3>2. /\ \A s \in StatementLine : view.statement[s] # Missing => statement[s] # Missing
          /\ \A a \in Asset : view.assets[a] >= 0 => assets[a] >= 0
      BY <2>4 DEF ViewKept2
    <3>3. /\ \A s \in StatementLine : view.statement[s] # Missing => statement'[s] # Missing
          /\ \A a \in Asset : view.assets[a] >= 0 => assets'[a] >= 0
      BY <3>2
    <3> QED BY <2>2, <3>1, <3>3 DEF ViewKept2, RecordView, StatementTable, ReceiptTable, DeductionTable, AssetTable, Missing
  <2>5. view = NoView2 => (recording[r] = NoView2)'
    BY <2>2 DEF NoView2, Missing
  <2> QED BY <2>3, <2>4, <2>5
<1> QED BY <1>1 DEF RecordsShaped, StatementTable, DeductionTable

\* Nothing but slots of requests changes.
LEMMA RequestStep ==
    ASSUME RecordsInv, UNCHANGED <<statement, onBank, receipts, deductions, assets, returns, byHand, depreciated, overlapped>>,
           recording' = [r \in Recording |-> recording'[r]],
           \A r \in Recording : recording'[r] \in {recording[r], NoView2, View2}
    PROVE  RecordsInv'
<1>1. RecordsTypeOK'
  BY DEF RecordsInv, RecordsShaped, RecordsTypeOK
<1>2. RecordsShaped'
  BY <1>1, ShapedStep DEF RecordsInv, RecordsShaped
<1>3. (EntriesOnce /\ KeysOnce /\ BillsOnce)'
  BY DEF RecordsInv, EntriesOnce, KeysOnce, BillsOnce, EntryIs, KeyIs, BillIs
<1>4. (ReceiptsOnce /\ AssetsReduced)'
  BY DEF RecordsInv, ReceiptsOnce, AssetsReduced
<1> QED BY <1>2, <1>3, <1>4 DEF RecordsInv

\* What a step leaves alone in the other tables.
SlotsMove ==
    /\ recording' = [r \in Recording |-> recording'[r]]
    /\ \A r \in Recording : recording'[r] \in {recording[r], NoView2}
LEMMA NotedMore ==
    ASSUME NEW old, NEW rows, Note(old, rows)
    PROVE  overlapped \subseteq overlapped' /\ (old => rows \subseteq overlapped')
BY DEF Note

LEMMA StatementStep ==
    ASSUME RecordsInv, SlotsMove, overlapped \subseteq overlapped', statement' \in StatementTable,
           onBank' \subseteq BankEntry, byHand' \subseteq BankEntry,
           UNCHANGED <<receipts, deductions, assets, returns, depreciated>>,
           \A s \in StatementLine : statement[s] # Missing => statement'[s] # Missing,
           EntriesOnce', KeysOnce'
    PROVE  RecordsInv'
<1>1. RecordsTypeOK'
  BY DEF RecordsInv, RecordsShaped, RecordsTypeOK, StatementTable
<1>2. RecordsShaped'
  BY <1>1, ShapedStep DEF RecordsInv, RecordsShaped, SlotsMove
<1>3. BillsOnce'
  BY DEF RecordsInv, BillsOnce, BillIs
<1>4. (ReceiptsOnce /\ AssetsReduced)'
  BY DEF RecordsInv, ReceiptsOnce, AssetsReduced
<1> QED BY <1>2, <1>3, <1>4 DEF RecordsInv

LEMMA OtherStep ==
    ASSUME RecordsInv, SlotsMove, overlapped \subseteq overlapped', RecordsTypeOK',
           UNCHANGED <<statement, onBank, byHand>>, deductions' \in DeductionTable,
           \A a \in Asset : assets[a] >= 0 => assets'[a] >= 0,
           ReceiptsOnce', BillsOnce', AssetsReduced'
    PROVE  RecordsInv'
<1>1. RecordsShaped'
  BY ShapedStep DEF RecordsInv, RecordsShaped, SlotsMove
<1>2. (EntriesOnce /\ KeysOnce)'
  BY DEF RecordsInv, EntriesOnce, KeysOnce, EntryIs, KeyIs
<1> QED BY <1>1, <1>2 DEF RecordsInv

-----------------------------------------------------------------------------
\* Statement lines.
LEMMA RowsAre ==
    ASSUME RecordsInv, NEW s \in StatementLine
    PROVE  statement[s] = Missing \/ (statement[s] \in LineRow /\ statement[s] # Missing)
BY DEF RecordsInv, RecordsShaped, StatementTable, LineRow, Missing

LEMMA AddLineInv ==
    ASSUME RecordsInv, SlotsMove, NEW s \in StatementLine, NEW key \in LineKey, NEW imported \in BOOLEAN,
           AddStatementLine(s, key, imported), overlapped \subseteq overlapped',
           UNCHANGED <<onBank, receipts, deductions, assets, returns, byHand, depreciated>>,
           imported => key \in overlapped' \/ \A t \in StatementLine : ~KeyIs(t, key),
           NoEntry \notin BankEntry
    PROVE  RecordsInv'
<1>0. statement \in StatementTable
  BY DEF RecordsInv, RecordsShaped
<1>1. PICK row \in LineRow : row = [key |-> key, imported |-> imported, entry |-> NoEntry]
  BY DEF LineRow
<1>2. statement[s] = Missing /\ statement' = [statement EXCEPT ![s] = row]
  BY <1>1 DEF AddStatementLine
<1>3. row # Missing /\ row.key = key /\ row.imported = imported /\ row.entry = NoEntry
  BY <1>1 DEF Missing
<1>4. statement' \in StatementTable /\ statement'[s] = row /\ \A t \in StatementLine \ {s} : statement'[t] = statement[t]
  BY <1>0, <1>2 DEF StatementTable
<1>5. EntriesOnce'
  <2>1. ASSUME NEW e \in BankEntry, NEW t \in StatementLine PROVE EntryIs(t, e)' => EntryIs(t, e) /\ t # s
    BY <1>3, <1>4 DEF EntryIs
  <2> QED BY <2>1 DEF RecordsInv, EntriesOnce
<1>6. KeysOnce'
  <2>1. ASSUME NEW k \in LineKey \ overlapped', NEW t \in StatementLine, NEW u \in StatementLine,
               KeyIs(t, k)', KeyIs(u, k)'
        PROVE  t = u
    <3>1. \A v \in StatementLine \ {s} : KeyIs(v, k)' => KeyIs(v, k)
      BY <1>4 DEF KeyIs
    <3>2. KeyIs(s, k)' => k = key /\ imported
      BY <1>3, <1>4 DEF KeyIs
    <3>3. KeyIs(s, k)' => \A v \in StatementLine : ~KeyIs(v, k)
      BY <3>2
    <3>4. KeyIs(t, k) /\ KeyIs(u, k) => t = u
      BY DEF RecordsInv, KeysOnce
    <3> QED BY <2>1, <3>1, <3>3, <3>4
  <2> QED BY <2>1 DEF KeysOnce
<1>7. \A t \in StatementLine : statement[t] # Missing => statement'[t] # Missing
  BY <1>3, <1>4
<1>8. onBank' \subseteq BankEntry /\ byHand' \subseteq BankEntry
  BY DEF RecordsInv, RecordsShaped, RecordsTypeOK
<1> QED BY <1>4, <1>5, <1>6, <1>7, <1>8, StatementStep

LEMMA ImportInv ==
    ASSUME RecordsInv, SlotsMove, NEW view, ViewKept2(view), NEW s \in StatementLine, NEW key \in LineKey,
           ImportBankTransactions(s, key, view)
    PROVE  RecordsInv'
<1>1. Note(~Fresh(key, View2), {key}) /\ AddStatementLine(s, key, TRUE)
      /\ UNCHANGED <<onBank, receipts, deductions, assets, returns, byHand, depreciated>>
  BY DEF ImportBankTransactions
<1>2. overlapped \subseteq overlapped' /\ (~Fresh(key, View2) => key \in overlapped')
  BY <1>1, NotedMore
<1>3. Fresh(key, View2) => \A t \in StatementLine : ~KeyIs(t, key)
  BY DEF Fresh, View2, LinesIn, KeyIs
<1> QED BY <1>1, <1>2, <1>3, AddLineInv, RecordsAssumption

\* Lines that are there get entries.
LEMMA MatchStep ==
    ASSUME RecordsInv, SlotsMove, overlapped \subseteq overlapped', NEW to \in [StatementLine -> BankEntry \cup {NoEntry}],
           NEW S \in SUBSET StatementLine, \A s \in S : statement[s] # Missing,
           statement' = [s \in StatementLine |-> IF s \in S THEN [statement[s] EXCEPT !.entry = to[s]] ELSE statement[s]],
           UNCHANGED <<onBank, receipts, deductions, assets, returns, depreciated>>,
           byHand' \subseteq BankEntry, byHand \subseteq byHand',
           \A e \in BankEntry \ (byHand' \cup overlapped') :
               \A s, t \in StatementLine : s \in S /\ to[s] = e =>
                   /\ t \in S /\ to[t] = e => s = t
                   /\ t \notin S => ~EntryIs(t, e)
    PROVE  RecordsInv'
<1>1. ASSUME NEW s \in StatementLine
      PROVE  /\ statement'[s] \in LineRow \cup {Missing} /\ (statement[s] # Missing <=> statement'[s] # Missing)
             /\ statement[s] # Missing => /\ statement'[s].key = statement[s].key
                                          /\ statement'[s].imported = statement[s].imported
                                          /\ statement'[s].entry = IF s \in S THEN to[s] ELSE statement[s].entry
  <2>1. PICK row : row = statement[s]
    OBVIOUS
  <2>2. CASE s \notin S
    BY <2>2 DEF RecordsInv, RecordsShaped, StatementTable
  <2>3. CASE s \in S
    <3>1. row \in LineRow
      BY <2>1, <2>3, RowsAre
    <3>2. PICK new : new = [row EXCEPT !.entry = to[s]]
      OBVIOUS
    <3>3. new \in LineRow /\ new.key = row.key /\ new.imported = row.imported /\ new.entry = to[s] /\ new # Missing
      BY <3>1, <3>2 DEF LineRow, Missing
    <3>4. statement'[s] = new
      BY <2>1, <2>3, <3>2
    <3> QED BY <2>1, <2>3, <3>3, <3>4
  <2> QED BY <2>2, <2>3
<1>2. statement' \in StatementTable
  <2>1. \A s \in StatementLine : statement'[s] \in LineRow \cup {Missing}
    BY <1>1
  <2> QED BY <2>1 DEF StatementTable
<1>3. EntriesOnce'
  <2>1. ASSUME NEW e \in BankEntry \ (byHand' \cup overlapped'), NEW s \in StatementLine, NEW t \in StatementLine,
               EntryIs(s, e)', EntryIs(t, e)'
        PROVE  s = t
    <3>1. \A v \in StatementLine : EntryIs(v, e)' => IF v \in S THEN to[v] = e ELSE EntryIs(v, e)
      BY <1>1 DEF EntryIs
    <3>2. EntryIs(s, e) /\ EntryIs(t, e) => s = t
      BY DEF RecordsInv, EntriesOnce
    <3> QED BY <2>1, <3>1, <3>2
  <2> QED BY <2>1 DEF EntriesOnce
<1>4. KeysOnce'
  <2>1. \A k \in LineKey, s \in StatementLine : KeyIs(s, k)' => KeyIs(s, k)
    BY <1>1 DEF KeyIs
  <2> QED BY <2>1 DEF RecordsInv, KeysOnce
<1>5. \A s \in StatementLine : statement[s] # Missing => statement'[s] # Missing
  BY <1>1
<1>6. onBank' \subseteq BankEntry
  BY DEF RecordsInv, RecordsShaped, RecordsTypeOK
<1> QED BY <1>2, <1>3, <1>4, <1>5, <1>6, StatementStep

LEMMA AutoRunInv ==
    ASSUME RecordsInv, SlotsMove, NEW view, ViewKept2(view), NEW m \in Matchings(view), AutoRunReconciliation(m, view),
           NoEntry \notin BankEntry
    PROVE  RecordsInv'
<1> DEFINE S == {s \in Open(view) : m[s] # NoEntry}
<1> PICK to : to = [s \in StatementLine |-> IF s \in S THEN m[s] ELSE NoEntry]
  OBVIOUS
<1>1. /\ statement' = [s \in StatementLine |-> IF s \in S THEN [statement[s] EXCEPT !.entry = m[s]] ELSE statement[s]]
      /\ Note(view.statement # statement, {m[s] : s \in Open(view)} \ {NoEntry})
      /\ UNCHANGED <<onBank, receipts, deductions, assets, returns, byHand, depreciated>>
  BY DEF AutoRunReconciliation
<1>2. m \in [Open(view) -> Candidates(view) \cup {NoEntry}] /\ \A s, t \in Open(view) : m[s] = m[t] /\ s # t => m[s] = NoEntry
  BY DEF Matchings
<1>3. view \in RecordView /\ Open(view) \subseteq StatementLine /\ Candidates(view) \subseteq BankEntry
  BY DEF ViewKept2, RecordView, Open, LinesIn, Candidates
<1>4. S \in SUBSET StatementLine /\ \A s \in S : statement[s] # Missing
  BY <1>3 DEF ViewKept2, Open, LinesIn
<1>5. to \in [StatementLine -> BankEntry \cup {NoEntry}] /\ \A s \in S : to[s] = m[s] /\ to[s] \in Candidates(view)
  BY <1>2, <1>3
<1>6. statement' = [s \in StatementLine |-> IF s \in S THEN [statement[s] EXCEPT !.entry = to[s]] ELSE statement[s]]
  <2>1. \A s \in StatementLine : (IF s \in S THEN [statement[s] EXCEPT !.entry = m[s]] ELSE statement[s])
                               = (IF s \in S THEN [statement[s] EXCEPT !.entry = to[s]] ELSE statement[s])
    BY <1>5
  <2> HIDE DEF S
  <2> QED BY <1>1, <2>1
<1>7. overlapped \subseteq overlapped'
      /\ (view.statement # statement => {m[s] : s \in Open(view)} \ {NoEntry} \subseteq overlapped')
  BY <1>1, NotedMore
<1>8. ASSUME NEW e \in BankEntry \ (byHand' \cup overlapped'), NEW s \in StatementLine, NEW t \in StatementLine,
             s \in S, to[s] = e
      PROVE  (t \in S /\ to[t] = e => s = t) /\ (t \notin S => ~EntryIs(t, e))
  <2>1. view.statement = statement
    BY <1>5, <1>7, <1>8
  <2>2. t \in S /\ to[t] = e => s = t
    BY <1>2, <1>5, <1>8
  <2>3. ~EntryIs(t, e)
    <3>1. e \notin MatchedIn(statement)
      BY <1>5, <1>8, <2>1 DEF Candidates
    <3> QED BY <3>1 DEF MatchedIn, LinesIn, EntryIs
  <2> QED BY <2>2, <2>3
<1>9. byHand' \subseteq BankEntry /\ byHand \subseteq byHand'
  BY <1>1 DEF RecordsInv, RecordsShaped, RecordsTypeOK
<1>10. UNCHANGED <<onBank, receipts, deductions, assets, returns, depreciated>>
  BY <1>1
<1> HIDE DEF S
<1> QED BY <1>4, <1>5, <1>6, <1>7, <1>8, <1>9, <1>10, MatchStep

LEMMA MatchInv ==
    ASSUME RecordsInv, SlotsMove, NEW s \in StatementLine, NEW e \in BankEntry, MatchBankTransaction(s, e)
    PROVE  RecordsInv'
<1>1. /\ statement[s] # Missing /\ byHand' = byHand \cup {e} /\ statement' = [statement EXCEPT ![s].entry = e]
      /\ UNCHANGED <<onBank, receipts, deductions, assets, returns, depreciated, overlapped>>
  BY DEF MatchBankTransaction
<1> PICK to : to = [t \in StatementLine |-> e]
  OBVIOUS
<1>2. to \in [StatementLine -> BankEntry \cup {NoEntry}] /\ {s} \in SUBSET StatementLine
      /\ statement = [t \in StatementLine |-> statement[t]]
  BY DEF RecordsInv, RecordsShaped, StatementTable
<1>3. statement' = [t \in StatementLine |-> IF t \in {s} THEN [statement[t] EXCEPT !.entry = to[t]] ELSE statement[t]]
  BY <1>1, <1>2
<1>4. byHand' \subseteq BankEntry /\ byHand \subseteq byHand' /\ overlapped \subseteq overlapped'
  BY <1>1 DEF RecordsInv, RecordsShaped, RecordsTypeOK
<1>5. \A f \in BankEntry \ (byHand' \cup overlapped') : \A t \in StatementLine : to[t] # f
  BY <1>1
<1>6. UNCHANGED <<onBank, receipts, deductions, assets, returns, depreciated>>
  BY <1>1
<1>7. \A t \in {s} : statement[t] # Missing
  BY <1>1
<1> PICK S : S = {s}
  OBVIOUS
<1>8. \A f \in BankEntry \ (byHand' \cup overlapped') :
          \A u, t \in StatementLine : u \in S /\ to[u] = f =>
              /\ t \in S /\ to[t] = f => u = t
              /\ t \notin S => ~EntryIs(t, f)
  BY <1>5
<1> QED BY <1>2, <1>3, <1>4, <1>6, <1>7, <1>8, MatchStep

LEMMA EntryOnBankInv ==
    ASSUME RecordsInv, SlotsMove, NEW e \in BankEntry, EntryOnBank(e)
    PROVE  RecordsInv'
<1>1. onBank' = onBank \cup {e} /\ UNCHANGED <<statement, receipts, deductions, assets, returns, byHand, depreciated, overlapped>>
  BY DEF EntryOnBank
<1>2. statement' \in StatementTable /\ onBank' \subseteq BankEntry /\ byHand' \subseteq BankEntry
  BY <1>1 DEF RecordsInv, RecordsShaped, RecordsTypeOK, StatementTable
<1>3. (EntriesOnce /\ KeysOnce)'
  BY <1>1 DEF RecordsInv, EntriesOnce, KeysOnce, EntryIs, KeyIs
<1> QED BY <1>1, <1>2, <1>3, StatementStep

-----------------------------------------------------------------------------
\* Receipts, deductions, assets and returns.
LEMMA ReceiptInv ==
    ASSUME RecordsInv, SlotsMove, NEW r \in Receipt, NEW view, ViewKept2(view),
           (CreateReceipt(r) /\ overlapped' = overlapped) \/ ReverseReceipt(r, view)
    PROVE  RecordsInv'
<1>0. receipts \in ReceiptTable /\ receipts[r] \in [made : BOOLEAN, reversals : Nat]
  BY DEF RecordsInv, RecordsShaped, RecordsTypeOK, ReceiptTable
<1>1. /\ UNCHANGED <<statement, onBank, deductions, assets, returns, byHand, depreciated>>
      /\ overlapped \subseteq overlapped'
      /\ \E row \in [made : BOOLEAN, reversals : Nat] :
             /\ receipts' = [receipts EXCEPT ![r] = row]
             /\ row.reversals = receipts[r].reversals \/ r \in overlapped' \/ row.reversals <= 1
  <2>1. CASE CreateReceipt(r) /\ overlapped' = overlapped
    <3>1. PICK row : row = [receipts[r] EXCEPT !.made = TRUE]
      OBVIOUS
    <3>2. row \in [made : BOOLEAN, reversals : Nat] /\ row.reversals = receipts[r].reversals
      BY <1>0, <3>1
    <3>3. receipts' = [receipts EXCEPT ![r] = row]
      BY <1>0, <2>1, <3>1 DEF CreateReceipt, ReceiptTable
    <3>4. UNCHANGED <<statement, onBank, deductions, assets, returns, byHand, depreciated, overlapped>>
      BY <2>1 DEF CreateReceipt
    <3> QED BY <3>2, <3>3, <3>4
  <2>2. CASE ReverseReceipt(r, view)
    <3>1. PICK n \in Nat : n = receipts[r].reversals
      BY <1>0
    <3>2. PICK row : row = [receipts[r] EXCEPT !.reversals = n + 1]
      OBVIOUS
    <3>3. row \in [made : BOOLEAN, reversals : Nat] /\ row.reversals = n + 1
      BY <1>0, <3>2
    <3>4. receipts' = [receipts EXCEPT ![r] = row]
      BY <1>0, <2>2, <3>1, <3>2 DEF ReverseReceipt, ReceiptTable
    <3>5. /\ Note(view.receipts # receipts, {r}) /\ view.receipts[r].reversals = 0
          /\ UNCHANGED <<statement, onBank, deductions, assets, returns, byHand, depreciated>>
      BY <2>2 DEF ReverseReceipt, Reversible
    <3>6. overlapped \subseteq overlapped' /\ (view.receipts # receipts => r \in overlapped')
      BY <3>5, NotedMore
    <3>7. view.receipts = receipts => row.reversals <= 1
      BY <3>1, <3>3, <3>5
    <3>8. r \in overlapped' \/ row.reversals <= 1
      BY <3>6, <3>7
    <3> QED BY <3>3, <3>4, <3>5, <3>6, <3>8
  <2> QED BY <2>1, <2>2
<1>2. PICK row \in [made : BOOLEAN, reversals : Nat] :
             /\ receipts' = [receipts EXCEPT ![r] = row]
             /\ row.reversals = receipts[r].reversals \/ r \in overlapped' \/ row.reversals <= 1
  BY <1>1
<1>3. /\ receipts' \in ReceiptTable /\ receipts'[r] = row /\ \A q \in Receipt \ {r} : receipts'[q] = receipts[q]
  BY <1>0, <1>2 DEF ReceiptTable
<1>4. RecordsTypeOK'
  BY <1>1, <1>3 DEF RecordsInv, RecordsShaped, RecordsTypeOK, ReceiptTable
<1>5. ReceiptsOnce'
  BY <1>1, <1>2, <1>3 DEF RecordsInv, ReceiptsOnce
<1>6. (BillsOnce /\ AssetsReduced)'
  BY <1>1 DEF RecordsInv, BillsOnce, BillIs, AssetsReduced
<1>7. deductions' \in DeductionTable /\ (\A a \in Asset : assets[a] >= 0 => assets'[a] >= 0)
  BY <1>1 DEF RecordsInv, RecordsShaped
<1> QED BY <1>1, <1>4, <1>5, <1>6, <1>7, OtherStep

\* A deduction's new row, for a bill no other one names.
LEMMA DeductionStep ==
    ASSUME RecordsInv, SlotsMove, overlapped \subseteq overlapped', NEW t \in Deduction, NEW row \in DeductionRow \cup {Missing},
           deductions' = [deductions EXCEPT ![t] = row],
           UNCHANGED <<statement, onBank, receipts, assets, returns, byHand, depreciated>>,
           row # Missing => \/ row.bill \in overlapped'
                            \/ \A u \in Deduction \ {t} : ~BillIs(u, row.bill)
    PROVE  RecordsInv'
<1>1. deductions' \in DeductionTable /\ deductions'[t] = row /\ \A u \in Deduction \ {t} : deductions'[u] = deductions[u]
  BY DEF RecordsInv, RecordsShaped, DeductionTable
<1>2. RecordsTypeOK'
  BY <1>1 DEF RecordsInv, RecordsShaped, RecordsTypeOK, DeductionTable
<1>3. BillsOnce'
  <2>1. ASSUME NEW b \in DeductedBill \ overlapped', NEW u \in Deduction, NEW v \in Deduction,
               BillIs(u, b)', BillIs(v, b)'
        PROVE  u = v
    <3>1. \A w \in Deduction \ {t} : BillIs(w, b)' => BillIs(w, b)
      BY <1>1 DEF BillIs
    <3>2. BillIs(t, b)' => \A w \in Deduction \ {t} : ~BillIs(w, b)
      BY <1>1 DEF BillIs
    <3>3. BillIs(u, b) /\ BillIs(v, b) => u = v
      BY DEF RecordsInv, BillsOnce
    <3> QED BY <2>1, <3>1, <3>2, <3>3
  <2> QED BY <2>1 DEF BillsOnce
<1>4. (ReceiptsOnce /\ AssetsReduced)'
  BY DEF RecordsInv, ReceiptsOnce, AssetsReduced
<1> QED BY <1>1, <1>2, <1>3, <1>4, OtherStep

LEMMA DeductionInv ==
    ASSUME RecordsInv, SlotsMove, NEW t \in Deduction, NEW b \in DeductedBill, NEW view, ViewKept2(view),
           \/ \E status \in {"Draft", "PENDING", "Posted"} : CreateTDSDeduction(t, b, status, view)
           \/ (UpdateTDSDeduction(t, b) \/ DeleteTDSDeduction(t)) /\ overlapped' = overlapped
    PROVE  RecordsInv'
<1>0. deductions \in DeductionTable
  BY DEF RecordsInv, RecordsShaped
<1>1. ASSUME NEW status \in {"Draft", "PENDING", "Posted"}, CreateTDSDeduction(t, b, status, view)
      PROVE  RecordsInv'
  <2>0. PICK row : row = [bill |-> b, status |-> status]
    OBVIOUS
  <2>1. row = [bill |-> b, status |-> status] /\ row \in DeductionRow /\ row.bill = b
    BY <2>0 DEF DeductionRow
  <2>2. /\ deductions' = [deductions EXCEPT ![t] = row] /\ Note(Deducted(b, deductions), {b})
        /\ UNCHANGED <<statement, onBank, receipts, assets, returns, byHand, depreciated>>
    BY <1>1, <2>1 DEF CreateTDSDeduction
  <2>3. overlapped \subseteq overlapped' /\ (Deducted(b, deductions) => b \in overlapped')
    BY <2>2, NotedMore
  <2>4. row.bill \in overlapped' \/ \A u \in Deduction \ {t} : ~BillIs(u, row.bill)
    BY <2>1, <2>3 DEF Deducted, BillIs
  <2>5. row \in DeductionRow \cup {Missing}
    BY <2>1
  <2> QED BY <2>2, <2>3, <2>4, <2>5, DeductionStep
<1>2. CASE UpdateTDSDeduction(t, b) /\ overlapped' = overlapped
  <2>1. /\ deductions[t] # Missing /\ (b = deductions[t].bill \/ ~Deducted(b, deductions))
        /\ deductions' = [deductions EXCEPT ![t].bill = b]
        /\ UNCHANGED <<statement, onBank, receipts, assets, returns, byHand, depreciated>>
    BY <1>2 DEF UpdateTDSDeduction, Movable, Amendable
  <2>2. PICK old \in DeductionRow : old = deductions[t]
    BY <1>0, <2>1 DEF DeductionTable
  <2>3. PICK row : row = [old EXCEPT !.bill = b]
    OBVIOUS
  <2>4. row \in DeductionRow /\ row.bill = b
    BY <2>2, <2>3 DEF DeductionRow
  <2>5. deductions' = [deductions EXCEPT ![t] = row]
    BY <1>0, <2>1, <2>2, <2>3 DEF DeductionTable
  <2>6. CASE b = old.bill
    <3>1. row = old
      BY <2>2, <2>3, <2>6 DEF DeductionRow
    <3>2. b \in overlapped \/ \A u \in Deduction \ {t} : ~BillIs(u, b)
      BY <2>1, <2>2, <2>6 DEF RecordsInv, BillsOnce, BillIs
    <3> QED BY <1>2, <2>1, <2>4, <2>5, <3>2, DeductionStep
  <2>7. CASE ~Deducted(b, deductions)
    <3>1. \A u \in Deduction \ {t} : ~BillIs(u, b)
      BY <2>7 DEF Deducted, BillIs
    <3> QED BY <1>2, <2>1, <2>4, <2>5, <3>1, DeductionStep
  <2> QED BY <2>1, <2>2, <2>6, <2>7
<1>3. CASE DeleteTDSDeduction(t) /\ overlapped' = overlapped
  <2>1. /\ deductions' = [deductions EXCEPT ![t] = Missing]
        /\ UNCHANGED <<statement, onBank, receipts, assets, returns, byHand, depreciated>>
    BY <1>3 DEF DeleteTDSDeduction
  <2> QED BY <1>3, <2>1, DeductionStep
<1> QED BY <1>1, <1>2, <1>3

\* The value of an asset.
LEMMA AssetInv ==
    ASSUME RecordsInv, SlotsMove, NEW a \in Asset, NEW view, ViewKept2(view),
           (CreateAsset(a) /\ overlapped' = overlapped) \/ DepreciateAsset(a, view)
    PROVE  RecordsInv'
<1>0. /\ assets \in AssetTable /\ depreciated \in [Asset -> Nat] /\ depreciated[a] \in Nat
      /\ assets[a] \in Nat \cup {-1} /\ view.assets \in AssetTable /\ view.assets[a] \in Nat \cup {-1}
      /\ (assets[a] = -1 => depreciated[a] = 0) /\ (a \notin overlapped => assets[a] \in {-1, depreciated[a]})
      /\ (view.assets[a] >= 0 => assets[a] >= 0)
  BY DEF RecordsInv, RecordsShaped, RecordsTypeOK, ViewKept2, RecordView, AssetsReduced, AssetTable
<1>1. /\ UNCHANGED <<statement, onBank, receipts, deductions, returns, byHand>> /\ overlapped \subseteq overlapped'
      /\ \E value \in Nat, times \in Nat :
             /\ assets' = [assets EXCEPT ![a] = value] /\ depreciated' = [depreciated EXCEPT ![a] = times]
             /\ a \in overlapped' \/ value = times
  <2>1. CASE CreateAsset(a) /\ overlapped' = overlapped
    <3>1. assets' = [assets EXCEPT ![a] = 0] /\ depreciated' = [depreciated EXCEPT ![a] = 0]
          /\ UNCHANGED <<statement, onBank, receipts, deductions, returns, byHand, overlapped>>
      BY <1>0, <2>1 DEF CreateAsset
    <3> QED BY <3>1
  <2>2. CASE DepreciateAsset(a, view)
    <3>1. PICK v \in Nat, d \in Nat : v = view.assets[a] /\ d = depreciated[a]
      BY <1>0, <2>2 DEF DepreciateAsset
    <3>2. /\ assets' = [assets EXCEPT ![a] = v + 1] /\ depreciated' = [depreciated EXCEPT ![a] = d + 1]
          /\ Note(view.assets # assets, {a})
          /\ UNCHANGED <<statement, onBank, receipts, deductions, returns, byHand>>
      BY <2>2, <3>1 DEF DepreciateAsset
    <3>3. overlapped \subseteq overlapped' /\ (view.assets # assets => a \in overlapped')
      BY <3>2, NotedMore
    <3>4. view.assets = assets /\ a \notin overlapped => v = d
      BY <1>0, <3>1
    <3>5. a \in overlapped' \/ v + 1 = d + 1
      BY <3>3, <3>4
    <3>6. v + 1 \in Nat /\ d + 1 \in Nat
      OBVIOUS
    <3> QED BY <3>2, <3>3, <3>5, <3>6
  <2> QED BY <2>1, <2>2
<1>2. PICK value \in Nat, times \in Nat :
             /\ assets' = [assets EXCEPT ![a] = value] /\ depreciated' = [depreciated EXCEPT ![a] = times]
             /\ a \in overlapped' \/ value = times
  BY <1>1
<1>3. /\ assets' \in AssetTable /\ depreciated' \in [Asset -> Nat] /\ assets'[a] = value /\ depreciated'[a] = times
      /\ \A b \in Asset \ {a} : assets'[b] = assets[b] /\ depreciated'[b] = depreciated[b]
  BY <1>0, <1>2 DEF AssetTable
<1>4. RecordsTypeOK'
  BY <1>1, <1>3 DEF RecordsInv, RecordsShaped, RecordsTypeOK, AssetTable
<1>5. AssetsReduced'
  <2>1. ASSUME NEW b \in Asset
        PROVE  (assets'[b] = -1 => depreciated'[b] = 0) /\ (b \notin overlapped' => assets'[b] \in {-1, depreciated'[b]})
    <3>1. CASE b = a
      <4>1. value # -1
        OBVIOUS
      <4> QED BY <1>2, <1>3, <3>1, <4>1
    <3>2. CASE b # a
      BY <1>1, <1>3, <3>2 DEF RecordsInv, AssetsReduced
    <3> QED BY <3>1, <3>2
  <2> QED BY <2>1 DEF AssetsReduced
<1>6. (ReceiptsOnce /\ BillsOnce)'
  BY <1>1 DEF RecordsInv, ReceiptsOnce, BillsOnce, BillIs
<1>7. deductions' \in DeductionTable
  BY <1>1 DEF RecordsInv, RecordsShaped, DeductionTable
<1>8. \A b \in Asset : assets[b] >= 0 => assets'[b] >= 0
  BY <1>0, <1>2, <1>3
<1> QED BY <1>1, <1>4, <1>5, <1>6, <1>7, <1>8, OtherStep

LEMMA ReturnInv ==
    ASSUME RecordsInv, SlotsMove, NEW g \in Return,
           \/ GenerateGSTReturn(g) \/ DeleteGSTReturn(g)
           \/ \E status \in {"Draft", "Filed"} : CreateGSTReturn(g, status)
    PROVE  RecordsInv'
<1>1. /\ UNCHANGED <<statement, onBank, receipts, deductions, assets, byHand, depreciated, overlapped>>
      /\ returns' \in [Return -> {"none", "Draft", "Filed"}]
  BY DEF GenerateGSTReturn, DeleteGSTReturn, CreateGSTReturn, RecordsInv, RecordsShaped, RecordsTypeOK
<1>2. RecordsTypeOK'
  BY <1>1 DEF RecordsInv, RecordsShaped, RecordsTypeOK
<1>3. (ReceiptsOnce /\ BillsOnce /\ AssetsReduced)'
  BY <1>1 DEF RecordsInv, ReceiptsOnce, BillsOnce, BillIs, AssetsReduced
<1>4. deductions' \in DeductionTable /\ \A a \in Asset : assets[a] >= 0 => assets'[a] >= 0
  BY <1>1 DEF RecordsInv, RecordsShaped, DeductionTable
<1> QED BY <1>1, <1>2, <1>3, <1>4, OtherStep

-----------------------------------------------------------------------------
LEMMA RecordInv ==
    ASSUME RecordsInv, SlotsMove, NEW view, ViewKept2(view), Record(view)
    PROVE  RecordsInv'
<1>1. CASE \E s \in StatementLine, k \in LineKey : ImportBankTransactions(s, k, view)
  BY <1>1, ImportInv
<1>2. CASE \E m \in Matchings(view) : AutoRunReconciliation(m, view)
  BY <1>2, AutoRunInv, RecordsAssumption
<1>3. CASE \E r \in Receipt : ReverseReceipt(r, view)
  BY <1>3, ReceiptInv
<1>4. CASE \E t \in Deduction, b \in DeductedBill, status \in {"Draft", "PENDING", "Posted"} :
        CreateTDSDeduction(t, b, status, view)
  BY <1>4, DeductionInv
<1>5. CASE \E a \in Asset : DepreciateAsset(a, view)
  BY <1>5, AssetInv
<1> QED BY <1>1, <1>2, <1>3, <1>4, <1>5 DEF Record

LEMMA SlotKept == ASSUME RecordsInv, recording' = recording PROVE SlotsMove
BY DEF RecordsInv, RecordsShaped, SlotsMove

LEMMA RecordsNextInv == RecordsInv /\ [RecordsNext]_recordVars => RecordsInv'
<1> SUFFICES ASSUME RecordsInv, [RecordsNext]_recordVars PROVE RecordsInv'
  OBVIOUS
<1>0. recording = [r \in Recording |-> recording[r]] /\ ViewKept2(View2)
  BY ViewNow DEF RecordsInv, RecordsShaped
<1>1. CASE UNCHANGED recordVars
  BY <1>0, <1>1, RequestStep DEF recordVars
<1>2. CASE Record(View2) /\ UNCHANGED recording
  BY <1>0, <1>2, RecordInv, SlotKept
<1>3. ASSUME NEW r \in Recording, BeginRecord(r) PROVE RecordsInv'
  <2>1. /\ recording' = [recording EXCEPT ![r] = View2]
        /\ UNCHANGED <<statement, onBank, receipts, deductions, assets, returns, byHand, depreciated, overlapped>>
    BY <1>3 DEF BeginRecord
  <2>2. recording' = [q \in Recording |-> recording'[q]] /\ \A q \in Recording : recording'[q] \in {recording[q], View2}
    BY <1>0, <2>1
  <2> QED BY <2>1, <2>2, RequestStep
<1>4. ASSUME NEW r \in Recording, CommitRecord(r) PROVE RecordsInv'
  <2>1. recording[r] # NoView2 /\ Record(recording[r]) /\ recording' = [recording EXCEPT ![r] = NoView2]
    BY <1>4 DEF CommitRecord
  <2>2. ViewKept2(recording[r])
    BY <2>1 DEF RecordsInv, RecordsShaped
  <2>3. SlotsMove
    BY <1>0, <2>1 DEF SlotsMove
  <2> QED BY <2>1, <2>2, <2>3, RecordInv
<1>5. ASSUME NEW s \in StatementLine, NEW k \in LineKey, CreateBankTransaction(s, k) PROVE RecordsInv'
  BY <1>5, SlotKept, AddLineInv, RecordsAssumption DEF CreateBankTransaction
<1>6. ASSUME NEW s \in StatementLine, NEW e \in BankEntry, MatchBankTransaction(s, e) PROVE RecordsInv'
  <2>1. recording' = recording
    BY <1>6 DEF MatchBankTransaction
  <2> QED BY <1>6, <2>1, SlotKept, MatchInv
<1>7. ASSUME NEW e \in BankEntry, EntryOnBank(e) PROVE RecordsInv'
  <2>1. recording' = recording
    BY <1>7 DEF EntryOnBank
  <2> QED BY <1>7, <2>1, SlotKept, EntryOnBankInv
<1>8. ASSUME NEW r \in Receipt, CreateReceipt(r) PROVE RecordsInv'
  <2>1. recording' = recording /\ overlapped' = overlapped
    BY <1>8 DEF CreateReceipt
  <2> QED BY <1>0, <1>8, <2>1, SlotKept, ReceiptInv
<1>9. ASSUME NEW t \in Deduction, NEW b \in DeductedBill, UpdateTDSDeduction(t, b) PROVE RecordsInv'
  <2>1. recording' = recording /\ overlapped' = overlapped
    BY <1>9 DEF UpdateTDSDeduction
  <2> QED BY <1>0, <1>9, <2>1, SlotKept, DeductionInv
<1>10. ASSUME NEW t \in Deduction, DeleteTDSDeduction(t) PROVE RecordsInv'
  <2>1. /\ recording' = recording /\ overlapped' = overlapped
        /\ deductions' = [deductions EXCEPT ![t] = Missing]
        /\ UNCHANGED <<statement, onBank, receipts, assets, returns, byHand, depreciated>>
    BY <1>10 DEF DeleteTDSDeduction
  <2> QED BY <2>1, SlotKept, DeductionStep
<1>11. ASSUME NEW a \in Asset, CreateAsset(a) PROVE RecordsInv'
  <2>1. recording' = recording /\ overlapped' = overlapped
    BY <1>11 DEF CreateAsset
  <2> QED BY <1>0, <1>11, <2>1, SlotKept, AssetInv
<1>12. ASSUME NEW g \in Return,
              \/ GenerateGSTReturn(g) \/ DeleteGSTReturn(g)
              \/ \E status \in {"Draft", "Filed"} : CreateGSTReturn(g, status)
       PROVE  RecordsInv'
  <2>1. recording' = recording
    BY <1>12 DEF GenerateGSTReturn, DeleteGSTReturn, CreateGSTReturn
  <2> QED BY <1>12, <2>1, SlotKept, ReturnInv
<1> QED BY <1>1, <1>2, <1>3, <1>4, <1>5, <1>6, <1>7, <1>8, <1>9, <1>10, <1>11, <1>12 DEF RecordsNext

\* Unless overlapping requests wrote them (or an accountant matched by hand): one statement
\* line for an entry and a key, one reversal of a receipt, one deduction for a bill, and a
\* value that has lost every depreciation (accountant.py), for any number of rows and requests.
THEOREM RecordedOnceAlways == RecordsSpec => []RecordedOnce
<1>1. RecordsInv => RecordedOnce
  BY RecordsInvHolds
<1> QED BY <1>1, RecordsInitInv, RecordsNextInv, PTL DEF RecordsSpec

-----------------------------------------------------------------------------
(* Suppliers, orders and what the reports on the stock say.                    *)

TablesView ==
    [suppliers : [Supplier -> SupplierRow], stocked : [Bought -> StockedRow], orders : [Order -> OrderRow]]
ReadingShaped ==
    /\ reading = [r \in Ordering |-> reading[r]]
    /\ \A r \in Ordering : reading[r] # NoTables => reading[r] \in TablesView
ProcurementShaped == ProcurementTypeOK /\ asked = [o \in Order |-> asked[o]]
ProcurementInv == ProcurementShaped /\ ReadingShaped /\ OrderIsAsAsked /\ SuppliersStand

LEMMA SpansAdd ==
    ASSUME NEW left \in Nat, NEW low \in Nat, NEW span \in Nat, NEW worn \in Nat
    PROVE  left * span + OrZero((low - left) * span + 7 * worn) >= low * span
<1>1. left * span \in Nat /\ low * span \in Nat /\ (low - left) * span \in Int
  OBVIOUS
<1>2. (low - left) * span = low * span - left * span
  OBVIOUS
<1>3. PICK a \in Nat, b \in Nat : a = left * span /\ b = low * span
  BY <1>1
<1>4. a + OrZero((b - a) + 7 * worn) >= b
  BY DEF OrZero
<1> QED BY <1>2, <1>3, <1>4

LEMMA ShortagesSeen == ProcurementTypeOK => ShortagesAreSeen
<1> SUFFICES ASSUME ProcurementTypeOK PROVE ShortagesAreSeen
  OBVIOUS
<1>1. ASSUME NEW m \in Bought PROVE Left(m) \in Nat /\ stocked[m].used \in Nat /\ stocked[m].purchased \in Nat
  BY DEF ProcurementTypeOK, StockedRow, Left, OrZero
<1>2. Minimum \in Nat /\ Span \in Nat
  BY ProcurementAssumption
<1>3. ASSUME NEW m \in LiveStock
      PROVE  /\ StockAlert(m) = "OUT_OF_STOCK" <=> Left(m) = 0
             /\ StockAlert(m) = "LOW_STOCK" <=> Left(m) # 0 /\ Left(m) <= Minimum
             /\ StockAlert(m) = "IN_STOCK" <=> Left(m) > Minimum
             /\ m \in Alerted <=> Left(m) <= Minimum
  <2>1. Left(m) \in Nat
    BY <1>1 DEF LiveStock
  <2> QED BY <1>2, <2>1 DEF StockAlert, Alerted
<1>4. ASSUME NEW m \in LiveStock, Left(m) = 0 PROVE OverallRisk = "HIGH"
  <2>1. stocked[m].used \in Nat
    BY <1>1 DEF LiveStock
  <2>2. Left(m) * Span = 0
    BY <1>2, <1>4
  <2>3. 0 <= 7 * stocked[m].used
    BY <2>1
  <2>4. LastsAtMost(m, 7)
    BY <1>4, <2>2, <2>3 DEF LastsAtMost
  <2>5. m \in Critical
    BY <2>4 DEF Critical
  <2> QED BY <2>5 DEF OverallRisk
<1>5. ASSUME NEW m \in LiveStock PROVE Left(m) * Span + Recommended(m) >= Minimum * Span
  <2>1. m \in Bought
    BY DEF LiveStock
  <2>2. PICK left \in Nat, worn \in Nat : left = Left(m) /\ worn = stocked[m].used
    BY <1>1, <2>1
  <2>3. left * Span + OrZero((Minimum - left) * Span + 7 * worn) >= Minimum * Span
    BY <1>2, SpansAdd
  <2> QED BY <2>2, <2>3 DEF Recommended
<1>6. ReportCount("OUT_OF_STOCK") + ReportCount("LOW_STOCK") = Cardinality(Alerted)
  <2> DEFINE A == {m \in LiveStock : StockAlert(m) = "OUT_OF_STOCK"}
             B == {m \in LiveStock : StockAlert(m) = "LOW_STOCK"}
  <2>1. A \cap B = {}
    OBVIOUS
  <2>2. Alerted \subseteq LiveStock
    BY DEF Alerted
  <2>3. ASSUME NEW m \in LiveStock PROVE m \in Alerted <=> m \in A \cup B
    <3>1. Left(m) \in Nat
      BY <1>1 DEF LiveStock
    <3> QED BY <1>2, <1>3, <3>1
  <2>4. A \cup B = Alerted
    BY <2>2, <2>3
  <2>5. IsFiniteSet(A) /\ IsFiniteSet(B)
    BY ProcurementAssumption, FS_Subset DEF LiveStock
  <2>6. Cardinality(A) \in Nat /\ Cardinality(B) \in Nat
    BY <2>5, FS_CardinalityType
  <2>7. Cardinality(A \cup B) = Cardinality(A) + Cardinality(B) - Cardinality(A \cap B)
    BY <2>5, FS_Union
  <2>8. Cardinality(A \cap B) = 0
    BY <2>1, FS_EmptySet
  <2>9. ReportCount("OUT_OF_STOCK") = Cardinality(A) /\ ReportCount("LOW_STOCK") = Cardinality(B)
    BY DEF ReportCount
  <2>10. PICK a \in Nat, b \in Nat : a = Cardinality(A) /\ b = Cardinality(B)
    BY <2>6
  <2>11. Cardinality(Alerted) = a + b
    <3>1. Cardinality(A \cup B) = Cardinality(Alerted)
      BY <2>4
    <3> HIDE DEF A, B
    <3>2. Cardinality(A \cup B) = a + b
      BY <2>7, <2>8, <2>10
    <3> QED BY <3>1, <3>2
  <2> HIDE DEF A, B
  <2> QED BY <2>9, <2>10, <2>11
<1>7. ASSUME NEW m \in LiveStock
      PROVE  /\ StockAlert(m) = "OUT_OF_STOCK" => m \in Alerted /\ OverallRisk = "HIGH"
             /\ StockAlert(m) = "IN_STOCK" <=> m \notin Alerted
             /\ m \in Alerted => Left(m) * Span + Recommended(m) >= Minimum * Span
  <2>1. Left(m) \in Nat
    BY <1>1 DEF LiveStock
  <2> QED BY <1>2, <1>3, <1>4, <1>5, <2>1
<1> QED BY <1>6, <1>7 DEF ShortagesAreSeen

LEMMA ProcurementInitInv == ProcurementInit => ProcurementInv
<1> SUFFICES ASSUME ProcurementInit PROVE ProcurementInv
  OBVIOUS
<1> USE DEF ProcurementInit
<1>1. Arbitrary(Supplier) \in Supplier /\ Arbitrary(Bought) \in Bought /\ Arbitrary(Quantity) \in Quantity
  BY ProcurementAssumption DEF Arbitrary
<1>2. suppliers \in [Supplier -> SupplierRow]
  BY DEF SupplierRow, NoSupplierRow
<1>3. stocked \in [Bought -> StockedRow]
  BY <1>1 DEF StockedRow
<1>4. orders \in [Order -> OrderRow]
  BY <1>1 DEF OrderRow
<1>5. ProcurementShaped
  BY <1>2, <1>3, <1>4 DEF ProcurementShaped, ProcurementTypeOK
<1>6. ReadingShaped
  BY DEF ReadingShaped
<1>7. OrderIsAsAsked
  BY DEF OrderIsAsAsked
<1>8. SuppliersStand
  BY DEF SuppliersStand, NoSupplierRow
<1> QED BY <1>5, <1>6, <1>7, <1>8 DEF ProcurementInv

LEMMA SupplierInv ==
    ASSUME ProcurementInv, ReadingShaped', NEW view \in TablesView, NEW s \in Supplier, NEW c \in Contact \cup {NoContact},
           CreateSupplier(s, c, view) \/ UpdateSupplier(s, c, view) \/ DeleteSupplier(s, view)
    PROVE  ProcurementInv'
<1> USE DEF ProcurementInv
<1>1. PICK row \in SupplierRow :
          /\ suppliers' = [suppliers EXCEPT ![s] = row]
          /\ \/ /\ row.contact = c /\ Stale(s, view.suppliers, suppliers)
                /\ \A t \in Supplier \ {s} :
                       c # NoContact /\ view.suppliers[t].live /\ view.suppliers[t].contact = c
                           => CompanyOf[t] # CompanyOf[s]
                /\ suppliers[s].live => row.live
             \/ ~row.live /\ Stale(s, view.stocked, stocked) /\ ~InUseBy(s, view)
  <2>0. suppliers \in [Supplier -> SupplierRow] /\ suppliers[s] \in SupplierRow
    BY DEF ProcurementShaped, ProcurementTypeOK
  <2>1. CASE CreateSupplier(s, c, view)
    <3>1. PICK row \in SupplierRow : row = [live |-> TRUE, contact |-> c]
      BY DEF SupplierRow
    <3>2. row.contact = c /\ row.live
      BY <3>1
    <3>3. suppliers' = [suppliers EXCEPT ![s] = row]
      BY <2>1, <3>1 DEF CreateSupplier
    <3> QED BY <2>1, <3>2, <3>3 DEF CreateSupplier, ContactFree
  <2>2. CASE UpdateSupplier(s, c, view)
    <3>1. PICK row : row = [suppliers[s] EXCEPT !.contact = c]
      OBVIOUS
    <3>2. row \in SupplierRow /\ row.contact = c /\ row.live = suppliers[s].live
      BY <2>0, <3>1 DEF SupplierRow
    <3>3. suppliers' = [suppliers EXCEPT ![s] = row]
      BY <2>0, <2>2, <3>1 DEF UpdateSupplier
    <3> QED BY <2>2, <3>2, <3>3 DEF UpdateSupplier
  <2>3. CASE DeleteSupplier(s, view)
    <3>1. PICK row : row = [suppliers[s] EXCEPT !.live = FALSE]
      OBVIOUS
    <3>2. row \in SupplierRow /\ ~row.live
      BY <2>0, <3>1 DEF SupplierRow
    <3>3. suppliers' = [suppliers EXCEPT ![s] = row]
      BY <2>0, <2>3, <3>1 DEF DeleteSupplier
    <3> QED BY <2>3, <3>2, <3>3 DEF DeleteSupplier
  <2> QED BY <2>1, <2>2, <2>3
<1>2. UNCHANGED <<stocked, orders, asked>>
  BY DEF CreateSupplier, UpdateSupplier, DeleteSupplier
<1>3. suppliers \in [Supplier -> SupplierRow]
  BY DEF ProcurementShaped, ProcurementTypeOK
<1>4. suppliers'[s] = row /\ \A t \in Supplier \ {s} : suppliers'[t] = suppliers[t]
  BY <1>1, <1>3
<1>5. ProcurementShaped'
  BY <1>1, <1>2, <1>3 DEF ProcurementShaped, ProcurementTypeOK
<1>6. stale \subseteq stale'
  BY <1>1 DEF Stale
<1>7. OrderIsAsAsked'
  BY <1>2, <1>6 DEF OrderIsAsAsked, OrderContent
<1>8. ASSUME NEW x \in Supplier \ stale', NEW y \in Supplier \ stale', x # y, suppliers'[x].live, suppliers'[y].live,
             CompanyOf[x] = CompanyOf[y]
      PROVE  suppliers'[x].contact = NoContact \/ suppliers'[x].contact # suppliers'[y].contact
  <2>0. x \notin stale /\ y \notin stale
    BY <1>6
  <2>1. CASE x # s /\ y # s
    BY <1>4, <1>8, <2>0, <2>1 DEF SuppliersStand
  <2>2. ASSUME s \notin stale', row.live, NEW t \in Supplier \ {s}, suppliers[t].live, CompanyOf[t] = CompanyOf[s]
        PROVE  row.contact = NoContact \/ row.contact # suppliers[t].contact
    <3>1. view.suppliers = suppliers /\ row.contact = c
          /\ \A u \in Supplier \ {s} :
                 c # NoContact /\ view.suppliers[u].live /\ view.suppliers[u].contact = c
                     => CompanyOf[u] # CompanyOf[s]
      BY <1>1, <2>2 DEF Stale
    <3> QED BY <2>2, <3>1
  <2>3. CASE x = s
    BY <1>4, <1>8, <2>2, <2>3
  <2>4. CASE y = s
    BY <1>4, <1>8, <2>2, <2>4
  <2> QED BY <2>1, <2>3, <2>4
<1>9. ASSUME NEW m \in Bought, stocked[m].live, stocked[m].supplier \notin stale' PROVE suppliers'[stocked[m].supplier].live
  <2>1. suppliers[stocked[m].supplier].live
    BY <1>6, <1>9 DEF SuppliersStand
  <2>2. stocked[m].supplier \in Supplier
    BY DEF ProcurementShaped, ProcurementTypeOK, StockedRow
  <2>3. CASE stocked[m].supplier # s
    BY <1>4, <2>1, <2>2, <2>3
  <2>4. CASE stocked[m].supplier = s
    <3>1. ~row.live => view.stocked = stocked /\ ~InUseBy(s, view)
      <4>1. s \notin stale' /\ suppliers[s].live
        BY <1>9, <2>1, <2>4
      <4> QED BY <1>1, <4>1 DEF Stale
    <3>2. row.live
      BY <1>9, <2>4, <3>1 DEF InUseBy
    <3> QED BY <1>4, <2>4, <3>2
  <2> QED BY <2>3, <2>4
<1>10. SuppliersStand'
  BY <1>2, <1>8, <1>9 DEF SuppliersStand
<1> QED BY <1>5, <1>7, <1>10

LEMMA StockedInv ==
    ASSUME ProcurementInv, ReadingShaped', NEW m \in Bought,
           \/ \E s \in Supplier : (\E n \in Quantity : AddMaterial(m, s, n)) \/ MoveMaterial(m, s)
           \/ \E n \in Quantity \ {0} : Receive(m, n) \/ Use(m, n)
           \/ RemoveMaterial(m)
    PROVE  ProcurementInv'
<1> USE DEF ProcurementInv
<1>0. stocked \in [Bought -> StockedRow] /\ stocked[m] \in StockedRow /\ Quantity \subseteq Nat
  BY ProcurementAssumption DEF ProcurementShaped, ProcurementTypeOK
<1>1. PICK row \in StockedRow : stocked' = [stocked EXCEPT ![m] = row]
          /\ (row.live /\ row.supplier \notin stale' =>
                 suppliers[row.supplier].live \/ (stocked[m].live /\ row.supplier = stocked[m].supplier))
          /\ stale \subseteq stale'
  <2>1. ASSUME NEW s \in Supplier, NEW n \in Quantity, AddMaterial(m, s, n)
        PROVE  \E row \in StockedRow : /\ stocked' = [stocked EXCEPT ![m] = row]
                                       /\ suppliers[row.supplier].live /\ stale' = stale
    <3>1. PICK row : row = [live |-> TRUE, supplier |-> s, purchased |-> n, used |-> 0]
      OBVIOUS
    <3>2. row \in StockedRow /\ row.supplier = s
      BY <1>0, <3>1 DEF StockedRow
    <3> QED BY <2>1, <3>1, <3>2 DEF AddMaterial
  <2>2. ASSUME NEW s \in Supplier, MoveMaterial(m, s)
        PROVE  \E row \in StockedRow : /\ stocked' = [stocked EXCEPT ![m] = row] /\ stale \subseteq stale'
                                       /\ suppliers[row.supplier].live \/ row.supplier \in stale'
    <3>1. PICK row : row = [stocked[m] EXCEPT !.supplier = s]
      OBVIOUS
    <3>2. row \in StockedRow /\ row.supplier = s
      BY <1>0, <3>1 DEF StockedRow
    <3>3. stocked' = [stocked EXCEPT ![m] = row]
      BY <1>0, <2>2, <3>1 DEF MoveMaterial
    <3>4. stale' = IF suppliers[s].live THEN stale ELSE stale \cup {s}
      BY <2>2 DEF MoveMaterial
    <3> QED BY <3>2, <3>3, <3>4
  <2>3. ASSUME (\E n \in Quantity \ {0} : Receive(m, n) \/ Use(m, n)) \/ RemoveMaterial(m)
        PROVE  \E row \in StockedRow : /\ stocked' = [stocked EXCEPT ![m] = row] /\ stale' = stale
                                       /\ stocked[m].live /\ row.supplier = stocked[m].supplier
    <3>1. ASSUME NEW n \in Quantity, Receive(m, n)
          PROVE  \E row \in StockedRow : /\ stocked' = [stocked EXCEPT ![m] = row] /\ stale' = stale
                                         /\ stocked[m].live /\ row.supplier = stocked[m].supplier
      <4>1. PICK row : row = [stocked[m] EXCEPT !.purchased = @ + n]
        OBVIOUS
      <4>2. row \in StockedRow /\ row.supplier = stocked[m].supplier
        BY <1>0, <4>1 DEF StockedRow
      <4>3. stocked' = [stocked EXCEPT ![m] = row]
        BY <1>0, <3>1, <4>1 DEF Receive
      <4> QED BY <3>1, <4>2, <4>3 DEF Receive
    <3>2. ASSUME NEW n \in Quantity, Use(m, n)
          PROVE  \E row \in StockedRow : /\ stocked' = [stocked EXCEPT ![m] = row] /\ stale' = stale
                                         /\ stocked[m].live /\ row.supplier = stocked[m].supplier
      <4>1. PICK row : row = [stocked[m] EXCEPT !.used = @ + n]
        OBVIOUS
      <4>2. row \in StockedRow /\ row.supplier = stocked[m].supplier
        BY <1>0, <4>1 DEF StockedRow
      <4>3. stocked' = [stocked EXCEPT ![m] = row]
        BY <1>0, <3>2, <4>1 DEF Use
      <4> QED BY <3>2, <4>2, <4>3 DEF Use
    <3>3. ASSUME RemoveMaterial(m)
          PROVE  \E row \in StockedRow : /\ stocked' = [stocked EXCEPT ![m] = row] /\ stale' = stale
                                         /\ stocked[m].live /\ row.supplier = stocked[m].supplier
      <4>1. PICK row : row = [stocked[m] EXCEPT !.live = FALSE]
        OBVIOUS
      <4>2. row \in StockedRow /\ row.supplier = stocked[m].supplier
        BY <1>0, <4>1 DEF StockedRow
      <4>3. stocked' = [stocked EXCEPT ![m] = row]
        BY <1>0, <3>3, <4>1 DEF RemoveMaterial
      <4> QED BY <3>3, <4>2, <4>3 DEF RemoveMaterial
    <3> QED BY <2>3, <3>1, <3>2, <3>3
  <2> QED BY <2>1, <2>2, <2>3
<1>2. UNCHANGED <<suppliers, orders, asked>>
  BY DEF AddMaterial, MoveMaterial, Receive, Use, RemoveMaterial
<1>3. stocked'[m] = row /\ \A x \in Bought \ {m} : stocked'[x] = stocked[x]
  BY <1>0, <1>1
<1>4. ProcurementShaped'
  BY <1>0, <1>1, <1>2 DEF ProcurementShaped, ProcurementTypeOK
<1>5. OrderIsAsAsked'
  BY <1>1, <1>2 DEF OrderIsAsAsked, OrderContent
<1>6. ASSUME NEW x \in Bought, stocked'[x].live, stocked'[x].supplier \notin stale' PROVE suppliers[stocked'[x].supplier].live
  <2>1. CASE x # m
    BY <1>1, <1>3, <1>6, <2>1 DEF SuppliersStand
  <2>2. CASE x = m
    BY <1>1, <1>3, <1>6, <2>2 DEF SuppliersStand
  <2> QED BY <2>1, <2>2
<1>7. SuppliersStand'
  BY <1>1, <1>2, <1>6 DEF SuppliersStand
<1> QED BY <1>4, <1>5, <1>7

\* One order: its new row, and what the last request asked for.
LEMMA OrderStep ==
    ASSUME ProcurementInv, ReadingShaped', NEW o \in Order, NEW row \in OrderRow,
           orders' = [orders EXCEPT ![o] = row], UNCHANGED <<suppliers, stocked>>,
           \/ UNCHANGED asked
           \/ \E content \in {OrderContent(old) : old \in OrderRow} : asked' = [asked EXCEPT ![o] = {content}],
           stale' = stale \/ stale' = stale \cup {o},
           o \notin stale' /\ row.status \in {"PENDING", "APPROVED"} => asked'[o] = {OrderContent(row)}
    PROVE  ProcurementInv'
<1> USE DEF ProcurementInv
<1>0. orders \in [Order -> OrderRow] /\ asked = [p \in Order |-> asked[p]]
      /\ \A p \in Order : asked[p] \subseteq {OrderContent(old) : old \in OrderRow}
  BY DEF ProcurementShaped, ProcurementTypeOK
<1>1. orders'[o] = row /\ \A p \in Order \ {o} : orders'[p] = orders[p] /\ asked'[p] = asked[p]
  BY <1>0
<1>2. asked' = [p \in Order |-> asked'[p]] /\ \A p \in Order : asked'[p] \subseteq {OrderContent(old) : old \in OrderRow}
  BY <1>0
<1>3. ProcurementShaped'
  BY <1>0, <1>2 DEF ProcurementShaped, ProcurementTypeOK
<1>4. ASSUME NEW p \in Order \ stale', orders'[p].status \in {"PENDING", "APPROVED"}
      PROVE  asked'[p] = {OrderContent(orders'[p])}
  <2>1. CASE p # o
    <3>1. p \in Order \ stale /\ orders'[p] = orders[p] /\ asked'[p] = asked[p]
      BY <1>1, <2>1
    <3> QED BY <1>4, <3>1 DEF OrderIsAsAsked
  <2>2. CASE p = o
    BY <1>1, <1>4, <2>2
  <2> QED BY <2>1, <2>2
<1>5. OrderIsAsAsked'
  BY <1>4 DEF OrderIsAsAsked, OrderContent
<1>6. SuppliersStand'
  BY DEF SuppliersStand
<1> QED BY <1>3, <1>5, <1>6

LEMMA OrderInv ==
    ASSUME ProcurementInv, ReadingShaped', NEW view \in TablesView, NEW o \in Order,
           \/ \E s \in Supplier, m \in Bought, n \in Quantity : CreatePO(o, m, s, n, view) \/ UpdatePO(o, m, s, n, view)
           \/ DeletePO(o, view) \/ RequestPO(o, view)
           \/ \E verdict \in {"APPROVED", "REJECTED"} : DecidePO(o, verdict, view)
    PROVE  ProcurementInv'
<1> USE DEF ProcurementInv
<1>0. orders \in [Order -> OrderRow] /\ orders[o] \in OrderRow /\ asked = [p \in Order |-> asked[p]]
      /\ view.orders[o] \in OrderRow
  BY DEF ProcurementShaped, ProcurementTypeOK, TablesView
<1>a. ASSUME Stale(o, view.orders[o], orders[o])
      PROVE  /\ stale' = stale \/ stale' = stale \cup {o}
             /\ o \notin stale' => o \notin stale /\ view.orders[o] = orders[o]
  BY <1>a DEF Stale
<1>1. ASSUME NEW s \in Supplier, NEW m \in Bought, NEW n \in Quantity, CreatePO(o, m, s, n, view) PROVE ProcurementInv'
  <2>1. PICK row : row = [status |-> "CREATED", material |-> m, supplier |-> s, quantity |-> n]
    OBVIOUS
  <2>2. row \in OrderRow /\ row.status = "CREATED"
    BY <2>1 DEF OrderRow, OrderStatus
  <2>3. orders' = [orders EXCEPT ![o] = row] /\ UNCHANGED <<suppliers, stocked, asked, stale>>
    BY <1>1, <2>1 DEF CreatePO
  <2> QED BY <2>2, <2>3, OrderStep
<1>2. ASSUME NEW s \in Supplier, NEW m \in Bought, NEW n \in Quantity, UpdatePO(o, m, s, n, view) PROVE ProcurementInv'
  <2>1. PICK row : row = [orders[o] EXCEPT !.material = m, !.supplier = s, !.quantity = n]
    OBVIOUS
  <2>2. row \in OrderRow /\ row.status = orders[o].status
    BY <1>0, <2>1 DEF OrderRow
  <2>3. /\ orders' = [orders EXCEPT ![o] = row] /\ UNCHANGED <<suppliers, stocked, asked>>
        /\ EditableOrder(o, view) /\ Stale(o, view.orders[o], orders[o])
    BY <1>0, <1>2, <2>1 DEF UpdatePO
  <2>4. o \notin stale' => ~(row.status \in {"PENDING", "APPROVED"})
    BY <1>a, <2>2, <2>3 DEF EditableOrder
  <2> QED BY <1>a, <2>2, <2>3, <2>4, OrderStep
<1>3. ASSUME DeletePO(o, view) PROVE ProcurementInv'
  <2>1. PICK row : row = [orders[o] EXCEPT !.status = "deleted"]
    OBVIOUS
  <2>2. row \in OrderRow /\ row.status = "deleted"
    BY <1>0, <2>1 DEF OrderRow
  <2>3. /\ orders' = [orders EXCEPT ![o] = row] /\ UNCHANGED <<suppliers, stocked, asked>>
        /\ Stale(o, view.orders[o], orders[o])
    BY <1>0, <1>3, <2>1 DEF DeletePO
  <2> QED BY <1>a, <2>2, <2>3, OrderStep
<1>4. ASSUME RequestPO(o, view) PROVE ProcurementInv'
  <2>1. PICK row : row = [orders[o] EXCEPT !.status = "PENDING"]
    OBVIOUS
  <2>2. row \in OrderRow /\ OrderContent(row) = OrderContent(orders[o])
    BY <1>0, <2>1 DEF OrderRow, OrderStatus, OrderContent
  <2>3. /\ orders' = [orders EXCEPT ![o] = row] /\ UNCHANGED <<suppliers, stocked>>
        /\ asked' = [asked EXCEPT ![o] = {OrderContent(view.orders[o])}]
        /\ Stale(o, view.orders[o], orders[o])
    BY <1>0, <1>4, <2>1 DEF RequestPO
  <2>4. OrderContent(view.orders[o]) \in {OrderContent(old) : old \in OrderRow}
    BY <1>0
  <2>5. asked'[o] = {OrderContent(view.orders[o])}
    BY <1>0, <2>3
  <2>6. o \notin stale' => asked'[o] = {OrderContent(row)}
    BY <1>a, <2>2, <2>3, <2>5
  <2> QED BY <1>a, <2>2, <2>3, <2>4, <2>6, OrderStep
<1>5. ASSUME NEW verdict \in {"APPROVED", "REJECTED"}, DecidePO(o, verdict, view) PROVE ProcurementInv'
  <2>1. PICK row : row = [orders[o] EXCEPT !.status = verdict]
    OBVIOUS
  <2>2. row \in OrderRow /\ OrderContent(row) = OrderContent(orders[o])
    BY <1>0, <2>1 DEF OrderRow, OrderStatus, OrderContent
  <2>3. /\ orders' = [orders EXCEPT ![o] = row] /\ UNCHANGED <<suppliers, stocked, asked>>
        /\ Stale(o, view.orders[o], orders[o]) /\ view.orders[o].status = "PENDING"
    BY <1>0, <1>5, <2>1 DEF DecidePO
  <2>4. o \notin stale' => asked'[o] = {OrderContent(row)}
    BY <1>a, <2>2, <2>3 DEF OrderIsAsAsked
  <2> QED BY <1>a, <2>2, <2>3, <2>4, OrderStep
<1> QED BY <1>1, <1>2, <1>3, <1>4, <1>5

LEMMA RequestInv ==
    ASSUME ProcurementInv, ReadingShaped', NEW view \in TablesView, Request(view) PROVE ProcurementInv'
<1>1. ASSUME NEW s \in Supplier, NEW c \in Contact \cup {NoContact}, CreateSupplier(s, c, view) \/ UpdateSupplier(s, c, view)
      PROVE  ProcurementInv'
  BY <1>1, SupplierInv
<1>2. ASSUME NEW s \in Supplier, DeleteSupplier(s, view) PROVE ProcurementInv'
  <2>1. NoContact \in Contact \cup {NoContact}
    OBVIOUS
  <2> QED BY <1>2, <2>1, SupplierInv
<1>3. ASSUME NEW s \in Supplier, NEW o \in Order, NEW m \in Bought, NEW n \in Quantity,
             CreatePO(o, m, s, n, view) \/ UpdatePO(o, m, s, n, view)
      PROVE  ProcurementInv'
  BY <1>3, OrderInv
<1>4. ASSUME NEW o \in Order,
             DeletePO(o, view) \/ RequestPO(o, view) \/ \E verdict \in {"APPROVED", "REJECTED"} : DecidePO(o, verdict, view)
      PROVE  ProcurementInv'
  BY <1>4, OrderInv
<1> QED BY <1>1, <1>2, <1>3, <1>4 DEF Request

LEMMA ProcurementNextInv == ProcurementInv /\ [ProcurementNext]_procurementVars => ProcurementInv'
<1> SUFFICES ASSUME ProcurementInv, [ProcurementNext]_procurementVars PROVE ProcurementInv'
  OBVIOUS
<1>0. ASSUME UNCHANGED <<suppliers, stocked, orders, asked, stale>>, ReadingShaped' PROVE ProcurementInv'
  BY <1>0 DEF ProcurementInv, ProcurementShaped, ProcurementTypeOK, OrderIsAsAsked, SuppliersStand, OrderContent
<1>s. UNCHANGED reading => ReadingShaped'
  BY DEF ProcurementInv, ReadingShaped
<1>v. Tables \in TablesView
  BY DEF ProcurementInv, ProcurementShaped, ProcurementTypeOK, Tables, TablesView
<1>1. CASE UNCHANGED procurementVars
  <2>1. UNCHANGED <<suppliers, stocked, orders, asked, reading, stale>>
    BY <1>1 DEF procurementVars
  <2> QED BY <1>0, <1>s, <2>1
<1>2. CASE Request(Tables) /\ UNCHANGED reading
  <2>1. PICK view \in TablesView : view = Tables
    BY <1>v
  <2> QED BY <1>2, <1>s, <2>1, RequestInv
<1>3. ASSUME NEW m \in Bought, UNCHANGED reading,
             \/ \E s \in Supplier : (\E n \in Quantity : AddMaterial(m, s, n)) \/ MoveMaterial(m, s)
             \/ \E n \in Quantity \ {0} : Receive(m, n) \/ Use(m, n)
             \/ RemoveMaterial(m)
      PROVE  ProcurementInv'
  BY <1>3, <1>s, StockedInv
<1>4. ASSUME NEW r \in Ordering, BeginRead(r) PROVE ProcurementInv'
  <2>1. reading' = [reading EXCEPT ![r] = Tables] /\ UNCHANGED <<suppliers, stocked, orders, asked, stale>>
    BY <1>4 DEF BeginRead
  <2>2. ReadingShaped'
    BY <1>v, <2>1 DEF ProcurementInv, ReadingShaped
  <2> QED BY <1>0, <2>1, <2>2
<1>5. ASSUME NEW r \in Ordering, CommitRead(r) PROVE ProcurementInv'
  <2>1. reading[r] # NoTables /\ Request(reading[r]) /\ reading' = [reading EXCEPT ![r] = NoTables]
    BY <1>5 DEF CommitRead
  <2>2. PICK view \in TablesView : view = reading[r]
    BY <2>1 DEF ProcurementInv, ReadingShaped
  <2>3. ReadingShaped'
    BY <2>1 DEF ProcurementInv, ReadingShaped
  <2> QED BY <2>1, <2>2, <2>3, RequestInv
<1> QED BY <1>1, <1>2, <1>3, <1>4, <1>5 DEF ProcurementNext

\* Every report sees the same shortages, an order that waits for its approval or has it
\* says what was asked for, and suppliers stay apart and in place (material.py,
\* approval.py).
THEOREM ProcurementStandsAlways ==
    ProcurementSpec => [](ShortagesAreSeen /\ OrderIsAsAsked /\ SuppliersStand)
<1>1. ProcurementInv => ShortagesAreSeen /\ OrderIsAsAsked /\ SuppliersStand
  BY ShortagesSeen DEF ProcurementInv, ProcurementShaped
<1> QED BY <1>1, ProcurementInitInv, ProcurementNextInv, PTL DEF ProcurementSpec

-----------------------------------------------------------------------------
(* What the books show.                                                     *)

TemplateTable == [Template -> TemplateRow \cup {Unset}]
JournalTable == [EntryId -> EntryRow \cup {Unwritten}]
Balances(row) ==
    \/ row.debit = row.credit \/ row.kind = "Recurring"
    \/ (row.kind = "Import" /\ row.debit - row.credit \in -1 .. 1)
EntriesKept ==
    \A e \in EntryId : journals[e] # Unwritten =>
        /\ Balances(journals[e])
        /\ journals[e].status = "Pending" => e \in requested \/ journals[e].kind = "Import"
\* What a transfer or a voucher wrote: no approval is asked for the entry of a transfer.
VouchersKept ==
    /\ \A v \in transfers :
        /\ journals[v[4]] # Unwritten /\ journals[v[4]].kind = "Auto" /\ journals[v[4]].status = "Posted"
        /\ journals[v[4]].credited = v[1] /\ journals[v[4]].debited = v[2] /\ journals[v[4]].debit = v[3]
    /\ \A e \in petty : /\ journals[e] # Unwritten /\ journals[e].kind = "PettyCash"
                        /\ PettyCash \in {journals[e].debited, journals[e].credited}
    /\ \A e \in requested : journals[e] # Unwritten /\ journals[e].kind # "Auto"
\* The dates of a template that have an entry, of which there is one.
DatesOf(t, next) ==
    \A d \in 1 .. Today : IF d < next THEN \E e \in EntryId : Generated(t, d) = {e} ELSE Generated(t, d) = {}
DatesKept ==
    \A t \in Template : /\ templates[t] = Unset => \A d \in Nat : Generated(t, d) = {}
                        /\ templates[t] # Unset /\ t \notin outrun => DatesOf(t, templates[t].next)
\* A run reads templates that are there still.
RunKept(view) ==
    view.templates \in TemplateTable /\ \A t \in Template : view.templates[t] # Unset => templates[t] # Unset
RunsKept ==
    /\ running = [r \in Running |-> running[r]]
    /\ \A r \in Running : running[r] = Unread \/ RunKept(running[r])
LedgerInv ==
    /\ LedgerTypeOK /\ journals \in JournalTable /\ templates \in TemplateTable
    /\ RunsKept /\ EntriesKept /\ VouchersKept /\ DatesKept

LEMMA LedgerInitInv == LedgerInit => LedgerInv
<1> SUFFICES ASSUME LedgerInit PROVE LedgerInv
  OBVIOUS
<1>1. LedgerTypeOK /\ journals \in JournalTable /\ templates \in TemplateTable
  BY DEF LedgerInit, LedgerTypeOK, JournalTable, TemplateTable
<1>2. RunsKept /\ EntriesKept /\ VouchersKept
  BY DEF LedgerInit, RunsKept, EntriesKept, VouchersKept
<1>3. DatesKept
  BY DEF LedgerInit, DatesKept, Generated
<1> QED BY <1>1, <1>2, <1>3 DEF LedgerInv

-----------------------------------------------------------------------------
\* A run's view of now, and of then.
LEMMA RunsStep ==
    ASSUME LedgerInv, running' = [r \in Running |-> running'[r]],
           \A r \in Running : running'[r] \in {running[r], Unread, Read2},
           \A t \in Template : templates[t] # Unset => templates'[t] # Unset
    PROVE  RunsKept'
<1>1. RunKept(Read2)
  BY DEF LedgerInv, RunKept, Read2
<1>2. ASSUME NEW r \in Running PROVE (running[r] = Unread \/ RunKept(running[r]))'
  <2>1. PICK view : view = running'[r]
    OBVIOUS
  <2>2. view = Unread \/ RunKept(view)
    BY <1>1, <2>1 DEF LedgerInv, RunsKept
  <2>3. ASSUME RunKept(view) PROVE (RunKept(running[r]))'
    BY <2>1, <2>3 DEF RunKept, TemplateTable, TemplateRow, Unset
  <2>4. view = Unread => (running[r] = Unread)'
    BY <2>1 DEF Unread, Unset
  <2> QED BY <2>2, <2>3, <2>4
<1> QED BY <1>2 DEF RunsKept

RunsStay ==
    /\ running' = [r \in Running |-> running'[r]]
    /\ \A r \in Running : running'[r] \in {running[r], Unread}

LEMMA NoNumber == \A t, d : <<>> # <<t, d>>
OBVIOUS

\* What a step that writes an entry has to keep.
LEMMA WriteStep ==
    ASSUME LedgerInv, RunsStay, NEW e \in EntryId, journals[e] = Unwritten, NEW row \in EntryRow,
           journals' = [journals EXCEPT ![e] = row], Balances(row), chart' = chart,
           requested' \in {requested, requested \cup {e}}, e \in requested' => row.kind # "Auto",
           row.status = "Pending" => e \in requested' \/ row.kind = "Import",
           petty' \in {petty, petty \cup {e}},
           e \in petty' => row.kind = "PettyCash" /\ PettyCash \in {row.debited, row.credited},
           NEW new \in SUBSET (Account \X Account \X Sum \X EntryId), transfers' = transfers \cup new,
           \A v \in new : /\ v[4] = e /\ row.kind = "Auto" /\ row.status = "Posted" /\ row.credited = v[1]
                          /\ row.debited = v[2] /\ row.debit = v[3],
           templates' \in TemplateTable, \A t \in Template : templates[t] # Unset => templates'[t] # Unset,
           outrun' \subseteq Template, DatesKept'
    PROVE  LedgerInv'
<1>1. journals' \in JournalTable /\ journals'[e] = row /\ row # Unwritten
      /\ \A f \in EntryId : f # e => journals'[f] = journals[f]
  <2>1. row # Unwritten
    BY DEF EntryRow, Unwritten
  <2> QED BY <2>1 DEF LedgerInv, JournalTable
<1>2. e \notin requested /\ e \notin petty /\ \A v \in transfers : v[4] # e
  BY DEF LedgerInv, VouchersKept
<1>3. requested \subseteq EntryId /\ petty \subseteq EntryId /\ transfers \subseteq Account \X Account \X Sum \X EntryId
      /\ chart \in [Account -> {"missing", "active", "inactive"}]
  BY DEF LedgerInv, LedgerTypeOK
<1>4. LedgerTypeOK'
  <2>2. transfers' \subseteq Account \X Account \X Sum \X EntryId
    BY <1>3
  <2>3. requested' \subseteq EntryId /\ petty' \subseteq EntryId
    BY <1>3
  <2>4. \A f \in EntryId : journals'[f] = Unwritten \/ journals'[f] \in EntryRow
    BY <1>1 DEF JournalTable
  <2>5. \A t \in Template : templates'[t] = Unset \/ templates'[t] \in TemplateRow
    BY DEF TemplateTable
  <2> QED BY <1>3, <2>2, <2>3, <2>4, <2>5 DEF LedgerTypeOK, Unset, Unwritten, EntryRow, TemplateRow
<1>5. RunsKept'
  BY RunsStep DEF RunsStay
<1>6. EntriesKept'
  <2>1. ASSUME NEW f \in EntryId, journals'[f] # Unwritten
        PROVE  /\ Balances(journals'[f])
               /\ journals'[f].status = "Pending" => f \in requested' \/ journals'[f].kind = "Import"
    <3>1. CASE f = e
      BY <1>1, <3>1
    <3>2. CASE f # e
      BY <1>1, <2>1, <3>2 DEF LedgerInv, EntriesKept
    <3> QED BY <3>1, <3>2
  <2> QED BY <2>1 DEF EntriesKept, Balances, Unwritten
<1>7. VouchersKept'
  <2>1. ASSUME NEW v \in transfers'
        PROVE  /\ journals'[v[4]] # Unwritten /\ journals'[v[4]].kind = "Auto" /\ journals'[v[4]].status = "Posted"
               /\ journals'[v[4]].credited = v[1] /\ journals'[v[4]].debited = v[2] /\ journals'[v[4]].debit = v[3]
    <3>1. CASE v \in transfers
      <4>1. v[4] \in EntryId /\ v[4] # e
        BY <1>2, <1>3, <3>1
      <4>2. journals'[v[4]] = journals[v[4]]
        BY <1>1, <4>1
      <4> QED BY <3>1, <4>2 DEF LedgerInv, VouchersKept
    <3>2. CASE v \notin transfers
      <4>1. v \in new
        BY <2>1, <3>2
      <4> QED BY <1>1, <4>1
    <3> QED BY <3>1, <3>2
  <2>2. ASSUME NEW f \in petty'
        PROVE  /\ journals'[f] # Unwritten /\ journals'[f].kind = "PettyCash"
               /\ PettyCash \in {journals'[f].debited, journals'[f].credited}
    <3>1. CASE f = e
      BY <1>1, <2>2, <3>1
    <3>2. CASE f # e
      <4>1. f \in petty /\ f \in EntryId
        BY <1>3, <2>2, <3>2
      <4> QED BY <1>1, <3>2, <4>1 DEF LedgerInv, VouchersKept
    <3> QED BY <3>1, <3>2
  <2>3. ASSUME NEW f \in requested' PROVE journals'[f] # Unwritten /\ journals'[f].kind # "Auto"
    <3>1. CASE f = e
      BY <1>1, <2>3, <3>1
    <3>2. CASE f # e
      <4>1. f \in requested /\ f \in EntryId
        BY <1>3, <2>3, <3>2
      <4> QED BY <1>1, <3>2, <4>1 DEF LedgerInv, VouchersKept
    <3> QED BY <3>1, <3>2
  <2> QED BY <2>1, <2>2, <2>3 DEF VouchersKept, Unwritten
<1> QED BY <1>1, <1>4, <1>5, <1>6, <1>7 DEF LedgerInv, JournalTable, TemplateTable

\* An entry with another number is nobody's date.
LEMMA WrittenDates ==
    ASSUME LedgerInv, NEW e \in EntryId, journals[e] = Unwritten, NEW row \in EntryRow,
           journals' = [journals EXCEPT ![e] = row], NEW t, NEW d
    PROVE  (Generated(t, d))' = IF row.number = <<t, d>> THEN Generated(t, d) \cup {e} ELSE Generated(t, d)
<1>1. journals'[e] = row /\ row # Unwritten /\ \A f \in EntryId : f # e => journals'[f] = journals[f]
  <2>1. row # Unwritten
    BY DEF EntryRow, Unwritten
  <2> QED BY <2>1 DEF LedgerInv, JournalTable
<1>2. (Generated(t, d))' = {f \in EntryId : journals'[f] # Unwritten /\ journals'[f].number = <<t, d>>}
  BY DEF Generated, Unwritten
<1> QED BY <1>1, <1>2 DEF Generated

LEMMA PlainDates ==
    ASSUME LedgerInv, NEW e \in EntryId, journals[e] = Unwritten, NEW row \in EntryRow, row.number = <<>>,
           journals' = [journals EXCEPT ![e] = row], UNCHANGED <<templates, outrun>>
    PROVE  DatesKept'
<1>1. \A t, d : (Generated(t, d))' = Generated(t, d)
  <2>1. \A t, d : row.number # <<t, d>>
    BY NoNumber
  <2>2. \A t, d : (Generated(t, d))' = IF row.number = <<t, d>> THEN Generated(t, d) \cup {e} ELSE Generated(t, d)
    BY WrittenDates
  <2> QED BY <2>1, <2>2
<1>2. \A t \in Template : DatesOf(t, templates[t].next) => (DatesOf(t, templates[t].next))'
  BY <1>1 DEF DatesOf
<1> QED BY <1>1, <1>2 DEF LedgerInv, DatesKept, Unset

\* Entries of the program and of people.
Plain(status, kind, a, b, debit, credit) ==
    [status |-> status, kind |-> kind, debited |-> a, credited |-> b,
     debit |-> debit, credit |-> credit, number |-> <<>>]
LEMMA PlainRow ==
    ASSUME NEW e \in EntryId, NEW status \in {"Posted", "Pending"}, NEW kind \in {"Auto", "Manual", "Import", "PettyCash"},
           NEW a \in Account, NEW b \in Account, NEW m \in Sum, NEW n \in Sum,
           m = n \/ (kind = "Import" /\ NearlyBalanced(m, n)), Write(e, status, kind, a, b, m, n, <<>>)
    PROVE  /\ Plain(status, kind, a, b, m, n) \in EntryRow
           /\ Plain(status, kind, a, b, m, n).status = status /\ Plain(status, kind, a, b, m, n).kind = kind
           /\ Plain(status, kind, a, b, m, n).debited = a /\ Plain(status, kind, a, b, m, n).credited = b
           /\ Plain(status, kind, a, b, m, n).debit = m /\ Plain(status, kind, a, b, m, n).number = <<>>
           /\ journals' = [journals EXCEPT ![e] = Plain(status, kind, a, b, m, n)]
           /\ Balances(Plain(status, kind, a, b, m, n)) /\ journals[e] = Unwritten
<1>1. m \in Nat /\ n \in Nat
  BY EntriesAssumption
<1>2. Plain(status, kind, a, b, m, n) \in EntryRow
  BY <1>1 DEF Plain, EntryRow, EntryStatus, EntryKind
<1>3. journals' = [journals EXCEPT ![e] = Plain(status, kind, a, b, m, n)] /\ journals[e] = Unwritten
  BY DEF Write, FreeEntry, Plain
<1>4. Balances(Plain(status, kind, a, b, m, n))
  BY <1>1 DEF Balances, NearlyBalanced, Plain
<1> QED BY <1>2, <1>3, <1>4 DEF Plain

LEMMA PostingPairs == ASSUME NEW p \in Posting PROVE p[1] \in Account /\ p[2] \in Account
BY PostingAssumption

LEMMA EntryInv ==
    ASSUME LedgerInv, NEW e \in EntryId, NEW a \in Account, NEW b \in Account, NEW m \in Sum, NEW n \in Sum,
           \/ CreateJournalEntry(e, a, b, m, n) \/ CreateManualJournal(e, a, b, m, n)
           \/ CreateAdjustmentJournal(e, a, b, m, n) \/ ImportAdjustmentJournals(e, a, b, m, n)
           \/ (m = n /\ CreateFundTransfer(e, b, a, n))
    PROVE  LedgerInv'
<1>0. UNCHANGED running => RunsStay
  BY DEF LedgerInv, RunsKept, RunsStay
<1>1. CASE CreateJournalEntry(e, a, b, m, n)
  <2>1. m = n /\ Write(e, "Posted", "Auto", a, b, m, n, <<>>)
        /\ UNCHANGED <<chart, requested, templates, running, petty, transfers, outrun>>
    BY <1>1 DEF CreateJournalEntry, Balanced
  <2>0. PICK row : row = Plain("Posted", "Auto", a, b, m, n)
    OBVIOUS
  <2>2. /\ row \in EntryRow
        /\ row.status = "Posted" /\ row.kind = "Auto" /\ row.number = <<>>
        /\ journals' = [journals EXCEPT ![e] = row] /\ Balances(row) /\ journals[e] = Unwritten
    BY <2>0, <2>1, PlainRow
  <2>3. DatesKept' /\ templates' \in TemplateTable /\ outrun' \subseteq Template
    BY <2>1, <2>2, PlainDates DEF LedgerInv, LedgerTypeOK, TemplateTable
  <2>4. e \notin requested' /\ e \notin petty'
    BY <2>1, <2>2 DEF LedgerInv, VouchersKept
  <2>5. requested' \in {requested, requested \cup {e}} /\ petty' \in {petty, petty \cup {e}}
    BY <2>1
  <2>6. PICK new : new = {}
    OBVIOUS
  <2>7. /\ new \in SUBSET (Account \X Account \X Sum \X EntryId) /\ transfers' = transfers \cup new
        /\ \A v \in new : /\ v[4] = e /\ row.kind = "Auto" /\ row.status = "Posted" /\ row.credited = v[1]
                          /\ row.debited = v[2] /\ row.debit = v[3]
    BY <2>1, <2>6
  <2> QED BY <1>0, <2>1, <2>2, <2>3, <2>4, <2>5, <2>7, WriteStep
<1>2. CASE CreateManualJournal(e, a, b, m, n) \/ CreateAdjustmentJournal(e, a, b, m, n)
  <2>1. m = n /\ Write(e, "Pending", "Manual", a, b, m, n, <<>>) /\ requested' = requested \cup {e}
        /\ UNCHANGED <<chart, templates, running, petty, transfers, outrun>>
    BY <1>2 DEF CreateManualJournal, CreateAdjustmentJournal, Balanced, WithRequest
  <2>0. PICK row : row = Plain("Pending", "Manual", a, b, m, n)
    OBVIOUS
  <2>2. /\ row \in EntryRow
        /\ row.status = "Pending" /\ row.kind = "Manual" /\ row.number = <<>>
        /\ journals' = [journals EXCEPT ![e] = row] /\ Balances(row) /\ journals[e] = Unwritten
    BY <2>0, <2>1, PlainRow
  <2>3. DatesKept' /\ templates' \in TemplateTable /\ outrun' \subseteq Template
    BY <2>1, <2>2, PlainDates DEF LedgerInv, LedgerTypeOK, TemplateTable
  <2>4. e \notin petty' /\ e \in requested'
    BY <2>1, <2>2 DEF LedgerInv, VouchersKept
  <2>5. requested' \in {requested, requested \cup {e}} /\ petty' \in {petty, petty \cup {e}}
    BY <2>1
  <2>6. PICK new : new = {}
    OBVIOUS
  <2>7. /\ new \in SUBSET (Account \X Account \X Sum \X EntryId) /\ transfers' = transfers \cup new
        /\ \A v \in new : /\ v[4] = e /\ row.kind = "Auto" /\ row.status = "Posted" /\ row.credited = v[1]
                          /\ row.debited = v[2] /\ row.debit = v[3]
    BY <2>1, <2>6
  <2> QED BY <1>0, <2>1, <2>2, <2>3, <2>4, <2>5, <2>7, WriteStep
<1>3. CASE ImportAdjustmentJournals(e, a, b, m, n)
  <2>1. NearlyBalanced(m, n) /\ Write(e, "Pending", "Import", a, b, m, n, <<>>)
        /\ UNCHANGED <<chart, requested, templates, running, petty, transfers, outrun>>
    BY <1>3 DEF ImportAdjustmentJournals
  <2>0. PICK row : row = Plain("Pending", "Import", a, b, m, n)
    OBVIOUS
  <2>2. /\ row \in EntryRow
        /\ row.status = "Pending" /\ row.kind = "Import" /\ row.number = <<>>
        /\ journals' = [journals EXCEPT ![e] = row] /\ Balances(row) /\ journals[e] = Unwritten
    BY <2>0, <2>1, PlainRow
  <2>3. DatesKept' /\ templates' \in TemplateTable /\ outrun' \subseteq Template
    BY <2>1, <2>2, PlainDates DEF LedgerInv, LedgerTypeOK, TemplateTable
  <2>4. e \notin requested' /\ e \notin petty'
    BY <2>1, <2>2 DEF LedgerInv, VouchersKept
  <2>5. requested' \in {requested, requested \cup {e}} /\ petty' \in {petty, petty \cup {e}}
    BY <2>1
  <2>6. PICK new : new = {}
    OBVIOUS
  <2>7. /\ new \in SUBSET (Account \X Account \X Sum \X EntryId) /\ transfers' = transfers \cup new
        /\ \A v \in new : /\ v[4] = e /\ row.kind = "Auto" /\ row.status = "Posted" /\ row.credited = v[1]
                          /\ row.debited = v[2] /\ row.debit = v[3]
    BY <2>1, <2>6
  <2> QED BY <1>0, <2>1, <2>2, <2>3, <2>4, <2>5, <2>7, WriteStep
<1>4. CASE m = n /\ CreateFundTransfer(e, b, a, n)
  <2>1. Write(e, "Posted", "Auto", a, b, m, n, <<>>) /\ transfers' = transfers \cup {<<b, a, n, e>>}
        /\ UNCHANGED <<chart, requested, templates, running, petty, outrun>>
    BY <1>4 DEF CreateFundTransfer
  <2>0. PICK row : row = Plain("Posted", "Auto", a, b, m, n)
    OBVIOUS
  <2>2. /\ row \in EntryRow
        /\ row.status = "Posted" /\ row.kind = "Auto" /\ row.debited = a /\ row.credited = b
        /\ row.debit = n /\ row.number = <<>>
        /\ journals' = [journals EXCEPT ![e] = row] /\ Balances(row) /\ journals[e] = Unwritten
    BY <2>0, <1>4, <2>1, PlainRow
  <2>3. DatesKept' /\ templates' \in TemplateTable /\ outrun' \subseteq Template
    BY <2>1, <2>2, PlainDates DEF LedgerInv, LedgerTypeOK, TemplateTable
  <2>4. e \notin requested' /\ e \notin petty'
    BY <2>1, <2>2 DEF LedgerInv, VouchersKept
  <2>5. requested' \in {requested, requested \cup {e}} /\ petty' \in {petty, petty \cup {e}}
    BY <2>1
  <2>6. PICK new : new = {<<b, a, n, e>>}
    OBVIOUS
  <2>7. /\ new \in SUBSET (Account \X Account \X Sum \X EntryId) /\ transfers' = transfers \cup new
        /\ \A v \in new : /\ v[4] = e /\ row.kind = "Auto" /\ row.status = "Posted" /\ row.credited = v[1]
                          /\ row.debited = v[2] /\ row.debit = v[3]
    BY <2>1, <2>2, <2>6
  <2> QED BY <1>0, <2>1, <2>2, <2>3, <2>4, <2>5, <2>7, WriteStep
<1> QED BY <1>1, <1>2, <1>3, <1>4

LEMMA PettyInv ==
    ASSUME LedgerInv, NEW e \in EntryId, NEW type \in {"CASH_IN", "CASH_OUT"}, NEW a \in Account, NEW n \in Sum,
           PettyCashTransaction(e, type, a, n)
    PROVE  LedgerInv'
<1>1. PICK from \in Account, to \in Account :
          /\ PettyCash \in {from, to} /\ Write(e, "Posted", "PettyCash", to, from, n, n, <<>>)
          /\ petty' = petty \cup {e}
          /\ UNCHANGED <<chart, requested, templates, running, transfers, outrun>>
  BY AccountsAssumption DEF PettyCashTransaction
<1>0. PICK row : row = Plain("Posted", "PettyCash", to, from, n, n)
  OBVIOUS
<1>2. /\ row \in EntryRow
      /\ row.status = "Posted" /\ row.kind = "PettyCash" /\ row.debited = to /\ row.credited = from
      /\ row.number = <<>> /\ journals' = [journals EXCEPT ![e] = row] /\ Balances(row) /\ journals[e] = Unwritten
  BY <1>0, <1>1, PlainRow
<1>3. DatesKept' /\ templates' \in TemplateTable /\ outrun' \subseteq Template
  BY <1>1, <1>2, PlainDates DEF LedgerInv, LedgerTypeOK, TemplateTable
<1>4. e \notin requested' /\ RunsStay
  BY <1>1, <1>2 DEF LedgerInv, VouchersKept, RunsKept, RunsStay
<1>5. requested' \in {requested, requested \cup {e}} /\ petty' \in {petty, petty \cup {e}} /\ e \in petty'
  BY <1>1
<1>6. PICK new : new = {}
  OBVIOUS
<1>7. /\ new \in SUBSET (Account \X Account \X Sum \X EntryId) /\ transfers' = transfers \cup new
      /\ \A v \in new : /\ v[4] = e /\ row.kind = "Auto" /\ row.status = "Posted" /\ row.credited = v[1]
                        /\ row.debited = v[2] /\ row.debit = v[3]
  BY <1>1, <1>6
<1> QED BY <1>1, <1>2, <1>3, <1>4, <1>5, <1>7, WriteStep

\* One template of a run.
LEMMA RunDueInv ==
    ASSUME LedgerInv, RunsStay, NEW t \in Template, NEW e \in EntryId, NEW view, RunKept(view), RunDue(t, e, view)
    PROVE  LedgerInv'
<1>1. PICK due \in TemplateRow : due = view.templates[t]
  BY DEF RunDue, Ungenerated, Due, RunKept, TemplateTable
<1>2. PICK old \in TemplateRow : old = templates[t]
  BY DEF RunDue, Ungenerated, Due, RunKept, LedgerInv, TemplateTable
<1>3. PICK row : row = [status |-> "Pending", kind |-> "Recurring", debited |-> due.debited,
                        credited |-> due.credited, debit |-> due.debit, credit |-> due.credit,
                        number |-> <<t, due.next>>]
  OBVIOUS
<1>4. /\ row \in EntryRow /\ row.status = "Pending" /\ row.kind = "Recurring" /\ row.number = <<t, due.next>>
      /\ due.next \in Nat /\ old.next \in Nat
  BY <1>3 DEF TemplateRow, EntryRow, EntryStatus, EntryKind
<1>5. /\ journals' = [journals EXCEPT ![e] = row] /\ journals[e] = Unwritten /\ requested' = requested \cup {e}
      /\ templates' = [templates EXCEPT ![t].next = due.next + 1]
      /\ outrun' = IF due.next = old.next THEN outrun ELSE outrun \cup {t}
      /\ UNCHANGED <<chart, petty, transfers>>
  BY <1>1, <1>2, <1>3 DEF RunDue, Write, FreeEntry, WithRequest, Advanced2
<1>6. PICK new : new = [old EXCEPT !.next = due.next + 1]
  OBVIOUS
<1>7. new \in TemplateRow /\ new.next = due.next + 1 /\ new # Unset /\ old # Unset
  BY <1>4, <1>6 DEF TemplateRow, Unset
<1>8. templates' \in TemplateTable /\ templates'[t] = new /\ \A u \in Template : u # t => templates'[u] = templates[u]
  BY <1>2, <1>5, <1>6, <1>7 DEF LedgerInv, TemplateTable
<1>9. \A u, d : (Generated(u, d))' = IF row.number = <<u, d>> THEN Generated(u, d) \cup {e} ELSE Generated(u, d)
  BY <1>4, <1>5, WrittenDates
<1>10. \A u, d : <<u, d>> # <<t, due.next>> => (Generated(u, d))' = Generated(u, d)
  BY <1>4, <1>9
<1>11. (Generated(t, due.next))' = Generated(t, due.next) \cup {e}
  BY <1>4, <1>9
<1>12. DatesKept'
  <2>1. ASSUME NEW u \in Template, u # t
        PROVE  (/\ templates[u] = Unset => \A d \in Nat : Generated(u, d) = {}
                /\ templates[u] # Unset /\ u \notin outrun => DatesOf(u, templates[u].next))'
    <3>1. \A d : (Generated(u, d))' = Generated(u, d)
      BY <1>10, <2>1
    <3>2. templates'[u] = templates[u] /\ (u \notin outrun' => u \notin outrun)
      BY <1>5, <1>8, <2>1
    <3>3. DatesOf(u, templates[u].next) => (DatesOf(u, templates[u].next))'
      BY <3>1, <3>2 DEF DatesOf
    <3> QED BY <3>1, <3>2, <3>3 DEF LedgerInv, DatesKept, Unset
  <2>2. ASSUME t \notin outrun'
        PROVE  (DatesOf(t, templates[t].next))'
    <3>1. due.next = old.next /\ t \notin outrun
      BY <1>5, <2>2
    <3>2. DatesOf(t, old.next)
      BY <1>2, <1>7, <3>1 DEF LedgerInv, DatesKept
    <3>3. ASSUME NEW d \in 1 .. Today
          PROVE  IF d < new.next THEN \E f \in EntryId : (Generated(t, d))' = {f} ELSE (Generated(t, d))' = {}
      <4>1. PICK i \in Nat : i = due.next
        BY <1>4
      <4>2. new.next = i + 1 /\ old.next = i /\ d \in Int
        BY <1>7, <3>1, <4>1
      <4>3. CASE d = i
        <5>1. Generated(t, d) = {}
          BY <3>2, <4>2, <4>3 DEF DatesOf
        <5>2. (Generated(t, d))' = {e}
          BY <1>11, <4>1, <4>3, <5>1
        <5> QED BY <4>2, <4>3, <5>2
      <4>4. CASE d # i
        <5>1. (Generated(t, d))' = Generated(t, d)
          BY <1>10, <4>1, <4>4
        <5>2. d < new.next <=> d < old.next
          BY <4>2, <4>4
        <5>3. IF d < old.next THEN \E f \in EntryId : Generated(t, d) = {f} ELSE Generated(t, d) = {}
          BY <3>2 DEF DatesOf
        <5> QED BY <5>1, <5>2, <5>3
      <4> QED BY <4>3, <4>4
    <3> QED BY <1>8, <3>3 DEF DatesOf
  <2> QED BY <1>7, <1>8, <2>1, <2>2 DEF DatesKept, Unset
<1>13. Balances(row)
  BY <1>4 DEF Balances
<1>14. e \notin petty'
  BY <1>5 DEF LedgerInv, VouchersKept
<1>15. /\ outrun' \subseteq Template /\ petty' \in {petty, petty \cup {e}} /\ e \in requested'
       /\ requested' \in {requested, requested \cup {e}}
  BY <1>5 DEF LedgerInv, LedgerTypeOK
<1>16. \A u \in Template : templates[u] # Unset => templates'[u] # Unset
  BY <1>7, <1>8
<1>17. PICK none : none = {}
  OBVIOUS
<1>18. /\ none \in SUBSET (Account \X Account \X Sum \X EntryId) /\ transfers' = transfers \cup none
      /\ \A v \in none : /\ v[4] = e /\ row.kind = "Auto" /\ row.status = "Posted" /\ row.credited = v[1]
                        /\ row.debited = v[2] /\ row.debit = v[3]
  BY <1>5, <1>17
<1> QED BY <1>4, <1>5, <1>8, <1>12, <1>13, <1>14, <1>15, <1>16, <1>18, WriteStep

-----------------------------------------------------------------------------
\* Steps that write no entry.
LEMMA TemplatesStep ==
    ASSUME LedgerInv, RunsStay, NEW t \in Template, NEW row \in TemplateRow,
           templates' = [templates EXCEPT ![t] = row],
           templates[t] = Unset => row.next = 1, templates[t] # Unset => row.next = templates[t].next,
           UNCHANGED <<chart, journals, requested, petty, transfers, outrun>>
    PROVE  LedgerInv'
<1>1. row # Unset
  BY DEF TemplateRow, Unset
<1>2. templates' \in TemplateTable /\ templates'[t] = row /\ \A u \in Template : u # t => templates'[u] = templates[u]
  BY <1>1 DEF LedgerInv, TemplateTable
<1>3. LedgerTypeOK' /\ (journals \in JournalTable)'
  BY <1>2 DEF LedgerInv, LedgerTypeOK, TemplateTable, TemplateRow, Unset, JournalTable
<1>4. RunsKept'
  <2>1. \A u \in Template : templates[u] # Unset => templates'[u] # Unset
    BY <1>1, <1>2
  <2> QED BY <2>1, RunsStep DEF RunsStay
<1>5. EntriesKept' /\ VouchersKept'
  BY DEF LedgerInv, EntriesKept, VouchersKept, Balances
<1>6. \A u, d : (Generated(u, d))' = Generated(u, d)
  BY DEF Generated
<1>7. DatesKept'
  <2>1. ASSUME NEW u \in Template, u # t
        PROVE  (/\ templates[u] = Unset => \A d \in Nat : Generated(u, d) = {}
                /\ templates[u] # Unset /\ u \notin outrun => DatesOf(u, templates[u].next))'
    <3>1. DatesOf(u, templates[u].next) => (DatesOf(u, templates[u].next))'
      BY <1>2, <1>6, <2>1 DEF DatesOf
    <3> QED BY <1>2, <1>6, <2>1, <3>1 DEF LedgerInv, DatesKept, Unset
  <2>2. ASSUME t \notin outrun PROVE (DatesOf(t, templates[t].next))'
    <3>1. CASE templates[t] = Unset
      <4>1. \A d \in 1 .. Today : Generated(t, d) = {} /\ ~(d < row.next)
        BY <3>1 DEF LedgerInv, DatesKept
      <4> QED BY <1>2, <1>6, <4>1 DEF DatesOf
    <3>2. CASE templates[t] # Unset
      <4>1. DatesOf(t, row.next)
        BY <2>2, <3>2 DEF LedgerInv, DatesKept
      <4> QED BY <1>2, <1>6, <4>1 DEF DatesOf
    <3> QED BY <3>1, <3>2
  <2> QED BY <1>1, <1>2, <2>1, <2>2 DEF DatesKept, Unset
<1> QED BY <1>2, <1>3, <1>4, <1>5, <1>7 DEF LedgerInv, TemplateTable

LEMMA RecurringInv ==
    ASSUME LedgerInv, NEW t \in Template, NEW a \in Account, NEW b \in Account, NEW m \in Sum, NEW n \in Sum,
           CreateRecurring(t, a, b, m, n)
    PROVE  LedgerInv'
<1>1. RunsStay /\ UNCHANGED <<chart, journals, requested, petty, transfers, outrun>>
  BY DEF CreateRecurring, RunsStay, LedgerInv, RunsKept
<1>2. PICK row : row = [status |-> "Active", next |-> 1, debited |-> a, credited |-> b, debit |-> m, credit |-> n]
  OBVIOUS
<1>3. m \in Nat /\ n \in Nat
  BY EntriesAssumption
<1>4. row \in TemplateRow /\ row.next = 1
  BY <1>2, <1>3 DEF TemplateRow
<1>5. templates' = [templates EXCEPT ![t] = row] /\ templates[t] = Unset
  BY <1>2 DEF CreateRecurring
<1> QED BY <1>1, <1>4, <1>5, TemplatesStep

LEMMA ToggledInv ==
    ASSUME LedgerInv, NEW t \in Template, ToggleRecurring(t)
    PROVE  LedgerInv'
<1>1. RunsStay /\ UNCHANGED <<chart, journals, requested, petty, transfers, outrun>>
  BY DEF ToggleRecurring, RunsStay, LedgerInv, RunsKept
<1>2. PICK old \in TemplateRow : old = templates[t]
  BY DEF ToggleRecurring, LedgerInv, TemplateTable
<1>3. PICK status \in {"Active", "Paused"} : status = IF old.status = "Active" THEN "Paused" ELSE "Active"
  OBVIOUS
<1>4. PICK row : row = [old EXCEPT !.status = status]
  OBVIOUS
<1>5. row \in TemplateRow /\ row.next = old.next /\ old # Unset
  BY <1>4 DEF TemplateRow, Unset
<1>6. templates' = [templates EXCEPT ![t] = row]
  BY <1>2, <1>3, <1>4 DEF ToggleRecurring, LedgerInv, TemplateTable
<1> QED BY <1>1, <1>2, <1>5, <1>6, TemplatesStep

LEMMA ChartInv ==
    ASSUME LedgerInv, chart' \in [Account -> {"missing", "active", "inactive"}],
           UNCHANGED <<journals, requested, templates, running, petty, transfers, outrun>>
    PROVE  LedgerInv'
<1>1. LedgerTypeOK' /\ (journals \in JournalTable)' /\ (templates \in TemplateTable)'
  BY DEF LedgerInv, LedgerTypeOK, JournalTable, TemplateTable
<1>2. RunsKept' /\ EntriesKept' /\ VouchersKept'
  BY DEF LedgerInv, RunsKept, RunKept, TemplateTable, EntriesKept, VouchersKept, Balances
<1>3. \A t, d : (Generated(t, d))' = Generated(t, d)
  BY DEF Generated
<1>4. DatesKept'
  BY <1>3 DEF LedgerInv, DatesKept, DatesOf, Unset
<1> QED BY <1>1, <1>2, <1>4 DEF LedgerInv

LEMMA ApprovalInv ==
    ASSUME LedgerInv, NEW e \in EntryId, CreateApproval(e)
    PROVE  LedgerInv'
<1>1. /\ requested' = requested \cup {e} /\ journals[e] # Unwritten /\ (journals[e].kind # "Auto" \/ e \in petty)
      /\ UNCHANGED <<chart, journals, templates, running, petty, transfers, outrun>>
  BY DEF CreateApproval, Personal, WithRequest
<1>2. LedgerTypeOK' /\ (journals \in JournalTable)' /\ (templates \in TemplateTable)'
  BY <1>1 DEF LedgerInv, LedgerTypeOK, JournalTable, TemplateTable
<1>3. journals[e].kind # "Auto"
  BY <1>1 DEF LedgerInv, VouchersKept
<1>4. RunsKept' /\ EntriesKept' /\ VouchersKept'
  BY <1>1, <1>3 DEF LedgerInv, RunsKept, RunKept, TemplateTable, EntriesKept, VouchersKept, Balances
<1>5. \A t, d : (Generated(t, d))' = Generated(t, d)
  BY <1>1 DEF Generated
<1>6. DatesKept'
  BY <1>1, <1>5 DEF LedgerInv, DatesKept, DatesOf, Unset
<1> QED BY <1>2, <1>4, <1>6 DEF LedgerInv

LEMMA DecideEntryInv ==
    ASSUME LedgerInv, NEW e \in EntryId, NEW status \in {"Posted", "Rejected"}, DecideEntry(e, status)
    PROVE  LedgerInv'
<1>1. /\ e \in requested /\ requested' = requested \ {e} /\ journals' = [journals EXCEPT ![e].status = status]
      /\ UNCHANGED <<chart, templates, running, petty, transfers, outrun>>
  BY DEF DecideEntry
<1>2. journals[e] # Unwritten /\ journals[e].kind # "Auto"
  BY <1>1 DEF LedgerInv, VouchersKept
<1>3. PICK old \in EntryRow : old = journals[e]
  BY <1>2 DEF LedgerInv, JournalTable
<1>4. PICK row : row = [old EXCEPT !.status = status]
  OBVIOUS
<1>5. /\ row \in EntryRow /\ row.status = status /\ row.kind = old.kind /\ row.debited = old.debited
      /\ row.credited = old.credited /\ row.debit = old.debit /\ row.credit = old.credit /\ row.number = old.number
  BY <1>4 DEF EntryRow, EntryStatus
<1>6. row # Unwritten
  BY <1>5 DEF EntryRow, Unwritten
<1>7. journals' \in JournalTable /\ journals'[e] = row /\ \A f \in EntryId : f # e => journals'[f] = journals[f]
  BY <1>1, <1>3, <1>4, <1>5 DEF LedgerInv, JournalTable
<1>8. LedgerTypeOK' /\ (templates \in TemplateTable)'
  <2>1. \A f \in EntryId : journals'[f] = Unwritten \/ journals'[f] \in EntryRow
    BY <1>7 DEF JournalTable
  <2> QED BY <1>1, <2>1 DEF LedgerInv, LedgerTypeOK, TemplateTable, Unwritten, EntryRow, Unset, TemplateRow
<1>9. RunsKept'
  BY <1>1 DEF LedgerInv, RunsKept, RunKept, TemplateTable
<1>10. EntriesKept'
  <2>1. ASSUME NEW f \in EntryId, journals'[f] # Unwritten
        PROVE  /\ Balances(journals'[f])
               /\ journals'[f].status = "Pending" => f \in requested' \/ journals'[f].kind = "Import"
    <3>1. CASE f = e
      <4>1. Balances(old)
        BY <1>2, <1>3 DEF LedgerInv, EntriesKept
      <4>2. Balances(row)
        BY <1>5, <4>1 DEF Balances
      <4> QED BY <1>5, <1>7, <3>1, <4>2
    <3>2. CASE f # e
      BY <1>1, <1>7, <2>1, <3>2 DEF LedgerInv, EntriesKept
    <3> QED BY <3>1, <3>2
  <2> QED BY <2>1 DEF EntriesKept, Balances, Unwritten
<1>11. VouchersKept'
  <2>1. ASSUME NEW v \in transfers
        PROVE  /\ journals'[v[4]] # Unwritten /\ journals'[v[4]].kind = "Auto" /\ journals'[v[4]].status = "Posted"
               /\ journals'[v[4]].credited = v[1] /\ journals'[v[4]].debited = v[2] /\ journals'[v[4]].debit = v[3]
    <3>1. v[4] \in EntryId /\ v[4] # e
      BY <1>2 DEF LedgerInv, LedgerTypeOK, VouchersKept
    <3>2. journals'[v[4]] = journals[v[4]]
      BY <1>7, <3>1
    <3> QED BY <3>2 DEF LedgerInv, VouchersKept
  <2>2. ASSUME NEW f \in petty
        PROVE  /\ journals'[f] # Unwritten /\ journals'[f].kind = "PettyCash"
               /\ PettyCash \in {journals'[f].debited, journals'[f].credited}
    <3>1. f \in EntryId /\ journals[f] # Unwritten /\ journals[f].kind = "PettyCash"
          /\ PettyCash \in {journals[f].debited, journals[f].credited}
      BY DEF LedgerInv, LedgerTypeOK, VouchersKept
    <3> QED BY <1>3, <1>5, <1>6, <1>7, <3>1
  <2>3. ASSUME NEW f \in requested' PROVE journals'[f] # Unwritten /\ journals'[f].kind # "Auto"
    <3>1. f \in EntryId /\ f # e /\ f \in requested
      BY <1>1 DEF LedgerInv, LedgerTypeOK
    <3> QED BY <1>7, <3>1 DEF LedgerInv, VouchersKept
  <2> QED BY <1>1, <2>1, <2>2, <2>3 DEF VouchersKept, Unwritten
<1>12. \A t, d : (Generated(t, d))' = Generated(t, d)
  <2>1. \A t, d : (Generated(t, d))' = {f \in EntryId : journals'[f] # Unwritten /\ journals'[f].number = <<t, d>>}
    BY DEF Generated, Unwritten
  <2>2. \A f \in EntryId : /\ journals'[f] # Unwritten <=> journals[f] # Unwritten
                           /\ journals[f] # Unwritten => journals'[f].number = journals[f].number
    BY <1>2, <1>3, <1>5, <1>6, <1>7
  <2> QED BY <2>1, <2>2 DEF Generated
<1>13. DatesKept'
  BY <1>1, <1>12 DEF LedgerInv, DatesKept, DatesOf, Unset
<1> QED BY <1>7, <1>8, <1>9, <1>10, <1>11, <1>13 DEF LedgerInv, JournalTable

LEMMA BeginRunInv ==
    ASSUME LedgerInv, NEW r \in Running, BeginRun(r)
    PROVE  LedgerInv'
<1>1. /\ running' = [running EXCEPT ![r] = Read2]
      /\ UNCHANGED <<chart, journals, requested, templates, petty, transfers, outrun>>
  BY DEF BeginRun
<1>2. LedgerTypeOK' /\ (journals \in JournalTable)' /\ (templates \in TemplateTable)'
  BY <1>1 DEF LedgerInv, LedgerTypeOK, JournalTable, TemplateTable
<1>3. RunsKept'
  <2>1. running' = [q \in Running |-> running'[q]] /\ \A q \in Running : running'[q] \in {running[q], Unread, Read2}
    BY <1>1 DEF LedgerInv, RunsKept
  <2>2. \A t \in Template : templates[t] # Unset => templates'[t] # Unset
    BY <1>1
  <2> QED BY <2>1, <2>2, RunsStep
<1>4. EntriesKept' /\ VouchersKept'
  BY <1>1 DEF LedgerInv, EntriesKept, VouchersKept, Balances
<1>5. \A t, d : (Generated(t, d))' = Generated(t, d)
  BY <1>1 DEF Generated
<1>6. DatesKept'
  BY <1>1, <1>5 DEF LedgerInv, DatesKept, DatesOf, Unset
<1> QED BY <1>2, <1>3, <1>4, <1>6 DEF LedgerInv

LEMMA LedgerNextInv ==
    ASSUME LedgerInv, [LedgerNext]_ledgerVars
    PROVE  LedgerInv'
<1>1. CASE UNCHANGED ledgerVars
  <2>1. UNCHANGED <<journals, requested, templates, running, petty, transfers, outrun>> /\ chart' = chart
    BY <1>1 DEF ledgerVars
  <2>2. chart' \in [Account -> {"missing", "active", "inactive"}]
    BY <2>1 DEF LedgerInv, LedgerTypeOK
  <2> QED BY <2>1, <2>2, ChartInv
<1>2. ASSUME NEW a \in Managed, NEW s \in {"active", "inactive"}, CreateAccount(a) \/ DeleteAccount(a) \/ UpdateAccount(a, s)
      PROVE  LedgerInv'
  <2>1. chart' \in [Account -> {"missing", "active", "inactive"}]
        /\ UNCHANGED <<journals, requested, templates, running, petty, transfers, outrun>>
    BY <1>2 DEF LedgerInv, LedgerTypeOK, CreateAccount, DeleteAccount, UpdateAccount
  <2> QED BY <2>1, ChartInv
<1>3. ASSUME NEW e \in EntryId, NEW p \in Posting, NEW m \in Sum, NEW n \in Sum,
             \/ CreateJournalEntry(e, p[1], p[2], m, n) \/ CreateManualJournal(e, p[1], p[2], m, n)
             \/ CreateAdjustmentJournal(e, p[1], p[2], m, n) \/ ImportAdjustmentJournals(e, p[1], p[2], m, n)
      PROVE  LedgerInv'
  <2>1. PICK a \in Account, b \in Account : a = p[1] /\ b = p[2]
    BY PostingPairs
  <2> QED BY <1>3, <2>1, EntryInv
<1>4. ASSUME NEW e \in EntryId, NEW p \in Posting, NEW n \in Sum, CreateFundTransfer(e, p[2], p[1], n)
      PROVE  LedgerInv'
  <2>1. PICK a \in Account, b \in Account : a = p[1] /\ b = p[2]
    BY PostingPairs
  <2> QED BY <1>4, <2>1, EntryInv
<1>5. ASSUME NEW e \in EntryId, NEW a \in Managed, NEW n \in Sum, NEW type \in {"CASH_IN", "CASH_OUT"},
             PettyCashTransaction(e, type, a, n)
      PROVE  LedgerInv'
  <2>1. a \in Account
    BY PostingAssumption
  <2> QED BY <1>5, <2>1, PettyInv
<1>6. ASSUME NEW e \in EntryId, CreateApproval(e) \/ DecideEntry(e, "Posted") \/ DecideEntry(e, "Rejected")
      PROVE  LedgerInv'
  BY <1>6, ApprovalInv, DecideEntryInv
<1>7. ASSUME NEW e \in EntryId, NEW t \in Template, RunDueRecurringJournals(t, e) PROVE LedgerInv'
  <2>1. PICK view : view = Read2
    OBVIOUS
  <2>2. RunKept(view) /\ RunsStay /\ RunDue(t, e, view)
    BY <1>7, <2>1 DEF RunDueRecurringJournals, RunKept, Read2, LedgerInv, RunsKept, RunsStay
  <2> QED BY <2>2, RunDueInv
<1>8. ASSUME NEW e \in EntryId, NEW r \in Running, NEW t \in Template, CommitRun(r, t, e) PROVE LedgerInv'
  <2>1. PICK view : view = running[r]
    OBVIOUS
  <2>2. RunDue(t, e, view) /\ view # Unread /\ running' = [running EXCEPT ![r] = Unread]
    BY <1>8, <2>1 DEF CommitRun
  <2>3. RunKept(view) /\ RunsStay
    BY <2>1, <2>2 DEF LedgerInv, RunsKept, RunsStay
  <2> QED BY <2>2, <2>3, RunDueInv
<1>9. ASSUME NEW t \in Template, ToggleRecurring(t) PROVE LedgerInv'
  BY <1>9, ToggledInv
<1>10. ASSUME NEW t \in Template, NEW p \in Posting, NEW m \in Sum, NEW n \in Sum, CreateRecurring(t, p[1], p[2], m, n)
       PROVE  LedgerInv'
  <2>1. PICK a \in Account, b \in Account : a = p[1] /\ b = p[2]
    BY PostingPairs
  <2> QED BY <1>10, <2>1, RecurringInv
<1>11. ASSUME NEW r \in Running, BeginRun(r) PROVE LedgerInv'
  BY <1>11, BeginRunInv
<1>12. CASE LedgerNext
  BY <1>12, <1>2, <1>3, <1>4, <1>5, <1>6, <1>7, <1>8, <1>9, <1>10, <1>11 DEF LedgerNext
<1> QED BY <1>1, <1>12

-----------------------------------------------------------------------------
(* What the reports add up.                                                 *)

LEMMA EntriesRows ==
    ASSUME LedgerInv, NEW s \in SUBSET EntryStatus
    PROVE  /\ IsFiniteSet(Entries(s)) /\ Entries(s) \subseteq EntryId
           /\ \A e \in Entries(s) : /\ journals[e].debit \in Nat /\ journals[e].credit \in Nat
                                    /\ journals[e].debited \in Account /\ journals[e].credited \in Account
<1>1. Entries(s) \subseteq EntryId
  BY DEF Entries
<1>2. IsFiniteSet(Entries(s))
  BY <1>1, FS_Subset, BooksAreFinite
<1>3. ASSUME NEW e \in Entries(s) PROVE journals[e] \in EntryRow
  <2>1. journals[e].status # "none"
    BY DEF Entries, EntryStatus
  <2>2. journals[e] = Unwritten \/ journals[e] \in EntryRow
    BY <1>1 DEF LedgerInv, JournalTable
  <2> QED BY <2>1, <2>2 DEF Unwritten
<1>4. ASSUME NEW e \in Entries(s)
      PROVE  /\ journals[e].debit \in Nat /\ journals[e].credit \in Nat
             /\ journals[e].debited \in Account /\ journals[e].credited \in Account
  BY <1>3 DEF EntryRow
<1> QED BY <1>1, <1>2, <1>4

\* The lines of some entries, and their accounts.
DebitLines(es) == [e \in es |-> journals[e].debit]
CreditLines(es) == [e \in es |-> journals[e].credit]
DebitedBy(es) == [e \in es |-> journals[e].debited]
CreditedBy(es) == [e \in es |-> journals[e].credited]

\* What the accounts show adds up to the lines.
LEMMA AccountsAddUp ==
    ASSUME LedgerInv, NEW s \in SUBSET EntryStatus
    PROVE  /\ \A a \in Account : Debits(Entries(s), a) \in Int /\ Credits(Entries(s), a) \in Int
           /\ TotalOf([a \in Account |-> Debits(Entries(s), a)]) = TotalOf(DebitLines(Entries(s)))
           /\ TotalOf([a \in Account |-> Credits(Entries(s), a)]) = TotalOf(CreditLines(Entries(s)))
<1>0. PICK es : es = Entries(s)
  OBVIOUS
<1>1. /\ IsFiniteSet(es)
      /\ \A e \in es : /\ journals[e].debit \in Nat /\ journals[e].credit \in Nat
                       /\ journals[e].debited \in Account /\ journals[e].credited \in Account
  BY <1>0, EntriesRows
<1>2. /\ Finitely(DebitLines(es)) /\ DOMAIN DebitLines(es) = es /\ DebitedBy(es) \in [DOMAIN DebitLines(es) -> Account]
      /\ Finitely(CreditLines(es)) /\ DOMAIN CreditLines(es) = es /\ CreditedBy(es) \in [DOMAIN CreditLines(es) -> Account]
  BY <1>1 DEF Finitely, DebitLines, CreditLines, DebitedBy, CreditedBy
<1>3. ASSUME NEW a \in Account
      PROVE  /\ Debits(es, a) = TotalOf(Part1(DebitLines(es), WithKey(DebitLines(es), DebitedBy(es), a)))
             /\ Credits(es, a) = TotalOf(Part1(CreditLines(es), WithKey(CreditLines(es), CreditedBy(es), a)))
  <2>1. WithKey(DebitLines(es), DebitedBy(es), a) = {f \in es : journals[f].debited = a}
    BY DEF WithKey, DebitLines, DebitedBy
  <2>2. WithKey(CreditLines(es), CreditedBy(es), a) = {f \in es : journals[f].credited = a}
    BY DEF WithKey, CreditLines, CreditedBy
  <2>3. Part1(DebitLines(es), {f \in es : journals[f].debited = a})
            = [e \in {f \in es : journals[f].debited = a} |-> journals[e].debit]
    BY DEF Part1, DebitLines
  <2>4. Part1(CreditLines(es), {f \in es : journals[f].credited = a})
            = [e \in {f \in es : journals[f].credited = a} |-> journals[e].credit]
    BY DEF Part1, CreditLines
  <2> QED BY <2>1, <2>2, <2>3, <2>4 DEF Debits, Credits
<1>4. PICK dt : dt = [a \in Account |-> Debits(es, a)]
  OBVIOUS
<1>5. PICK ct : ct = [a \in Account |-> Credits(es, a)]
  OBVIOUS
<1>6. /\ DOMAIN dt = Account
      /\ \A a \in Account : dt[a] = TotalOf(Part1(DebitLines(es), WithKey(DebitLines(es), DebitedBy(es), a)))
  BY <1>3, <1>4
<1>7. /\ DOMAIN ct = Account
      /\ \A a \in Account : ct[a] = TotalOf(Part1(CreditLines(es), WithKey(CreditLines(es), CreditedBy(es), a)))
  BY <1>3, <1>5
<1>8. Finitely(dt) /\ TotalOf(dt) = TotalOf(DebitLines(es))
  BY <1>2, <1>6, TotalByKey, BooksAreFinite
<1>9. Finitely(ct) /\ TotalOf(ct) = TotalOf(CreditLines(es))
  BY <1>2, <1>7, TotalByKey, BooksAreFinite
<1>10. \A a \in Account : Debits(es, a) \in Int /\ Credits(es, a) \in Int
  BY <1>4, <1>5, <1>6, <1>7, <1>8, <1>9 DEF Finitely
<1> QED BY <1>0, <1>4, <1>5, <1>8, <1>9, <1>10

\* The balances of the five types of account.
LEMMA FiveTotals ==
    ASSUME NEW g, Finitely(g), DOMAIN g = AccountType
    PROVE  /\ TotalOf(g) = g["ASSET"] + g["LIABILITY"] + g["EQUITY"] + g["INCOME"] + g["EXPENSE"]
           /\ \A type \in AccountType : g[type] \in Int
<1>1. PICK T5 : T5 = DOMAIN g
  OBVIOUS
<1>2. PICK T4 : T4 = T5 \ {"ASSET"}
  OBVIOUS
<1>3. PICK T3 : T3 = T4 \ {"LIABILITY"}
  OBVIOUS
<1>4. PICK T2 : T2 = T3 \ {"EQUITY"}
  OBVIOUS
<1>5. PICK T1 : T1 = T2 \ {"INCOME"}
  OBVIOUS
<1>6. /\ T5 \in SUBSET DOMAIN g /\ T4 \in SUBSET DOMAIN g /\ T3 \in SUBSET DOMAIN g
      /\ T2 \in SUBSET DOMAIN g /\ T1 \in SUBSET DOMAIN g
  BY <1>1, <1>2, <1>3, <1>4, <1>5
<1>7. "ASSET" \in T5 /\ "LIABILITY" \in T4 /\ "EQUITY" \in T3 /\ "INCOME" \in T2 /\ "EXPENSE" \in T1
      /\ T1 \ {"EXPENSE"} = {}
  BY <1>1, <1>2, <1>3, <1>4, <1>5 DEF AccountType
<1>8. /\ TotalOf(Part1(g, T5)) = TotalOf(Part1(g, T4)) + g["ASSET"]
      /\ TotalOf(Part1(g, T4)) = TotalOf(Part1(g, T3)) + g["LIABILITY"]
      /\ TotalOf(Part1(g, T4)) \in Int /\ TotalOf(Part1(g, T3)) \in Int
  BY <1>2, <1>3, <1>6, <1>7, TotalCut
<1>9. /\ TotalOf(Part1(g, T3)) = TotalOf(Part1(g, T2)) + g["EQUITY"]
      /\ TotalOf(Part1(g, T2)) = TotalOf(Part1(g, T1)) + g["INCOME"]
      /\ TotalOf(Part1(g, T2)) \in Int /\ TotalOf(Part1(g, T1)) \in Int
  BY <1>4, <1>5, <1>6, <1>7, TotalCut
<1>10. TotalOf(Part1(g, T1)) = TotalOf(Part1(g, {})) + g["EXPENSE"] /\ TotalOf(Part1(g, {})) = 0
  BY <1>6, <1>7, TotalCut, TotalNone
<1>11. TotalOf(Part1(g, T5)) = TotalOf(g)
  <2>1. DOMAIN g = DOMAIN Part1(g, T5) /\ \A y \in DOMAIN Part1(g, T5) : g[y] = Part1(g, T5)[y]
    BY <1>1 DEF Part1
  <2> QED BY <2>1, TotalSame
<1>12. \A type \in AccountType : g[type] \in Int
  BY DEF Finitely
<1>13. g["ASSET"] \in Int /\ g["LIABILITY"] \in Int /\ g["EQUITY"] \in Int /\ g["INCOME"] \in Int /\ g["EXPENSE"] \in Int
  BY <1>12 DEF AccountType
<1> QED BY <1>8, <1>9, <1>10, <1>11, <1>12, <1>13

LEMMA SheetsAddUp ==
    ASSUME LedgerInv
    PROVE  /\ TrialDebit - TrialCredit = SheetOf("ASSET") + SheetOf("LIABILITY") + SheetOf("EQUITY")
                                         + SheetOf("INCOME") + SheetOf("EXPENSE")
           /\ TrialDebit - TrialCredit = TotalOf([e \in PostedEntries |-> Off(e)])
           /\ TrialDebit \in Int /\ TrialCredit \in Int
           /\ \A type \in AccountType : SheetOf(type) \in Int
<1> DEFINE posted == {"Posted"}
<1>1. PICK es : es = PostedEntries
  OBVIOUS
<1>2. posted \in SUBSET EntryStatus /\ es = Entries(posted)
  BY <1>1 DEF EntryStatus, PostedEntries
<1> HIDE DEF posted
<1>3. /\ IsFiniteSet(es) /\ \A e \in es : journals[e].debit \in Nat /\ journals[e].credit \in Nat
      /\ \A a \in Account : Debits(es, a) \in Int /\ Credits(es, a) \in Int
      /\ TotalOf([a \in Account |-> Debits(es, a)]) = TotalOf(DebitLines(es))
      /\ TotalOf([a \in Account |-> Credits(es, a)]) = TotalOf(CreditLines(es))
  BY <1>2, EntriesRows, AccountsAddUp
<1>4. TrialDebit = TotalOf(DebitLines(es)) /\ TrialCredit = TotalOf(CreditLines(es))
  BY <1>1, <1>3 DEF TrialDebit, TrialCredit
<1>5. TrialDebit - TrialCredit = TotalOf([e \in PostedEntries |-> Off(e)]) /\ TrialDebit \in Int /\ TrialCredit \in Int
  <2>1. PICK off : off = [e \in es |-> Off(e)]
    OBVIOUS
  <2>2. /\ Finitely(DebitLines(es)) /\ Finitely(CreditLines(es)) /\ DOMAIN DebitLines(es) = es
        /\ DOMAIN CreditLines(es) = es /\ DOMAIN off = es
        /\ \A y \in es : off[y] = DebitLines(es)[y] - CreditLines(es)[y]
    BY <1>3, <2>1 DEF Finitely, DebitLines, CreditLines, Off
  <2>3. /\ TotalOf(off) = TotalOf(DebitLines(es)) - TotalOf(CreditLines(es))
        /\ TotalOf(DebitLines(es)) \in Int /\ TotalOf(CreditLines(es)) \in Int
    BY <2>2, TotalDifference
  <2> QED BY <1>1, <1>4, <2>1, <2>3
<1>6. PICK balance : balance = [a \in Account |-> Debits(es, a) - Credits(es, a)]
  OBVIOUS
<1>7. Finitely(balance) /\ DOMAIN balance = Account /\ TypeOf \in [DOMAIN balance -> AccountType]
  BY <1>3, <1>6, BooksAreFinite, AccountsAssumption DEF Finitely
<1>8. TotalOf(balance) = TrialDebit - TrialCredit
  <2>1. PICK ds : ds = [a \in Account |-> Debits(es, a)]
    OBVIOUS
  <2>2. PICK cs : cs = [a \in Account |-> Credits(es, a)]
    OBVIOUS
  <2>3. /\ Finitely(ds) /\ Finitely(cs) /\ DOMAIN ds = Account /\ DOMAIN cs = Account
        /\ \A y \in DOMAIN ds : balance[y] = ds[y] - cs[y]
    BY <1>3, <1>6, <2>1, <2>2, BooksAreFinite DEF Finitely
  <2>4. TotalOf(balance) = TotalOf(ds) - TotalOf(cs)
    BY <1>7, <2>3, TotalDifference
  <2> QED BY <1>3, <1>4, <2>1, <2>2, <2>4
<1>9. PICK sheet : sheet = [type \in AccountType |-> SheetOf(type)]
  OBVIOUS
<1>10. \A type \in AccountType : sheet[type] = TotalOf(Part1(balance, WithKey(balance, TypeOf, type)))
  <2>1. ASSUME NEW type \in AccountType
        PROVE  Part1(balance, WithKey(balance, TypeOf, type))
                   = [a \in {b \in Account : TypeOf[b] = type} |-> Debits(PostedEntries, a) - Credits(PostedEntries, a)]
    <3>1. WithKey(balance, TypeOf, type) = {b \in Account : TypeOf[b] = type}
      BY <1>7 DEF WithKey
    <3> QED BY <1>1, <1>6, <3>1 DEF Part1
  <2> QED BY <1>9, <2>1 DEF SheetOf
<1>11. IsFiniteSet(AccountType)
  <2>1. IsFiniteSet({}) /\ IsFiniteSet({} \cup {"ASSET"})
    BY FS_EmptySet, FS_AddElement
  <2>2. IsFiniteSet(({} \cup {"ASSET"}) \cup {"LIABILITY"})
    BY <2>1, FS_AddElement
  <2>3. IsFiniteSet((({} \cup {"ASSET"}) \cup {"LIABILITY"}) \cup {"EQUITY"})
    BY <2>2, FS_AddElement
  <2>4. IsFiniteSet(((({} \cup {"ASSET"}) \cup {"LIABILITY"}) \cup {"EQUITY"}) \cup {"INCOME"})
    BY <2>3, FS_AddElement
  <2>5. IsFiniteSet((((({} \cup {"ASSET"}) \cup {"LIABILITY"}) \cup {"EQUITY"}) \cup {"INCOME"}) \cup {"EXPENSE"})
    BY <2>4, FS_AddElement
  <2>6. AccountType = (((({} \cup {"ASSET"}) \cup {"LIABILITY"}) \cup {"EQUITY"}) \cup {"INCOME"}) \cup {"EXPENSE"}
    BY DEF AccountType
  <2> QED BY <2>5, <2>6
<1>12. DOMAIN sheet = AccountType
  BY <1>9
<1>13. Finitely(sheet) /\ TotalOf(sheet) = TotalOf(balance)
  BY <1>7, <1>10, <1>11, <1>12, TotalByKey
<1>14. /\ TotalOf(sheet) = sheet["ASSET"] + sheet["LIABILITY"] + sheet["EQUITY"] + sheet["INCOME"] + sheet["EXPENSE"]
       /\ \A type \in AccountType : sheet[type] \in Int
  BY <1>12, <1>13, FiveTotals
<1>15. /\ sheet["ASSET"] = SheetOf("ASSET") /\ sheet["LIABILITY"] = SheetOf("LIABILITY")
       /\ sheet["EQUITY"] = SheetOf("EQUITY") /\ sheet["INCOME"] = SheetOf("INCOME")
       /\ sheet["EXPENSE"] = SheetOf("EXPENSE") /\ \A type \in AccountType : sheet[type] = SheetOf(type)
  BY <1>9 DEF AccountType
<1> QED BY <1>5, <1>8, <1>13, <1>14, <1>15

LEMMA BooksCloseHere == ASSUME LedgerInv PROVE BooksClose
<1>1. ASSUME NEW e \in PostedEntries
      PROVE  \/ Off(e) = 0 \/ journals[e].kind = "Recurring"
             \/ (journals[e].kind = "Import" /\ Off(e) \in -1 .. 1)
  <2>1. {"Posted"} \in SUBSET EntryStatus /\ e \in Entries({"Posted"})
    BY DEF EntryStatus, PostedEntries
  <2>2. e \in EntryId /\ journals[e].debit \in Nat /\ journals[e].credit \in Nat
    BY <2>1, EntriesRows
  <2>3. journals[e] # Unwritten
    BY <2>1 DEF Entries, Unwritten
  <2>4. Balances(journals[e])
    BY <2>2, <2>3 DEF LedgerInv, EntriesKept
  <2> QED BY <2>2, <2>4 DEF Balances, Off
<1>2. /\ TrialDebit \in Int /\ TrialCredit \in Int
      /\ SheetOf("ASSET") \in Int /\ SheetOf("LIABILITY") \in Int /\ SheetOf("EQUITY") \in Int
      /\ SheetOf("INCOME") \in Int /\ SheetOf("EXPENSE") \in Int
      /\ TrialDebit - TrialCredit = SheetOf("ASSET") + SheetOf("LIABILITY") + SheetOf("EQUITY")
                                    + SheetOf("INCOME") + SheetOf("EXPENSE")
  BY SheetsAddUp DEF AccountType
<1>3. TrialDebit = TrialCredit => (IsBalanced <=> SheetOf("LIABILITY") + SheetOf("EQUITY") = 0)
  BY <1>2 DEF IsBalanced, Profit
<1>4. TrialDebit - TrialCredit = TotalOf([e \in PostedEntries |-> Off(e)])
  BY SheetsAddUp
<1> QED BY <1>1, <1>3, <1>4 DEF BooksClose

\* A balance is the same, line by line or all debits and all credits.
LEMMA LinesAddUp ==
    ASSUME LedgerInv, NEW s \in SUBSET EntryStatus, NEW a \in Account
    PROVE  TotalOf([e \in Entries(s) |-> Line2(e, a)]) = Natural(a, Debits(Entries(s), a), Credits(Entries(s), a))
<1>1. PICK es : es = Entries(s)
  OBVIOUS
<1>2. IsFiniteSet(es) /\ \A e \in es : journals[e].debit \in Nat /\ journals[e].credit \in Nat
  BY <1>1, EntriesRows
<1>3. PICK dt : dt = [e \in es |-> IF journals[e].debited = a THEN journals[e].debit ELSE 0]
  OBVIOUS
<1>4. PICK ct : ct = [e \in es |-> IF journals[e].credited = a THEN journals[e].credit ELSE 0]
  OBVIOUS
<1>5. Finitely(dt) /\ Finitely(ct) /\ DOMAIN dt = es /\ DOMAIN ct = es
  BY <1>2, <1>3, <1>4 DEF Finitely
<1>6. TotalOf(dt) = Debits(es, a)
  <2>1. PICK f : f = [e \in {i \in es : journals[i].debited = a} |-> journals[e].debit]
    OBVIOUS
  <2>2. /\ DOMAIN f \subseteq DOMAIN dt /\ \A x \in DOMAIN f : dt[x] = f[x]
        /\ \A x \in DOMAIN dt \ DOMAIN f : dt[x] = 0
    BY <1>3, <2>1
  <2> QED BY <2>1, <2>2, TotalWithZeros DEF Debits
<1>7. TotalOf(ct) = Credits(es, a)
  <2>1. PICK f : f = [e \in {i \in es : journals[i].credited = a} |-> journals[e].credit]
    OBVIOUS
  <2>2. /\ DOMAIN f \subseteq DOMAIN ct /\ \A x \in DOMAIN f : ct[x] = f[x]
        /\ \A x \in DOMAIN ct \ DOMAIN f : ct[x] = 0
    BY <1>4, <2>1
  <2> QED BY <2>1, <2>2, TotalWithZeros DEF Credits
<1>8. PICK moved : moved = [e \in es |-> Line2(e, a)]
  OBVIOUS
<1>9. CASE DebitNature(a)
  <2>1. DOMAIN moved = DOMAIN dt /\ \A y \in DOMAIN dt : moved[y] = dt[y] - ct[y]
    BY <1>3, <1>4, <1>8, <1>9 DEF Line2, Natural
  <2>2. TotalOf(moved) = TotalOf(dt) - TotalOf(ct)
    BY <1>5, <2>1, TotalDifference
  <2> QED BY <1>1, <1>6, <1>7, <1>8, <1>9, <2>2 DEF Natural
<1>10. CASE ~DebitNature(a)
  <2>1. DOMAIN moved = DOMAIN ct /\ \A y \in DOMAIN ct : moved[y] = ct[y] - dt[y]
    BY <1>3, <1>4, <1>8, <1>10 DEF Line2, Natural
  <2>2. TotalOf(moved) = TotalOf(ct) - TotalOf(dt)
    BY <1>5, <2>1, TotalDifference
  <2> QED BY <1>1, <1>6, <1>7, <1>8, <1>10, <2>2 DEF Natural
<1> QED BY <1>9, <1>10

\* Entries of one status or another: what they debit and credit adds up.
LEMMA StatusesAddUp ==
    ASSUME LedgerInv, NEW s \in SUBSET EntryStatus, NEW r \in SUBSET EntryStatus, s \cap r = {},
           NEW a \in Account
    PROVE  /\ Debits(Entries(s \cup r), a) = Debits(Entries(s), a) + Debits(Entries(r), a)
           /\ Credits(Entries(s \cup r), a) = Credits(Entries(s), a) + Credits(Entries(r), a)
<1>1. PICK all : all = Entries(s \cup r)
  OBVIOUS
<1>2. PICK es : es = Entries(s)
  OBVIOUS
<1>3. PICK er : er = Entries(r)
  OBVIOUS
<1>4. all = es \cup er /\ es \cap er = {}
  BY <1>1, <1>2, <1>3 DEF Entries
<1>5. s \cup r \in SUBSET EntryStatus
  OBVIOUS
<1>6. IsFiniteSet(all) /\ \A e \in all : journals[e].debit \in Nat /\ journals[e].credit \in Nat
  BY <1>1, <1>5, EntriesRows
<1>7. PICK Took : Took = {e \in all : journals[e].debited = a}
  OBVIOUS
<1>8. PICK Gave : Gave = {e \in all : journals[e].credited = a}
  OBVIOUS
<1>9. IsFiniteSet(Took) /\ IsFiniteSet(Gave) /\ Took \subseteq all /\ Gave \subseteq all
  BY <1>6, <1>7, <1>8, FS_Subset
<1>10. Debits(all, a) = Debits(es, a) + Debits(er, a)
  <2>1. PICK f : f = [e \in Took |-> IF e \in es THEN journals[e].debit ELSE 0]
    OBVIOUS
  <2>2. PICK g : g = [e \in Took |-> IF e \in es THEN 0 ELSE journals[e].debit]
    OBVIOUS
  <2>3. PICK h : h = [e \in Took |-> journals[e].debit]
    OBVIOUS
  <2>4. /\ Finitely(f) /\ Finitely(g) /\ DOMAIN g = DOMAIN f /\ DOMAIN h = DOMAIN f
        /\ \A y \in DOMAIN f : h[y] = f[y] + g[y]
    BY <1>6, <1>9, <2>1, <2>2, <2>3 DEF Finitely
  <2>5. TotalOf(h) = TotalOf(f) + TotalOf(g)
    BY <2>4, TotalSum
  <2>6. PICK fs : fs = [e \in {i \in es : journals[i].debited = a} |-> journals[e].debit]
    OBVIOUS
  <2>7. DOMAIN fs \subseteq DOMAIN f /\ (\A x \in DOMAIN fs : f[x] = fs[x]) /\ \A x \in DOMAIN f \ DOMAIN fs : f[x] = 0
    BY <1>4, <1>7, <2>1, <2>6
  <2>8. PICK gs : gs = [e \in {i \in er : journals[i].debited = a} |-> journals[e].debit]
    OBVIOUS
  <2>9. DOMAIN gs \subseteq DOMAIN g /\ (\A x \in DOMAIN gs : g[x] = gs[x]) /\ \A x \in DOMAIN g \ DOMAIN gs : g[x] = 0
    BY <1>4, <1>7, <2>2, <2>8
  <2>10. TotalOf(f) = TotalOf(fs) /\ TotalOf(g) = TotalOf(gs)
    BY <2>7, <2>9, TotalWithZeros
  <2> QED BY <1>7, <2>3, <2>5, <2>6, <2>8, <2>10 DEF Debits
<1>11. Credits(all, a) = Credits(es, a) + Credits(er, a)
  <2>1. PICK f : f = [e \in Gave |-> IF e \in es THEN journals[e].credit ELSE 0]
    OBVIOUS
  <2>2. PICK g : g = [e \in Gave |-> IF e \in es THEN 0 ELSE journals[e].credit]
    OBVIOUS
  <2>3. PICK h : h = [e \in Gave |-> journals[e].credit]
    OBVIOUS
  <2>4. /\ Finitely(f) /\ Finitely(g) /\ DOMAIN g = DOMAIN f /\ DOMAIN h = DOMAIN f
        /\ \A y \in DOMAIN f : h[y] = f[y] + g[y]
    BY <1>6, <1>9, <2>1, <2>2, <2>3 DEF Finitely
  <2>5. TotalOf(h) = TotalOf(f) + TotalOf(g)
    BY <2>4, TotalSum
  <2>6. PICK fs : fs = [e \in {i \in es : journals[i].credited = a} |-> journals[e].credit]
    OBVIOUS
  <2>7. DOMAIN fs \subseteq DOMAIN f /\ (\A x \in DOMAIN fs : f[x] = fs[x]) /\ \A x \in DOMAIN f \ DOMAIN fs : f[x] = 0
    BY <1>4, <1>8, <2>1, <2>6
  <2>8. PICK gs : gs = [e \in {i \in er : journals[i].credited = a} |-> journals[e].credit]
    OBVIOUS
  <2>9. DOMAIN gs \subseteq DOMAIN g /\ (\A x \in DOMAIN gs : g[x] = gs[x]) /\ \A x \in DOMAIN g \ DOMAIN gs : g[x] = 0
    BY <1>4, <1>8, <2>2, <2>8
  <2>10. TotalOf(f) = TotalOf(fs) /\ TotalOf(g) = TotalOf(gs)
    BY <2>7, <2>9, TotalWithZeros
  <2> QED BY <1>8, <2>3, <2>5, <2>6, <2>8, <2>10 DEF Credits
<1> QED BY <1>1, <1>2, <1>3, <1>10, <1>11

LEMMA BalancesAgreeHere == ASSUME LedgerInv PROVE BalancesAgree
<1>1. {"Posted"} \in SUBSET EntryStatus /\ {"Pending", "Rejected"} \in SUBSET EntryStatus
      /\ {"Posted"} \cap {"Pending", "Rejected"} = {} /\ {"Posted"} \cup {"Pending", "Rejected"} = EntryStatus
  BY DEF EntryStatus
<1>2. ASSUME NEW a \in Account PROVE AccountBalance(a) = AccountDetail(a)
  <2>1. TotalOf([e \in Entries({"Posted"}) |-> Line2(e, a)])
            = Natural(a, Debits(Entries({"Posted"}), a), Credits(Entries({"Posted"}), a))
    BY <1>1, LinesAddUp
  <2> QED BY <2>1 DEF AccountBalance, AccountDetail, PostedEntries
<1>3. ASSUME NEW a \in Account PROVE AccountLedger(a) = AccountBalance(a)
  <2>1. PICK es : es = Entries({"Posted"})
    OBVIOUS
  <2>2. PICK f : f = [e \in {i \in es : a \in {journals[i].debited, journals[i].credited}} |-> Line2(e, a)]
    OBVIOUS
  <2>3. PICK g : g = [e \in es |-> Line2(e, a)]
    OBVIOUS
  <2>4. /\ DOMAIN f \subseteq DOMAIN g /\ \A x \in DOMAIN f : g[x] = f[x]
        /\ \A x \in DOMAIN g \ DOMAIN f : g[x] = 0
    BY <2>2, <2>3 DEF Line2, Natural
  <2>5. TotalOf(g) = TotalOf(f)
    BY <2>4, TotalWithZeros
  <2> QED BY <2>1, <2>2, <2>3, <2>5 DEF AccountLedger, AccountBalance
<1>4. BankLedger \in Account /\ PettyCash \in Account /\ DebitNature(BankLedger)
  BY AccountsAssumption DEF DebitNature
<1>5. BankBalance = AccountDetail(BankLedger)
  BY <1>4 DEF BankBalance, AccountDetail, Natural, PostedEntries
<1>6. PettyBalance = AccountDetail(PettyCash)
  BY <1>2, <1>4 DEF PettyBalance, AccountBalance
<1>7. ListedBankBalance - BankBalance =
          Debits(Entries({"Pending", "Rejected"}), BankLedger) - Credits(Entries({"Pending", "Rejected"}), BankLedger)
  <2>1. PICK posted : posted = {"Posted"}
    OBVIOUS
  <2>2. PICK others : others = {"Pending", "Rejected"}
    OBVIOUS
  <2>3. /\ Debits(Entries(EntryStatus), BankLedger) = Debits(Entries(posted), BankLedger) + Debits(Entries(others), BankLedger)
        /\ Credits(Entries(EntryStatus), BankLedger) = Credits(Entries(posted), BankLedger) + Credits(Entries(others), BankLedger)
    BY <1>1, <1>4, <2>1, <2>2, StatusesAddUp
  <2>4. /\ Debits(Entries(posted), BankLedger) \in Int /\ Credits(Entries(posted), BankLedger) \in Int
        /\ Debits(Entries(others), BankLedger) \in Int /\ Credits(Entries(others), BankLedger) \in Int
    BY <1>1, <1>4, <2>1, <2>2, AccountsAddUp
  <2>5. ListedBankBalance = Debits(Entries(EntryStatus), BankLedger) - Credits(Entries(EntryStatus), BankLedger)
        /\ BankBalance = Debits(Entries(posted), BankLedger) - Credits(Entries(posted), BankLedger)
    BY <2>1 DEF ListedBankBalance, BankBalance
  <2> QED BY <2>2, <2>3, <2>4, <2>5
<1> QED BY <1>2, <1>3, <1>5, <1>6, <1>7 DEF BalancesAgree

LEMMA LedgerInvHolds ==
    ASSUME LedgerInv
    PROVE  LedgerTypeOK /\ BooksClose /\ BalancesAgree /\ EachDateOnce /\ WaitingIsAsked /\ VouchersBooked
<1>1. EachDateOnce
  <2>1. ASSUME NEW t \in Template, templates[t] # Unset, t \notin outrun, NEW d \in 1 .. Today
        PROVE  Cardinality(Generated(t, d)) = IF d < templates[t].next THEN 1 ELSE 0
    <3>1. IF d < templates[t].next THEN \E e \in EntryId : Generated(t, d) = {e} ELSE Generated(t, d) = {}
      BY <2>1 DEF LedgerInv, DatesKept, DatesOf
    <3>2. \A e : Cardinality({e}) = 1
      BY FS_Singleton
    <3>3. Cardinality({}) = 0
      BY FS_EmptySet
    <3> QED BY <3>1, <3>2, <3>3
  <2> QED BY <2>1 DEF EachDateOnce
<1>2. WaitingIsAsked
  <2>1. ASSUME NEW e \in Entries({"Pending"}) PROVE e \in requested \/ journals[e].kind = "Import"
    <3>1. e \in EntryId /\ journals[e].status = "Pending" /\ journals[e] # Unwritten
      BY DEF Entries, Unwritten
    <3> QED BY <3>1 DEF LedgerInv, EntriesKept
  <2> QED BY <2>1 DEF WaitingIsAsked
<1>3. VouchersBooked
  BY DEF LedgerInv, VouchersKept, VouchersBooked
<1> QED BY <1>1, <1>2, <1>3, BooksCloseHere, BalancesAgreeHere DEF LedgerInv

\* Whatever is written, imported, generated by overlapping runs, approved, rejected or
\* transferred, for any number of accounts and entries: the trial balance closes but for
\* what imports and recurring journals are off by, every report shows an account with the
\* same balance, a recurring journal has one entry a date, what waits was asked about
\* (accountant.py, journal.py, approval.py).
THEOREM BooksHoldAlways ==
    LedgerSpec => [](BooksClose /\ BalancesAgree /\ EachDateOnce /\ WaitingIsAsked /\ VouchersBooked)
<1>1. LedgerInit => LedgerInv
  BY LedgerInitInv
<1>2. LedgerInv /\ [LedgerNext]_ledgerVars => LedgerInv'
  BY LedgerNextInv
<1>3. LedgerInv => BooksClose /\ BalancesAgree /\ EachDateOnce /\ WaitingIsAsked /\ VouchersBooked
  BY LedgerInvHolds
<1> QED BY <1>1, <1>2, <1>3, PTL DEF LedgerSpec

-----------------------------------------------------------------------------
(* What a project costs.                                                    *)

ExpenseTable == [Expense -> ExpenseRow \cup {None}]
PurchaseTable == [Purchase -> PurchaseRow \cup {None}]
\* What a request reads are rows as they were.
ViewKept(view) ==
    view.expenses \in ExpenseTable /\ view.purchases \in PurchaseTable /\ view.journal \in Seq(JournalEntry)
ViewsKept ==
    /\ costing = [r \in Costing |-> costing[r]]
    /\ \A r \in Costing : costing[r] = NoView \/ ViewKept(costing[r])
BookedIn(e, js) == TotalOf([i \in {j \in DOMAIN js : js[j].of = e} |-> js[i].lines])
OwedFor(row) == IF row # None /\ row.source = "entered" THEN row.amount ELSE 0
\* An expense that was entered is the last entry of its own; one that is gone, or was
\* an advance, has nothing in the books.
RowBooked(e, row, js, debit) ==
    /\ BookedIn(e, js) = OwedFor(row) /\ debit = OwedFor(row)
    /\ IF row # None /\ row.source = "entered"
       THEN EntriesOf(e, js) # {} /\ Current(e, js).lines = row.amount /\ Current(e, js).kind = "posted"
       ELSE EntriesOf(e, js) = {} \/ (row = None /\ Current(e, js).kind = "deletion")
ExpensesBooked ==
    \A e \in Expense : Alone(e) /\ e \notin misread => RowBooked(e, expenses[e], journal, debits[e])
CostsInv == CostsTypeOK /\ ViewsKept /\ ExpensesBooked /\ ActualCostAddsUp

-----------------------------------------------------------------------------
\* Rows have amounts and items.
LEMMA RowFacts ==
    /\ \A row \in ExpenseRow : row # None /\ row.amount \in Nat /\ row.amount # 0 /\ row.amount \in Int
                                /\ row.item \in Item \cup {NoItem} /\ row.source \in {"entered", "advance"}
    /\ \A row \in PurchaseRow : row # None /\ row.amount \in Int /\ row.item \in Item \cup {NoItem}
<1>1. ASSUME NEW row \in ExpenseRow
      PROVE  row.amount \in Cost /\ row.item \in Item \cup {NoItem} /\ row.source \in {"entered", "advance"}
  BY DEF ExpenseRow
<1>2. ASSUME NEW row \in PurchaseRow PROVE row.amount \in Cost /\ row.item \in Item \cup {NoItem}
  BY DEF PurchaseRow
<1>3. \A row \in ExpenseRow : row # None
  BY DEF ExpenseRow, None
<1>4. \A row \in PurchaseRow : row # None
  BY DEF PurchaseRow, None
<1>5. \A c \in Cost : c \in Nat /\ c # 0 /\ c \in Int
  BY CostAssumption
<1> QED BY <1>1, <1>2, <1>3, <1>4, <1>5

LEMMA EntryFacts ==
    /\ \A x \in JournalEntry : x.of \in Expense /\ x.lines \in Int
    /\ \A e \in Expense, kind \in {"posted", "reversal", "deletion"}, n \in Int :
           /\ Entry(e, kind, n) \in JournalEntry
           /\ Entry(e, kind, n).of = e /\ Entry(e, kind, n).kind = kind /\ Entry(e, kind, n).lines = n
BY DEF JournalEntry, Entry

-----------------------------------------------------------------------------
\* The latest entry.
LEMMA CurrentIs ==
    ASSUME NEW e \in Expense, NEW js \in Seq(JournalEntry), EntriesOf(e, js) # {}
    PROVE  /\ Current(e, js) \in JournalEntry
           /\ \E i \in EntriesOf(e, js) : Current(e, js) = js[i] /\ \A j \in EntriesOf(e, js) : j <= i
<1>1. EntriesOf(e, js) \in SUBSET (1 .. Len(js)) /\ Len(js) \in Nat
  BY DEF EntriesOf
<1>2. \E i \in EntriesOf(e, js) : \A j \in EntriesOf(e, js) : j <= i
  BY <1>1, LargestOf
<1>3. PICK last : last = CHOOSE i \in EntriesOf(e, js) : \A j \in EntriesOf(e, js) : j <= i
  OBVIOUS
<1>4. last \in EntriesOf(e, js) /\ \A j \in EntriesOf(e, js) : j <= last
  BY <1>2, <1>3, Zenon
<1>5. Current(e, js) = js[last]
  BY <1>3 DEF Current
<1>6. js[last] \in JournalEntry
  BY <1>1, <1>4
<1> QED BY <1>4, <1>5, <1>6

LEMMA LatestIs ==
    ASSUME NEW e, NEW js, NEW last \in EntriesOf(e, js), EntriesOf(e, js) \subseteq Int, \A j \in EntriesOf(e, js) : j <= last
    PROVE  Current(e, js) = js[last]
<1>1. PICK i : i = CHOOSE k \in EntriesOf(e, js) : \A j \in EntriesOf(e, js) : j <= k
  OBVIOUS
<1>2. i \in EntriesOf(e, js) /\ \A j \in EntriesOf(e, js) : j <= i
  BY <1>1, Zenon
<1>3. i = last
  BY <1>2
<1> QED BY <1>1, <1>3 DEF Current

\* An entry more.
LEMMA EntryMore ==
    ASSUME NEW js \in Seq(JournalEntry), NEW x \in JournalEntry
    PROVE  /\ Append(js, x) \in Seq(JournalEntry)
           /\ \A e \in Expense :
                /\ BookedIn(e, Append(js, x)) = BookedIn(e, js) + IF x.of = e THEN x.lines ELSE 0
                /\ BookedIn(e, js) \in Int
                /\ <<e, x.of>> \in Prefix => EntriesOf(e, Append(js, x)) # {} /\ Current(e, Append(js, x)) = x
                /\ <<e, x.of>> \notin Prefix =>
                       /\ EntriesOf(e, Append(js, x)) = EntriesOf(e, js)
                       /\ EntriesOf(e, js) # {} => Current(e, Append(js, x)) = Current(e, js)
<1>1. PICK n \in Nat : n = Len(js)
  OBVIOUS
<1>2. PICK more : more = Append(js, x)
  OBVIOUS
<1>3. /\ more \in Seq(JournalEntry) /\ DOMAIN more = 1 .. n + 1 /\ DOMAIN js = 1 .. n /\ more[n + 1] = x
      /\ \A i \in 1 .. n : more[i] = js[i]
  BY <1>1, <1>2
<1>4. x.of \in Expense /\ x.lines \in Int /\ \A i \in 1 .. n : js[i].lines \in Int
  <2>1. \A i \in 1 .. n : js[i] \in JournalEntry
    BY <1>1
  <2> QED BY <2>1, EntryFacts
<1>5. DOMAIN more = (1 .. n) \cup {n + 1} /\ n + 1 \notin 1 .. n
  BY <1>3
<1>6. ASSUME NEW e \in Expense
      PROVE  BookedIn(e, more) = BookedIn(e, js) + (IF x.of = e THEN x.lines ELSE 0) /\ BookedIn(e, js) \in Int
  <2>1. PICK f : f = [i \in {j \in DOMAIN js : js[j].of = e} |-> js[i].lines]
    OBVIOUS
  <2>2. PICK g : g = [i \in {j \in DOMAIN more : more[j].of = e} |-> more[i].lines]
    OBVIOUS
  <2>3. DOMAIN f \subseteq 1 .. n
    BY <1>3, <2>1
  <2>4. IsFiniteSet(DOMAIN f)
    <3>1. IsFiniteSet(1 .. n)
      BY FS_Interval
    <3> QED BY <2>3, <3>1, FS_Subset
  <2>5. Finitely(f) /\ n + 1 \notin DOMAIN f
    BY <1>4, <1>5, <2>1, <2>3, <2>4 DEF Finitely
  <2>6. TotalOf(f) \in Int
    BY <2>5, TotalInt
  <2>7. CASE x.of = e
    <3>1. DOMAIN g = DOMAIN f \cup {n + 1} /\ g[n + 1] = x.lines /\ \A y \in DOMAIN f : g[y] = f[y]
      BY <1>3, <1>5, <2>1, <2>2, <2>7
    <3>2. TotalOf(g) = TotalOf(f) + x.lines
      BY <1>4, <2>5, <3>1, TotalGrown
    <3> QED BY <2>1, <2>2, <2>6, <2>7, <3>2 DEF BookedIn
  <2>8. CASE x.of # e
    <3>1. DOMAIN g = DOMAIN f /\ \A y \in DOMAIN f : g[y] = f[y]
      BY <1>3, <1>5, <2>1, <2>2, <2>8
    <3>2. TotalOf(g) = TotalOf(f)
      BY <3>1, TotalSame
    <3> QED BY <2>1, <2>2, <2>6, <2>8, <3>2 DEF BookedIn
  <2> QED BY <2>7, <2>8
<1>7. ASSUME NEW e \in Expense, <<e, x.of>> \in Prefix
      PROVE  EntriesOf(e, more) # {} /\ Current(e, more) = x
  <2>1. n + 1 \in EntriesOf(e, more) /\ EntriesOf(e, more) \subseteq 1 .. n + 1
    BY <1>3, <1>5, <1>7 DEF EntriesOf
  <2>2. EntriesOf(e, more) \subseteq Int /\ \A j \in EntriesOf(e, more) : j <= n + 1
    BY <2>1
  <2>3. Current(e, more) = more[n + 1]
    BY <2>1, <2>2, LatestIs
  <2> QED BY <1>3, <2>1, <2>3
<1>8. ASSUME NEW e \in Expense, <<e, x.of>> \notin Prefix
      PROVE  EntriesOf(e, more) = EntriesOf(e, js) /\ (EntriesOf(e, js) # {} => Current(e, more) = Current(e, js))
  <2>1. EntriesOf(e, more) = EntriesOf(e, js) /\ EntriesOf(e, js) \subseteq 1 .. n
    <3>1. EntriesOf(e, more) \subseteq 1 .. n
      BY <1>3, <1>5, <1>8 DEF EntriesOf
    <3>2. EntriesOf(e, js) \subseteq 1 .. n
      BY <1>3 DEF EntriesOf
    <3>3. \A i \in 1 .. n : i \in EntriesOf(e, more) <=> i \in EntriesOf(e, js)
      BY <1>3, <1>5 DEF EntriesOf
    <3> QED BY <3>1, <3>2, <3>3
  <2>2. ASSUME EntriesOf(e, js) # {} PROVE Current(e, more) = Current(e, js)
    <3>1. PICK i \in EntriesOf(e, js) : Current(e, js) = js[i] /\ \A j \in EntriesOf(e, js) : j <= i
      BY <2>2, CurrentIs
    <3>2. Current(e, more) = more[i]
      BY <2>1, <3>1, LatestIs
    <3> QED BY <1>3, <2>1, <3>1, <3>2
  <2> QED BY <2>1, <2>2
<1> QED BY <1>2, <1>3, <1>6, <1>7, <1>8

LEMMA AloneEntries ==
    ASSUME NEW e \in Expense, NEW f \in Expense, Alone(e)
    PROVE  <<e, f>> \in Prefix <=> f = e
BY PrefixAssumption DEF Alone

\* An entry of one expense says nothing of another.
LEMMA OthersBooked ==
    ASSUME NEW js \in Seq(JournalEntry), NEW x \in JournalEntry, NEW f \in Expense, Alone(f), x.of # f,
           NEW row, NEW debit, RowBooked(f, row, js, debit)
    PROVE  RowBooked(f, row, Append(js, x), debit)
<1>1. x.of \in Expense
  BY DEF JournalEntry
<1>2. <<f, x.of>> \notin Prefix
  BY <1>1, AloneEntries
<1>3. /\ BookedIn(f, Append(js, x)) = BookedIn(f, js) + 0 /\ BookedIn(f, js) \in Int
      /\ EntriesOf(f, Append(js, x)) = EntriesOf(f, js)
      /\ EntriesOf(f, js) # {} => Current(f, Append(js, x)) = Current(f, js)
  BY <1>2, EntryMore
<1> QED BY <1>3 DEF RowBooked

\* What a first entry, a correction and a deletion leave of an expense.
LEMMA FirstBooked ==
    ASSUME NEW js \in Seq(JournalEntry), NEW e \in Expense, Alone(e), NEW debit, RowBooked(e, None, js, debit),
           NEW row \in ExpenseRow, row.source = "entered"
    PROVE  RowBooked(e, row, Append(js, Entry(e, "posted", row.amount)), row.amount)
<1>1. PICK x \in JournalEntry : x = Entry(e, "posted", row.amount)
  BY RowFacts, EntryFacts
<1>2. x.of = e /\ x.lines = row.amount /\ x.kind = "posted" /\ row # None /\ row.amount \in Int
  BY <1>1, RowFacts, EntryFacts
<1>3. BookedIn(e, js) = 0
  BY DEF RowBooked, OwedFor
<1>4. <<e, x.of>> \in Prefix
  BY <1>2, AloneEntries
<1>5. /\ BookedIn(e, Append(js, x)) = 0 + row.amount
      /\ EntriesOf(e, Append(js, x)) # {} /\ Current(e, Append(js, x)) = x
  BY <1>2, <1>3, <1>4, EntryMore
<1> QED BY <1>1, <1>2, <1>5 DEF RowBooked, OwedFor

LEMMA CorrectionBooked ==
    ASSUME NEW js \in Seq(JournalEntry), NEW e \in Expense, Alone(e), NEW old \in ExpenseRow,
           RowBooked(e, old, js, old.amount), old.source = "entered",
           NEW row \in ExpenseRow, row.source = "entered"
    PROVE  RowBooked(e, row, Append(Append(js, Entry(e, "reversal", -Current(e, js).lines)),
                                    Entry(e, "posted", row.amount)), row.amount)
<1>1. Current(e, js).lines = old.amount /\ BookedIn(e, js) = old.amount /\ old.amount \in Int /\ row.amount \in Int
  BY RowFacts DEF RowBooked, OwedFor
<1>2. PICK x \in JournalEntry : x = Entry(e, "reversal", -Current(e, js).lines)
  <2>1. -Current(e, js).lines \in Int
    BY <1>1
  <2> QED BY <2>1, EntryFacts
<1>3. PICK y \in JournalEntry : y = Entry(e, "posted", row.amount)
  BY <1>1, EntryFacts
<1>4. x.of = e /\ x.lines = -old.amount /\ y.of = e /\ y.lines = row.amount /\ y.kind = "posted" /\ row # None
  <2>1. -Current(e, js).lines \in Int
    BY <1>1
  <2> QED BY <1>1, <1>2, <1>3, <2>1, RowFacts, EntryFacts
<1>5. PICK more \in Seq(JournalEntry) : more = Append(js, x)
  BY EntryMore
<1>6. BookedIn(e, more) = old.amount + -old.amount
  <2>1. BookedIn(e, Append(js, x)) = BookedIn(e, js) + IF x.of = e THEN x.lines ELSE 0
    BY EntryMore
  <2> QED BY <1>1, <1>4, <1>5, <2>1
<1>7. <<e, y.of>> \in Prefix
  BY <1>4, AloneEntries
<1>8. /\ BookedIn(e, Append(more, y)) = BookedIn(e, more) + row.amount
      /\ EntriesOf(e, Append(more, y)) # {} /\ Current(e, Append(more, y)) = y
  BY <1>4, <1>7, EntryMore
<1>9. BookedIn(e, Append(more, y)) = row.amount
  BY <1>1, <1>6, <1>8
<1> QED BY <1>2, <1>3, <1>4, <1>5, <1>8, <1>9 DEF RowBooked, OwedFor

LEMMA DeletionBooked ==
    ASSUME NEW js \in Seq(JournalEntry), NEW e \in Expense, Alone(e), NEW old \in ExpenseRow, NEW debit,
           RowBooked(e, old, js, debit), old.source = "entered"
    PROVE  RowBooked(e, None, Append(js, Entry(e, "deletion", -Current(e, js).lines)), 0)
<1>1. Current(e, js).lines = old.amount /\ BookedIn(e, js) = old.amount /\ old.amount \in Int
  BY RowFacts DEF RowBooked, OwedFor
<1>2. -Current(e, js).lines \in Int
  BY <1>1
<1>3. PICK x \in JournalEntry : x = Entry(e, "deletion", -Current(e, js).lines)
  BY <1>2, EntryFacts
<1>4. x.of = e /\ x.lines = -old.amount /\ x.kind = "deletion"
  BY <1>1, <1>3, <1>2, EntryFacts
<1>5. <<e, x.of>> \in Prefix
  BY <1>4, AloneEntries
<1>6. /\ BookedIn(e, Append(js, x)) = BookedIn(e, js) + IF x.of = e THEN x.lines ELSE 0
      /\ Current(e, Append(js, x)) = x
  BY <1>5, EntryMore
<1>7. BookedIn(e, Append(js, x)) = 0
  BY <1>1, <1>4, <1>6
<1> QED BY <1>3, <1>4, <1>6, <1>7 DEF RowBooked, OwedFor

-----------------------------------------------------------------------------
\* The sums of an item.
RowsOf2 == ExpenseRow \cup PurchaseRow
SourceItem(row) == IF row = None THEN NoItem ELSE row.item

LEMMA SumInt ==
    ASSUME NEW table, IsFiniteSet(DOMAIN table), NEW b,
           \A k \in DOMAIN table : table[k] = None \/ table[k].amount \in Int
    PROVE  SumOf(table, b) \in Int
<1>1. PICK f : f = [k \in {j \in Rows(table) : table[j].item = b} |-> table[k].amount]
  OBVIOUS
<1>2. DOMAIN f \subseteq DOMAIN table /\ \A k \in DOMAIN f : f[k] \in Int
  BY <1>1 DEF Rows
<1>3. Finitely(f)
  BY <1>2, FS_Subset DEF Finitely
<1> QED BY <1>1, <1>3, TotalInt DEF SumOf

LEMMA CostInt ==
    ASSUME NEW es \in ExpenseTable, NEW ps \in PurchaseTable, NEW b
    PROVE  ActualCost(b, es, ps) \in Int
<1>1. /\ DOMAIN es = Expense /\ \A k \in Expense : es[k] = None \/ es[k].amount \in Int
      /\ DOMAIN ps = Purchase /\ \A k \in Purchase : ps[k] = None \/ ps[k].amount \in Int
  BY RowFacts DEF ExpenseTable, PurchaseTable
<1>2. SumOf(es, b) \in Int /\ SumOf(ps, b) \in Int
  BY <1>1, SumInt, SourcesAreFinite
<1> QED BY <1>2 DEF ActualCost

\* A row's change is the business of the items it named and names.
LEMMA SumMoved ==
    ASSUME NEW table, NEW k \in DOMAIN table, NEW row, NEW b,
           table[k] = None \/ table[k].item # b, row = None \/ row.item # b
    PROVE  SumOf([table EXCEPT ![k] = row], b) = SumOf(table, b)
<1>1. PICK next : next = [table EXCEPT ![k] = row]
  OBVIOUS
<1>2. DOMAIN next = DOMAIN table /\ next[k] = row /\ \A j \in DOMAIN table : j # k => next[j] = table[j]
  BY <1>1
<1>3. PICK S : S = {j \in Rows(table) : table[j].item = b}
  OBVIOUS
<1>4. {j \in Rows(next) : next[j].item = b} = S
  BY <1>2, <1>3 DEF Rows
<1>5. \A j \in S : next[j] = table[j]
  BY <1>2, <1>3 DEF Rows
<1>6. [j \in S |-> next[j].amount] = [j \in S |-> table[j].amount]
  BY <1>5
<1> QED BY <1>1, <1>3, <1>4, <1>6 DEF SumOf

\* What a change that sums its items again keeps.
LEMMA SummedStep ==
    ASSUME CostsInv, NEW view, NEW old \in Item \cup {NoItem}, NEW new \in Item \cup {NoItem},
           NEW es \in ExpenseTable, NEW ps \in PurchaseTable,
           actual' = Recalculated2(old, new, es, ps), SummedFrom(view, old, new),
           view.expenses = expenses /\ view.purchases = purchases => es = expenses' /\ ps = purchases',
           \A b \in Item : b \notin {old, new} =>
               ActualCost(b, expenses', purchases') = ActualCost(b, expenses, purchases)
    PROVE  ActualCostAddsUp' /\ actual' \in [Item -> Int] /\ outdated' \in SUBSET Item
<1>1. \A b \in Item : ActualCost(b, es, ps) \in Int
  BY CostInt
<1>2. /\ actual' = [b \in Item |-> IF b \in {old, new} THEN ActualCost(b, es, ps) ELSE actual[b]]
      /\ actual \in [Item -> Int] /\ outdated \in SUBSET Item
  BY DEF Recalculated2, CostsInv, CostsTypeOK
<1>3. actual' \in [Item -> Int]
  BY <1>1, <1>2
<1>4. outdated' \in SUBSET Item
  BY <1>2 DEF SummedFrom
<1>5. ASSUME NEW b \in Item, b \notin outdated' PROVE actual'[b] = ActualCost(b, expenses', purchases')
  <2>1. CASE b \in {old, new}
    <3>1. b # NoItem
      BY NoItemAssumption
    <3>2. es = expenses' /\ ps = purchases'
      BY <1>5, <2>1, <3>1 DEF SummedFrom
    <3> QED BY <1>2, <2>1, <3>2
  <2>2. CASE b \notin {old, new}
    <3>1. b \notin outdated
      BY <1>5, <2>2, NoItemAssumption DEF SummedFrom
    <3>2. actual[b] = ActualCost(b, expenses, purchases)
      BY <3>1 DEF CostsInv, ActualCostAddsUp, Comparison
    <3> QED BY <1>2, <2>2, <3>2
  <2> QED BY <2>1, <2>2
<1>6. ActualCostAddsUp'
  BY <1>5 DEF ActualCostAddsUp, Comparison
<1> QED BY <1>3, <1>4, <1>6

ViewsStay ==
    /\ costing' = [r \in Costing |-> costing'[r]]
    /\ \A r \in Costing : costing'[r] \in {costing[r], NoView}
LEMMA ViewsStep ==
    ASSUME CostsInv, costing' = [r \in Costing |-> costing'[r]],
           \A r \in Costing : costing'[r] \in {costing[r], NoView, View}
    PROVE  ViewsKept'
<1>1. ViewKept(View)
  BY DEF CostsInv, CostsTypeOK, ViewKept, View, ExpenseTable, PurchaseTable
<1>2. \A r \in Costing : costing'[r] = NoView \/ ViewKept(costing'[r])
  BY <1>1 DEF CostsInv, ViewsKept
<1> QED BY <1>2 DEF ViewsKept, NoView, None, ViewKept, ExpenseTable, PurchaseTable, ExpenseRow, PurchaseRow, JournalEntry

-----------------------------------------------------------------------------
\* What a change of one expense keeps.
LEMMA BookedStep ==
    ASSUME CostsInv, NEW e \in Expense, misread \subseteq misread',
           \A f \in Expense : f # e => expenses'[f] = expenses[f] /\ debits'[f] = debits[f],
           Alone(e) /\ e \notin misread' => RowBooked(e, expenses'[e], journal', debits'[e]),
           \A f \in Expense : \A row, debit :
               f # e /\ Alone(f) /\ RowBooked(f, row, journal, debit) => RowBooked(f, row, journal', debit)
    PROVE  ExpensesBooked'
<1>1. ASSUME NEW f \in Expense, Alone(f), f \notin misread'
      PROVE  RowBooked(f, expenses'[f], journal', debits'[f])
  <2>1. CASE f = e
    BY <1>1, <2>1
  <2>2. CASE f # e
    <3>1. RowBooked(f, expenses[f], journal, debits[f])
      BY <1>1 DEF CostsInv, ExpensesBooked
    <3> QED BY <1>1, <2>2, <3>1
  <2> QED BY <2>1, <2>2
<1> QED BY <1>1 DEF ExpensesBooked

\* Entries of an expense that were taken to be all there are leave the others alone.
LEMMA OneEntry ==
    ASSUME NEW js \in Seq(JournalEntry), NEW x \in JournalEntry, NEW more, more = Append(js, x)
    PROVE  /\ more \in Seq(JournalEntry)
           /\ \A f \in Expense : \A row, debit :
                 f # x.of /\ Alone(f) /\ RowBooked(f, row, js, debit) => RowBooked(f, row, more, debit)
BY EntryMore, OthersBooked

LEMMA CreateInv ==
    ASSUME CostsInv, ViewsStay, NEW e \in Expense, NEW amount \in Cost, NEW item \in Item \cup {NoItem},
           NEW view, ViewKept(view), Create(e, amount, item, view)
    PROVE  CostsInv'
<1>1. PICK row \in ExpenseRow : row = [amount |-> amount, item |-> item, source |-> "entered"]
  BY DEF ExpenseRow
<1>2. row.amount = amount /\ row.item = item /\ row.source = "entered" /\ row # None
  BY <1>1, RowFacts
<1>3. PICK x \in JournalEntry : x = Entry(e, "posted", amount) /\ x.of = e
  <2>1. amount \in Int
    BY CostAssumption
  <2> QED BY <2>1, EntryFacts
<1>4. /\ expenses[e] = None /\ expenses' = [expenses EXCEPT ![e] = row]
      /\ actual' = Recalculated2(item, item, [view.expenses EXCEPT ![e] = row], view.purchases)
      /\ debits' = [debits EXCEPT ![e] = amount] /\ journal' = Append(journal, x)
      /\ SummedFrom(view, item, item) /\ UNCHANGED <<billed, purchases, misread>>
  BY <1>1, <1>3 DEF Create
<1>5. expenses \in ExpenseTable /\ purchases \in PurchaseTable /\ journal \in Seq(JournalEntry) /\ debits \in [Expense -> Nat]
      /\ billed \in [Expense -> {"no", "open", "paid"}] /\ misread \in SUBSET Expense
  BY DEF CostsInv, CostsTypeOK, ExpenseTable, PurchaseTable
<1>6. expenses' \in ExpenseTable /\ debits' \in [Expense -> Nat] /\ expenses'[e] = row /\ debits'[e] = amount
      /\ \A f \in Expense : f # e => expenses'[f] = expenses[f] /\ debits'[f] = debits[f]
  BY <1>4, <1>5, CostAssumption DEF ExpenseTable
<1>7. /\ journal' \in Seq(JournalEntry)
      /\ \A f \in Expense : \A r, debit :
            f # e /\ Alone(f) /\ RowBooked(f, r, journal, debit) => RowBooked(f, r, journal', debit)
  BY <1>3, <1>4, <1>5, OneEntry
<1>8. Alone(e) /\ e \notin misread' => RowBooked(e, row, journal', amount)
  <2>1. ASSUME Alone(e), e \notin misread PROVE RowBooked(e, None, journal, debits[e])
    BY <1>4, <2>1 DEF CostsInv, ExpensesBooked
  <2> QED BY <1>2, <1>3, <1>4, <1>5, <2>1, FirstBooked
<1>9. ExpensesBooked'
  BY <1>4, <1>6, <1>7, <1>8, BookedStep
<1>10. PICK es \in ExpenseTable : es = [view.expenses EXCEPT ![e] = row]
  BY DEF ViewKept, ExpenseTable
<1>11. PICK ps \in PurchaseTable : ps = view.purchases
  BY DEF ViewKept
<1>12. view.expenses = expenses /\ view.purchases = purchases => es = expenses' /\ ps = purchases'
  BY <1>4, <1>10, <1>11
<1>13. \A b \in Item : b \notin {item, item} => ActualCost(b, expenses', purchases') = ActualCost(b, expenses, purchases)
  <2>1. ASSUME NEW b \in Item, b # item PROVE SumOf(expenses', b) = SumOf(expenses, b)
    <3>1. e \in DOMAIN expenses
      BY <1>5 DEF ExpenseTable
    <3>2. expenses[e] = None \/ expenses[e].item # b
      BY <1>4, <2>1
    <3>3. row = None \/ row.item # b
      BY <2>1, <1>2
    <3>4. SumOf([expenses EXCEPT ![e] = row], b) = SumOf(expenses, b)
      BY <3>1, <3>2, <3>3, SumMoved
    <3> QED BY <1>4, <3>4
  <2> QED BY <1>4, <2>1 DEF ActualCost
<1>14. ActualCostAddsUp' /\ actual' \in [Item -> Int] /\ outdated' \in SUBSET Item
  BY <1>4, <1>10, <1>11, <1>12, <1>13, SummedStep
<1>15. ViewsKept'
  BY ViewsStep DEF ViewsStay
<1>16. CostsTypeOK'
  BY <1>4, <1>5, <1>6, <1>7, <1>14
     DEF CostsTypeOK, ExpenseTable, PurchaseTable, ExpenseRow, PurchaseRow, JournalEntry, None
<1> QED BY <1>9, <1>14, <1>15, <1>16 DEF CostsInv

LEMMA UpdateInv ==
    ASSUME CostsInv, ViewsStay, NEW e \in Expense, NEW amount \in Cost, NEW item \in Item \cup {NoItem},
           NEW view, ViewKept(view), Update(e, amount, item, view)
    PROVE  CostsInv'
<1>1. expenses \in ExpenseTable /\ purchases \in PurchaseTable /\ journal \in Seq(JournalEntry) /\ debits \in [Expense -> Nat]
      /\ billed \in [Expense -> {"no", "open", "paid"}] /\ misread \in SUBSET Expense
  BY DEF CostsInv, CostsTypeOK, ExpenseTable, PurchaseTable
<1>2. PICK old \in ExpenseRow : old = expenses[e]
  <2>1. expenses[e] # None
    BY DEF Update, Editable
  <2> QED BY <1>1, <2>1 DEF ExpenseTable
<1>3. old # None /\ old.item \in Item \cup {NoItem} /\ old.amount \in Int /\ amount \in Int /\ amount \in Nat /\ old.amount # 0
  BY RowFacts, CostAssumption
<1>4. PICK row \in ExpenseRow : row = [old EXCEPT !.amount = amount, !.item = item]
  BY DEF ExpenseRow
<1>5. row.amount = amount /\ row.item = item /\ row.source = old.source /\ row # None
  BY <1>4, RowFacts DEF ExpenseRow
<1>6. /\ amount # old.amount => EntriesOf(e, view.journal) # {}
      /\ expenses' = [expenses EXCEPT ![e] = row]
      /\ debits' = [debits EXCEPT ![e] = IF debits[e] # 0 THEN amount ELSE 0]
      /\ journal' = IF amount = old.amount THEN journal ELSE journal \o Correction(e, amount, view.journal)
      /\ actual' = Recalculated2(old.item, item, [view.expenses EXCEPT ![e] = row], view.purchases)
      /\ SummedFrom(view, old.item, item) /\ UNCHANGED <<billed, purchases>>
      /\ misread' = IF amount # old.amount /\ view.journal # journal THEN misread \cup {e} ELSE misread
  BY <1>2, <1>4 DEF Update
<1>7. expenses' \in ExpenseTable /\ debits' \in [Expense -> Nat] /\ expenses'[e] = row
      /\ debits'[e] = (IF debits[e] # 0 THEN amount ELSE 0)
      /\ \A f \in Expense : f # e => expenses'[f] = expenses[f] /\ debits'[f] = debits[f]
  BY <1>1, <1>3, <1>6 DEF ExpenseTable
<1>8. misread \subseteq misread' /\ misread' \in SUBSET Expense
  BY <1>1, <1>6
<1>9. /\ journal' \in Seq(JournalEntry)
      /\ \A f \in Expense : \A r, debit :
            f # e /\ Alone(f) /\ RowBooked(f, r, journal, debit) => RowBooked(f, r, journal', debit)
      /\ Alone(e) /\ e \notin misread' => RowBooked(e, row, journal', debits'[e])
  <2>1. CASE amount = old.amount
    <3>1. ASSUME Alone(e), e \notin misread PROVE RowBooked(e, row, journal, debits'[e])
      <4>1. RowBooked(e, old, journal, debits[e])
        BY <1>2, <3>1 DEF CostsInv, ExpensesBooked
      <4>2. debits'[e] = debits[e]
        BY <1>3, <1>5, <1>7, <2>1, <4>1 DEF RowBooked, OwedFor
      <4> QED BY <1>3, <1>5, <2>1, <4>1, <4>2 DEF RowBooked, OwedFor
    <3> QED BY <1>1, <1>6, <2>1, <3>1
  <2>2. CASE amount # old.amount
    <3>1. view.journal \in Seq(JournalEntry) /\ EntriesOf(e, view.journal) # {}
      BY <1>6, <2>2 DEF ViewKept
    <3>2. -Current(e, view.journal).lines \in Int
      <4>1. Current(e, view.journal).lines \in Int
        BY <3>1, CurrentIs, EntryFacts
      <4> QED BY <4>1
    <3>3. PICK x \in JournalEntry : x = Entry(e, "reversal", -Current(e, view.journal).lines) /\ x.of = e
      BY <3>2, EntryFacts
    <3>4. PICK y \in JournalEntry : y = Entry(e, "posted", amount) /\ y.of = e
      BY <1>3, EntryFacts
    <3>5. PICK half : half = Append(journal, x)
      OBVIOUS
    <3>6. /\ half \in Seq(JournalEntry)
          /\ \A f \in Expense : \A r, debit :
                f # e /\ Alone(f) /\ RowBooked(f, r, journal, debit) => RowBooked(f, r, half, debit)
      BY <1>1, <3>3, <3>5, OneEntry
    <3>7. journal' = Append(half, y)
      <4>1. journal' = journal \o <<x, y>>
        BY <1>6, <2>2, <3>3, <3>4 DEF Correction
      <4> QED BY <1>1, <3>5, <4>1
    <3>8. /\ journal' \in Seq(JournalEntry)
          /\ \A f \in Expense : \A r, debit :
                f # e /\ Alone(f) /\ RowBooked(f, r, half, debit) => RowBooked(f, r, journal', debit)
      BY <3>4, <3>6, <3>7, OneEntry
    <3>9. ASSUME Alone(e), e \notin misread' PROVE RowBooked(e, row, journal', debits'[e])
      <4>1. view.journal = journal /\ e \notin misread
        BY <1>6, <2>2, <3>9
      <4>2. RowBooked(e, old, journal, debits[e])
        BY <1>2, <3>9, <4>1 DEF CostsInv, ExpensesBooked
      <4>3. old.source = "entered"
        BY <1>3, <3>1, <4>1, <4>2 DEF RowBooked
      <4>4. debits[e] = old.amount /\ debits'[e] = row.amount
        BY <1>3, <1>5, <1>7, <4>2, <4>3 DEF RowBooked, OwedFor
      <4>5. journal' = Append(Append(journal, Entry(e, "reversal", -Current(e, journal).lines)), Entry(e, "posted", row.amount))
        BY <1>5, <3>3, <3>4, <3>5, <3>7, <4>1
      <4>6. RowBooked(e, row, Append(Append(journal, Entry(e, "reversal", -Current(e, journal).lines)),
                                     Entry(e, "posted", row.amount)), row.amount)
        BY <1>1, <1>5, <3>9, <4>2, <4>3, <4>4, CorrectionBooked
      <4> QED BY <4>4, <4>5, <4>6
    <3> QED BY <3>6, <3>8, <3>9
  <2> QED BY <2>1, <2>2
<1>10. ExpensesBooked'
  BY <1>7, <1>8, <1>9, BookedStep
<1>11. PICK es \in ExpenseTable : es = [view.expenses EXCEPT ![e] = row]
  BY DEF ViewKept, ExpenseTable
<1>12. PICK ps \in PurchaseTable : ps = view.purchases
  BY DEF ViewKept
<1>13. view.expenses = expenses /\ view.purchases = purchases => es = expenses' /\ ps = purchases'
  BY <1>6, <1>11, <1>12
<1>14. \A b \in Item : b \notin {old.item, item} => ActualCost(b, expenses', purchases') = ActualCost(b, expenses, purchases)
  <2>1. ASSUME NEW b \in Item, b # old.item, b # item PROVE SumOf(expenses', b) = SumOf(expenses, b)
    <3>1. e \in DOMAIN expenses
      BY <1>1 DEF ExpenseTable
    <3>2. expenses[e] = None \/ expenses[e].item # b
      BY <1>2, <2>1
    <3>3. row = None \/ row.item # b
      BY <2>1, <1>5
    <3>4. SumOf([expenses EXCEPT ![e] = row], b) = SumOf(expenses, b)
      BY <3>1, <3>2, <3>3, SumMoved
    <3> QED BY <1>6, <3>4
  <2> QED BY <1>6, <2>1 DEF ActualCost
<1>15. ActualCostAddsUp' /\ actual' \in [Item -> Int] /\ outdated' \in SUBSET Item
  BY <1>3, <1>6, <1>11, <1>12, <1>13, <1>14, SummedStep
<1>16. ViewsKept'
  BY ViewsStep DEF ViewsStay
<1>17. CostsTypeOK'
  BY <1>1, <1>6, <1>7, <1>8, <1>9, <1>15
     DEF CostsTypeOK, ExpenseTable, PurchaseTable, ExpenseRow, PurchaseRow, JournalEntry, None
<1> QED BY <1>10, <1>15, <1>16, <1>17 DEF CostsInv

LEMMA DeleteInv ==
    ASSUME CostsInv, ViewsStay, NEW e \in Expense, NEW view, ViewKept(view), Delete(e, view)
    PROVE  CostsInv'
<1>1. expenses \in ExpenseTable /\ purchases \in PurchaseTable /\ journal \in Seq(JournalEntry) /\ debits \in [Expense -> Nat]
      /\ billed \in [Expense -> {"no", "open", "paid"}] /\ misread \in SUBSET Expense
  BY DEF CostsInv, CostsTypeOK, ExpenseTable, PurchaseTable
<1>2. PICK old \in ExpenseRow : old = expenses[e]
  <2>1. expenses[e] # None
    BY DEF Delete, Editable
  <2> QED BY <1>1, <2>1 DEF ExpenseTable
<1>3. old # None /\ old.item \in Item \cup {NoItem} /\ old.source \in {"entered", "advance"}
  BY RowFacts
<1>4. PICK booked \in BOOLEAN :
          booked = (EntriesOf(e, view.journal) # {} /\ Current(e, view.journal).kind # "deletion")
  OBVIOUS
<1>5. /\ expenses' = [expenses EXCEPT ![e] = None] /\ debits' = [debits EXCEPT ![e] = 0]
      /\ journal' = IF booked THEN Append(journal, Entry(e, "deletion", -Current(e, view.journal).lines)) ELSE journal
      /\ actual' = Recalculated2(old.item, old.item, [view.expenses EXCEPT ![e] = None], view.purchases)
      /\ SummedFrom(view, old.item, old.item) /\ UNCHANGED <<billed, purchases>>
      /\ misread' = IF view.journal # journal THEN misread \cup {e} ELSE misread
  BY <1>2, <1>4 DEF Delete
<1>6. expenses' \in ExpenseTable /\ debits' \in [Expense -> Nat] /\ expenses'[e] = None /\ debits'[e] = 0
      /\ \A f \in Expense : f # e => expenses'[f] = expenses[f] /\ debits'[f] = debits[f]
  BY <1>1, <1>5 DEF ExpenseTable
<1>7. misread \subseteq misread' /\ misread' \in SUBSET Expense
  BY <1>1, <1>5
<1>8. /\ journal' \in Seq(JournalEntry)
      /\ \A f \in Expense : \A r, debit :
            f # e /\ Alone(f) /\ RowBooked(f, r, journal, debit) => RowBooked(f, r, journal', debit)
  <2>1. CASE ~booked
    BY <1>1, <1>5, <2>1
  <2>2. CASE booked
    <3>1. view.journal \in Seq(JournalEntry) /\ EntriesOf(e, view.journal) # {}
      BY <1>4, <2>2 DEF ViewKept
    <3>2. -Current(e, view.journal).lines \in Int
      <4>1. Current(e, view.journal).lines \in Int
        BY <3>1, CurrentIs, EntryFacts
      <4> QED BY <4>1
    <3>3. PICK x \in JournalEntry : x = Entry(e, "deletion", -Current(e, view.journal).lines) /\ x.of = e
      BY <3>2, EntryFacts
    <3>4. journal' = Append(journal, x)
      BY <1>5, <2>2, <3>3
    <3> QED BY <1>1, <3>3, <3>4, OneEntry
  <2> QED BY <2>1, <2>2
<1>9. ASSUME Alone(e), e \notin misread' PROVE RowBooked(e, None, journal', 0)
  <2>1. view.journal = journal /\ e \notin misread
    BY <1>5, <1>9
  <2>2. RowBooked(e, old, journal, debits[e])
    BY <1>2, <1>9, <2>1 DEF CostsInv, ExpensesBooked
  <2>3. CASE old.source = "entered"
    <3>1. booked
      BY <1>3, <1>4, <2>1, <2>2, <2>3 DEF RowBooked
    <3>2. RowBooked(e, None, Append(journal, Entry(e, "deletion", -Current(e, journal).lines)), 0)
      BY <1>1, <1>9, <2>2, <2>3, DeletionBooked
    <3> QED BY <1>5, <2>1, <3>1, <3>2
  <2>4. CASE old.source = "advance"
    <3>1. EntriesOf(e, journal) = {} /\ BookedIn(e, journal) = 0
      BY <1>3, <2>2, <2>4 DEF RowBooked, OwedFor
    <3>2. journal' = journal
      BY <1>4, <1>5, <2>1, <3>1
    <3> QED BY <3>1, <3>2 DEF RowBooked, OwedFor
  <2> QED BY <1>3, <2>3, <2>4
<1>10. ExpensesBooked'
  BY <1>6, <1>7, <1>8, <1>9, BookedStep
<1>11. PICK es \in ExpenseTable : es = [view.expenses EXCEPT ![e] = None]
  BY DEF ViewKept, ExpenseTable
<1>12. PICK ps \in PurchaseTable : ps = view.purchases
  BY DEF ViewKept
<1>13. view.expenses = expenses /\ view.purchases = purchases => es = expenses' /\ ps = purchases'
  BY <1>5, <1>11, <1>12
<1>14. \A b \in Item : b \notin {old.item, old.item} => ActualCost(b, expenses', purchases') = ActualCost(b, expenses, purchases)
  <2>1. ASSUME NEW b \in Item, b # old.item PROVE SumOf(expenses', b) = SumOf(expenses, b)
    <3>1. e \in DOMAIN expenses
      BY <1>1 DEF ExpenseTable
    <3>2. expenses[e] = None \/ expenses[e].item # b
      BY <1>2, <2>1
    <3>3. None = None \/ None.item # b
      OBVIOUS
    <3>4. SumOf([expenses EXCEPT ![e] = None], b) = SumOf(expenses, b)
      BY <3>1, <3>2, <3>3, SumMoved
    <3> QED BY <1>5, <3>4
  <2> QED BY <1>5, <2>1 DEF ActualCost
<1>15. ActualCostAddsUp' /\ actual' \in [Item -> Int] /\ outdated' \in SUBSET Item
  BY <1>3, <1>5, <1>11, <1>12, <1>13, <1>14, SummedStep
<1>16. ViewsKept'
  BY ViewsStep DEF ViewsStay
<1>17. CostsTypeOK'
  BY <1>1, <1>5, <1>6, <1>7, <1>8, <1>15
     DEF CostsTypeOK, ExpenseTable, PurchaseTable, ExpenseRow, PurchaseRow, JournalEntry, None
<1> QED BY <1>10, <1>15, <1>16, <1>17 DEF CostsInv

LEMMA SetPurchaseInv ==
    ASSUME CostsInv, ViewsStay, NEW p \in Purchase, NEW row, row = None \/ row \in PurchaseRow,
           NEW view, ViewKept(view), SetPurchase(p, row, view)
    PROVE  CostsInv'
<1>1. expenses \in ExpenseTable /\ purchases \in PurchaseTable /\ journal \in Seq(JournalEntry) /\ debits \in [Expense -> Nat]
      /\ billed \in [Expense -> {"no", "open", "paid"}] /\ misread \in SUBSET Expense
  BY DEF CostsInv, CostsTypeOK, ExpenseTable, PurchaseTable
<1>2. PICK old : old = SourceItem(purchases[p])
  OBVIOUS
<1>3. PICK new : new = SourceItem(row)
  OBVIOUS
<1>4. purchases[p] = None \/ purchases[p] \in PurchaseRow
  BY <1>1 DEF PurchaseTable
<1>5. old \in Item \cup {NoItem} /\ new \in Item \cup {NoItem}
  BY <1>2, <1>3, <1>4, RowFacts DEF SourceItem
<1>6. /\ purchases' = [purchases EXCEPT ![p] = row]
      /\ actual' = Recalculated2(old, new, view.expenses, [view.purchases EXCEPT ![p] = row])
      /\ SummedFrom(view, old, new) /\ UNCHANGED <<expenses, journal, debits, billed, misread>>
  BY <1>2, <1>3 DEF SetPurchase, SourceItem
<1>7. purchases' \in PurchaseTable
  BY <1>1, <1>6 DEF PurchaseTable
<1>8. PICK es \in ExpenseTable : es = view.expenses
  BY DEF ViewKept
<1>9. PICK ps \in PurchaseTable : ps = [view.purchases EXCEPT ![p] = row]
  BY DEF ViewKept, PurchaseTable
<1>10. view.expenses = expenses /\ view.purchases = purchases => es = expenses' /\ ps = purchases'
  BY <1>6, <1>8, <1>9
<1>11. \A b \in Item : b \notin {old, new} => ActualCost(b, expenses', purchases') = ActualCost(b, expenses, purchases)
  <2>1. ASSUME NEW b \in Item, b # old, b # new PROVE SumOf(purchases', b) = SumOf(purchases, b)
    <3>1. p \in DOMAIN purchases
      BY <1>1 DEF PurchaseTable
    <3>2. purchases[p] = None \/ purchases[p].item # b
      BY <1>2, <2>1 DEF SourceItem
    <3>3. row = None \/ row.item # b
      BY <1>3, <2>1 DEF SourceItem
    <3>4. SumOf([purchases EXCEPT ![p] = row], b) = SumOf(purchases, b)
      BY <3>1, <3>2, <3>3, SumMoved
    <3> QED BY <1>6, <3>4
  <2> QED BY <1>6, <2>1 DEF ActualCost
<1>12. ActualCostAddsUp' /\ actual' \in [Item -> Int] /\ outdated' \in SUBSET Item
  BY <1>5, <1>6, <1>8, <1>9, <1>10, <1>11, SummedStep
<1>13. ExpensesBooked'
  BY <1>6 DEF CostsInv, ExpensesBooked
<1>14. ViewsKept'
  BY ViewsStep DEF ViewsStay
<1>15. CostsTypeOK'
  BY <1>1, <1>6, <1>7, <1>12
     DEF CostsTypeOK, ExpenseTable, PurchaseTable, ExpenseRow, PurchaseRow, JournalEntry, None
<1> QED BY <1>12, <1>13, <1>14, <1>15 DEF CostsInv

\* An advance has nothing in the books.
LEMMA CreateAdvanceInv ==
    ASSUME CostsInv, NEW e \in Expense, NEW amount \in Cost, CreateAdvance(e, amount)
    PROVE  CostsInv'
<1>1. expenses \in ExpenseTable /\ purchases \in PurchaseTable /\ journal \in Seq(JournalEntry) /\ debits \in [Expense -> Nat]
      /\ billed \in [Expense -> {"no", "open", "paid"}] /\ misread \in SUBSET Expense
      /\ actual \in [Item -> Int] /\ outdated \in SUBSET Item
  BY DEF CostsInv, CostsTypeOK, ExpenseTable, PurchaseTable
<1>2. PICK row \in ExpenseRow : row = [amount |-> amount, item |-> NoItem, source |-> "advance"]
  BY DEF ExpenseRow
<1>3. row.item = NoItem /\ row.source = "advance" /\ row # None
  BY <1>2, RowFacts
<1>4. /\ expenses[e] = None /\ Unused(e) /\ expenses' = [expenses EXCEPT ![e] = row]
      /\ UNCHANGED <<journal, debits, billed, purchases, actual, costing, misread, outdated>>
  BY <1>2 DEF CreateAdvance
<1>5. expenses' \in ExpenseTable /\ expenses'[e] = row /\ \A f \in Expense : f # e => expenses'[f] = expenses[f]
  BY <1>1, <1>4 DEF ExpenseTable
<1>6. ASSUME Alone(e), e \notin misread PROVE RowBooked(e, row, journal, debits[e])
  <2>1. RowBooked(e, None, journal, debits[e])
    BY <1>4, <1>6 DEF CostsInv, ExpensesBooked
  <2>2. ASSUME NEW i \in EntriesOf(e, journal) PROVE FALSE
    <3>1. i \in DOMAIN journal /\ <<e, journal[i].of>> \in Prefix /\ journal[i].of \in Expense
      BY <1>1, EntryFacts DEF EntriesOf
    <3>2. journal[i].of = e
      BY <1>6, <3>1, AloneEntries
    <3> QED BY <1>4, <3>1, <3>2 DEF Unused
  <2> QED BY <1>3, <2>1, <2>2 DEF RowBooked, OwedFor
<1>7. ExpensesBooked'
  BY <1>4, <1>5, <1>6, BookedStep
<1>8. ASSUME NEW b \in Item PROVE ActualCost(b, expenses', purchases') = ActualCost(b, expenses, purchases)
  <2>1. row.item # b /\ e \in DOMAIN expenses
    BY <1>1, <1>3, NoItemAssumption DEF ExpenseTable
  <2>2. expenses[e] = None \/ expenses[e].item # b
    BY <1>4
  <2>3. SumOf([expenses EXCEPT ![e] = row], b) = SumOf(expenses, b)
    BY <2>1, <2>2, SumMoved
  <2> QED BY <1>4, <2>3 DEF ActualCost
<1>9. ActualCostAddsUp'
  BY <1>4, <1>8 DEF CostsInv, ActualCostAddsUp, Comparison
<1>10. ViewsKept'
  BY <1>4 DEF CostsInv, ViewsKept
<1>11. CostsTypeOK'
  BY <1>1, <1>4, <1>5 DEF CostsTypeOK, ExpenseTable, PurchaseTable, ExpenseRow, PurchaseRow, JournalEntry, None
<1> QED BY <1>7, <1>9, <1>10, <1>11 DEF CostsInv

LEMMA CostsStay ==
    ASSUME CostsInv, UNCHANGED <<expenses, journal, debits, purchases, actual, misread, outdated>>,
           billed' \in [Expense -> {"no", "open", "paid"}], costing' = [r \in Costing |-> costing'[r]],
           \A r \in Costing : costing'[r] \in {costing[r], NoView, View}
    PROVE  CostsInv'
<1>1. CostsTypeOK'
  BY DEF CostsInv, CostsTypeOK
<1>2. ViewsKept'
  BY ViewsStep
<1>3. ExpensesBooked' /\ ActualCostAddsUp'
  BY DEF CostsInv, ExpensesBooked, ActualCostAddsUp, Comparison
<1> QED BY <1>1, <1>2, <1>3 DEF CostsInv

LEMMA CostsInitInv == CostsInit => CostsInv
<1> SUFFICES ASSUME CostsInit PROVE CostsInv
  OBVIOUS
<1>1. CostsTypeOK /\ ViewsKept
  BY DEF CostsInit, CostsTypeOK, ViewsKept
<1>2. ASSUME NEW e \in Expense PROVE RowBooked(e, expenses[e], journal, debits[e])
  <2>1. expenses[e] = None /\ debits[e] = 0 /\ EntriesOf(e, journal) = {}
    BY DEF CostsInit, EntriesOf
  <2>2. PICK f : f = [i \in {j \in DOMAIN journal : journal[j].of = e} |-> journal[i].lines]
    OBVIOUS
  <2>3. \A y \in DOMAIN f : f[y] = 0
    BY <2>2 DEF CostsInit
  <2>4. BookedIn(e, journal) = 0
    BY <2>2, <2>3, TotalZero DEF BookedIn
  <2> QED BY <2>1, <2>4 DEF RowBooked, OwedFor
<1>3. ASSUME NEW b \in Item PROVE actual[b] = ActualCost(b, expenses, purchases)
  <2>1. actual[b] = 0 /\ Rows(expenses) = {} /\ Rows(purchases) = {}
    BY DEF CostsInit, Rows
  <2>2. PICK f : f = [k \in {j \in Rows(expenses) : expenses[j].item = b} |-> expenses[k].amount]
    OBVIOUS
  <2>3. PICK g : g = [k \in {j \in Rows(purchases) : purchases[j].item = b} |-> purchases[k].amount]
    OBVIOUS
  <2>4. (\A y \in DOMAIN f : f[y] = 0) /\ \A y \in DOMAIN g : g[y] = 0
    BY <2>1, <2>2, <2>3
  <2>5. TotalOf(f) = 0 /\ TotalOf(g) = 0
    BY <2>4, TotalZero
  <2> QED BY <2>1, <2>2, <2>3, <2>5 DEF ActualCost, SumOf
<1> QED BY <1>1, <1>2, <1>3 DEF CostsInv, ExpensesBooked, ActualCostAddsUp, Comparison

LEMMA CostsNextInv ==
    ASSUME CostsInv, [CostsNext]_costVars
    PROVE  CostsInv'
<1>1. ViewKept(View)
  BY DEF CostsInv, CostsTypeOK, ViewKept, View, ExpenseTable, PurchaseTable
<1>2. UNCHANGED costing => ViewsStay
  BY DEF CostsInv, ViewsKept, ViewsStay
<1>3. ASSUME NEW r \in Costing, costing[r] # NoView, ReleaseView(r)
      PROVE  ViewsStay /\ \E view : view = costing[r] /\ ViewKept(view)
  <2>1. ViewKept(costing[r])
    BY <1>3 DEF CostsInv, ViewsKept
  <2>2. ViewsStay
    BY <1>3 DEF CostsInv, ViewsKept, ViewsStay, ReleaseView
  <2> QED BY <2>1, <2>2
<1>4. ASSUME NEW e \in Expense, NEW amount \in Cost, NEW item \in Item \cup {NoItem}, CreateExpense(e, amount, item)
      PROVE  CostsInv'
  BY <1>1, <1>2, <1>4, CreateInv DEF CreateExpense
<1>5. ASSUME NEW e \in Expense, NEW amount \in Cost, NEW item \in Item \cup {NoItem}, UpdateExpense(e, amount, item)
      PROVE  CostsInv'
  BY <1>1, <1>2, <1>5, UpdateInv DEF UpdateExpense
<1>6. ASSUME NEW e \in Expense, NEW amount \in Cost, NEW item \in Item \cup {NoItem}, NEW r \in Costing,
             OverlappingUpdate(r, e, amount, item)
      PROVE  CostsInv'
  <2>1. costing[r] # NoView /\ Update(e, amount, item, costing[r]) /\ ReleaseView(r)
    BY <1>6 DEF OverlappingUpdate
  <2>2. ViewsStay /\ \E view : view = costing[r] /\ ViewKept(view)
    BY <1>3, <2>1
  <2> QED BY <2>1, <2>2, UpdateInv
<1>7. ASSUME NEW e \in Expense, NEW amount \in Cost, NEW item \in Item \cup {NoItem}, NEW r \in Costing,
             OverlappingCreate(r, e, amount, item)
      PROVE  CostsInv'
  <2>1. costing[r] # NoView /\ Create(e, amount, item, costing[r]) /\ ReleaseView(r)
    BY <1>7 DEF OverlappingCreate
  <2>2. ViewsStay /\ \E view : view = costing[r] /\ ViewKept(view)
    BY <1>3, <2>1
  <2> QED BY <2>1, <2>2, CreateInv
<1>8. ASSUME NEW e \in Expense, NEW amount \in Cost, CreateAdvance(e, amount) PROVE CostsInv'
  BY <1>8, CreateAdvanceInv
<1>9. ASSUME NEW e \in Expense, DeleteExpense(e) PROVE CostsInv'
  BY <1>1, <1>2, <1>9, DeleteInv DEF DeleteExpense
<1>10. ASSUME NEW e \in Expense, BillExpense(e) \/ PayBilled(e) PROVE CostsInv'
  <2>1. billed' \in [Expense -> {"no", "open", "paid"}]
    BY <1>10 DEF CostsInv, CostsTypeOK, BillExpense, PayBilled
  <2>2. UNCHANGED <<expenses, journal, debits, purchases, actual, costing, misread, outdated>>
    BY <1>10 DEF BillExpense, PayBilled
  <2>3. ViewsStay
    BY <1>2, <2>2
  <2> QED BY <2>1, <2>2, <2>3, CostsStay DEF ViewsStay
<1>11. ASSUME NEW p \in Purchase, NEW amount \in Cost, NEW item \in Item \cup {NoItem},
              CreatePurchase(p, amount, item) \/ UpdatePurchase(p, amount, item)
       PROVE  CostsInv'
  <2>1. PICK row \in PurchaseRow : row = [amount |-> amount, item |-> item]
    BY DEF PurchaseRow
  <2>2. SetPurchase(p, row, View) /\ UNCHANGED costing
    BY <1>11, <2>1 DEF CreatePurchase, UpdatePurchase
  <2> QED BY <1>1, <1>2, <2>1, <2>2, SetPurchaseInv
<1>12. ASSUME NEW p \in Purchase, NEW amount \in Cost, NEW item \in Item \cup {NoItem}, NEW r \in Costing,
              OverlappingPurchase(r, p, amount, item)
       PROVE  CostsInv'
  <2>1. PICK row \in PurchaseRow : row = [amount |-> amount, item |-> item]
    BY DEF PurchaseRow
  <2>2. costing[r] # NoView /\ SetPurchase(p, row, costing[r]) /\ ReleaseView(r)
    BY <1>12, <2>1 DEF OverlappingPurchase
  <2>3. ViewsStay /\ \E view : view = costing[r] /\ ViewKept(view)
    BY <1>3, <2>2
  <2> QED BY <2>1, <2>2, <2>3, SetPurchaseInv
<1>13. ASSUME NEW p \in Purchase, DeletePurchase(p) PROVE CostsInv'
  <2>1. SetPurchase(p, None, View) /\ UNCHANGED costing
    BY <1>13 DEF DeletePurchase
  <2>2. PICK none : none = None
    OBVIOUS
  <2> QED BY <1>1, <1>2, <2>1, <2>2, SetPurchaseInv
<1>14. ASSUME NEW r \in Costing, TakeView(r) PROVE CostsInv'
  <2>1. costing' = [costing EXCEPT ![r] = View]
        /\ UNCHANGED <<expenses, journal, debits, billed, purchases, actual, misread, outdated>>
    BY <1>14 DEF TakeView
  <2>2. costing' = [s \in Costing |-> costing'[s]] /\ \A s \in Costing : costing'[s] \in {costing[s], NoView, View}
    BY <2>1 DEF CostsInv, ViewsKept
  <2>3. billed' \in [Expense -> {"no", "open", "paid"}]
    BY <2>1 DEF CostsInv, CostsTypeOK
  <2> QED BY <2>1, <2>2, <2>3, CostsStay
<1>15. ASSUME NEW r \in Costing, NEW e \in Expense, OverlappingDelete(r, e) PROVE CostsInv'
  <2>1. costing[r] # NoView /\ Delete(e, costing[r]) /\ ReleaseView(r)
    BY <1>15 DEF OverlappingDelete
  <2>2. ViewsStay /\ \E view : view = costing[r] /\ ViewKept(view)
    BY <1>3, <2>1
  <2> QED BY <2>1, <2>2, DeleteInv
<1>16. CASE UNCHANGED costVars
  <2>1. UNCHANGED <<expenses, journal, debits, billed, purchases, actual, costing, misread, outdated>>
    BY <1>16 DEF costVars
  <2>2. billed' \in [Expense -> {"no", "open", "paid"}]
    BY <2>1 DEF CostsInv, CostsTypeOK
  <2>3. ViewsStay
    BY <1>2, <2>1
  <2> QED BY <2>1, <2>2, <2>3, CostsStay DEF ViewsStay
<1>17. CASE CostsNext
  BY <1>17, <1>4, <1>5, <1>6, <1>7, <1>8, <1>9, <1>10, <1>11, <1>12, <1>13, <1>14, <1>15 DEF CostsNext
<1> QED BY <1>16, <1>17

-----------------------------------------------------------------------------
\* What the ledger of expenses shows when no id begins with another.
LEMMA LedgerAddsUp ==
    ASSUME CostsInv, misread = {}, \A e \in Expense : Alone(e)
    PROVE  LedgerBalance = TotalExpense
               - TotalOf([e \in {f \in Rows(expenses) : expenses[f].source = "advance"} |-> expenses[e].amount])
<1>1. expenses \in ExpenseTable /\ journal \in Seq(JournalEntry)
  BY DEF CostsInv, CostsTypeOK, ExpenseTable
<1>2. PICK posted : posted = [i \in DOMAIN journal |-> journal[i].lines]
  OBVIOUS
<1>3. PICK key : key = [i \in DOMAIN journal |-> journal[i].of]
  OBVIOUS
<1>4. PICK owed : owed = [e \in Expense |-> Owed(e)]
  OBVIOUS
<1>5. Finitely(posted) /\ key \in [DOMAIN posted -> Expense] /\ DOMAIN posted = DOMAIN journal
  <2>1. IsFiniteSet(DOMAIN journal)
    <3>1. DOMAIN journal = 1 .. Len(journal) /\ Len(journal) \in Nat
      BY <1>1
    <3> QED BY <3>1, FS_Interval
  <2>2. \A i \in DOMAIN journal : journal[i] \in JournalEntry
    BY <1>1
  <2>3. \A i \in DOMAIN journal : journal[i].of \in Expense /\ journal[i].lines \in Int
    BY <2>2, EntryFacts
  <2> QED BY <1>2, <1>3, <2>1, <2>3 DEF Finitely
<1>6. \A e \in Expense : owed[e] = TotalOf(Part1(posted, WithKey(posted, key, e)))
  <2>1. ASSUME NEW e \in Expense PROVE owed[e] = TotalOf(Part1(posted, WithKey(posted, key, e)))
    <3>1. BookedIn(e, journal) = Owed(e)
      BY DEF CostsInv, ExpensesBooked, RowBooked, OwedFor, Owed
    <3>2. WithKey(posted, key, e) = {j \in DOMAIN journal : journal[j].of = e}
      BY <1>3, <1>5 DEF WithKey
    <3>3. Part1(posted, {j \in DOMAIN journal : journal[j].of = e})
              = [i \in {j \in DOMAIN journal : journal[j].of = e} |-> journal[i].lines]
      BY <1>2 DEF Part1
    <3> QED BY <1>4, <3>1, <3>2, <3>3 DEF BookedIn
  <2> QED BY <2>1
<1>7. DOMAIN owed = Expense
  BY <1>4
<1>8. TotalOf(owed) = LedgerBalance
  <2>1. TotalOf(owed) = TotalOf(posted)
    BY <1>5, <1>6, <1>7, TotalByKey, SourcesAreFinite
  <2> QED BY <1>2, <2>1 DEF LedgerBalance
<1>9. PICK whole : whole = [e \in Expense |-> IF expenses[e] = None THEN 0 ELSE expenses[e].amount]
  OBVIOUS
<1>10. PICK ahead : ahead = [e \in Expense |-> IF expenses[e] # None /\ expenses[e].source = "advance"
                                               THEN expenses[e].amount ELSE 0]
  OBVIOUS
<1>11. \A e \in Expense : expenses[e] = None \/ (expenses[e].amount \in Int /\ expenses[e].source \in {"entered", "advance"})
  BY <1>1, RowFacts DEF ExpenseTable
<1>12. Finitely(whole) /\ Finitely(ahead) /\ DOMAIN whole = Expense /\ DOMAIN ahead = Expense
  BY <1>9, <1>10, <1>11, SourcesAreFinite DEF Finitely
<1>13. \A e \in Expense : owed[e] = whole[e] - ahead[e]
  BY <1>4, <1>9, <1>10, <1>11 DEF Owed
<1>14. TotalOf(owed) = TotalOf(whole) - TotalOf(ahead)
  BY <1>7, <1>12, <1>13, TotalDifference
<1>15. TotalOf(whole) = TotalExpense
  <2>1. PICK f : f = [e \in Rows(expenses) |-> expenses[e].amount]
    OBVIOUS
  <2>2. /\ DOMAIN f \subseteq DOMAIN whole /\ \A x \in DOMAIN f : whole[x] = f[x]
        /\ \A x \in DOMAIN whole \ DOMAIN f : whole[x] = 0
    BY <1>1, <1>9, <2>1 DEF Rows, ExpenseTable
  <2> QED BY <2>1, <2>2, TotalWithZeros DEF TotalExpense
<1>16. TotalOf(ahead) = TotalOf([e \in {f \in Rows(expenses) : expenses[f].source = "advance"} |-> expenses[e].amount])
  <2>1. PICK f : f = [e \in {g \in Rows(expenses) : expenses[g].source = "advance"} |-> expenses[e].amount]
    OBVIOUS
  <2>2. /\ DOMAIN f \subseteq DOMAIN ahead /\ \A x \in DOMAIN f : ahead[x] = f[x]
        /\ \A x \in DOMAIN ahead \ DOMAIN f : ahead[x] = 0
    BY <1>1, <1>10, <2>1 DEF Rows, ExpenseTable
  <2> QED BY <2>1, <2>2, TotalWithZeros
<1> QED BY <1>8, <1>14, <1>15, <1>16

LEMMA CostsInvHolds == ASSUME CostsInv PROVE CostsTypeOK /\ ExpenseIsBookedAlone /\ ActualCostAddsUp
<1>1. \A e \in Expense \ misread : Alone(e) => Booked(e) = Owed(e) /\ debits[e] = Owed(e)
  BY DEF CostsInv, ExpensesBooked, RowBooked, BookedIn, OwedFor, Booked, Owed
<1> QED BY <1>1, LedgerAddsUp DEF CostsInv, ExpenseIsBookedAlone

\* However requests overlap, for any number of expenses, purchases and items: the entries
\* of an expense add up to its amount, unless one was booked from a view others had
\* overtaken, and an item's actual cost is what its sources add up to, unless the last
\* change did not see the others (expense.py, equipment.py, boq_calc.py).
THEOREM CostsAddUpAlways == CostsSpec => [](ExpenseIsBookedAlone /\ ActualCostAddsUp)
<1>1. CostsInit => CostsInv
  BY CostsInitInv
<1>2. CostsInv /\ [CostsNext]_costVars => CostsInv'
  BY CostsNextInv
<1>3. CostsInv => ExpenseIsBookedAlone /\ ActualCostAddsUp
  BY CostsInvHolds
<1> QED BY <1>1, <1>2, <1>3, PTL DEF CostsSpec

-----------------------------------------------------------------------------
(* The business side as a whole.                                            *)

\* The scene that is shown keeps its component's invariant.
BusinessInvs ==
    /\ scene \in Scene
    /\ scene = "fleet"       => FleetInv
    /\ scene = "costs"       => CostsInv
    /\ scene = "workforce"   => WorkforceInv
    /\ scene = "quotations"  => QuotationsInv
    /\ scene = "items"       => ItemsInv
    /\ scene = "ledger"      => LedgerInv
    /\ scene = "records"     => RecordsInv
    /\ scene = "contractors" => ContractorsInv
    /\ scene = "procurement" => ProcurementInv

LEMMA BusinessInvsInit == MCInit => BusinessInvs
BY FleetInitInv, CostsInitInv, WorkforceInitInv, QuotationsInitInv, ItemsInitInv, LedgerInitInv,
   RecordsInitInv, ContractorsInitInv, ProcurementInitInv DEF MCInit, BusinessInvs

LEMMA SceneSteps ==
    ASSUME [MCNext]_allVars
    PROVE  /\ scene' = scene
           /\ scene = "fleet"       => [FleetNext]_fleetVars
           /\ scene = "costs"       => [CostsNext]_costVars
           /\ scene = "workforce"   => [WorkforceNext]_workforceVars
           /\ scene = "quotations"  => [QuotationsNext]_quotationVars
           /\ scene = "items"       => [ItemsNext]_itemVars
           /\ scene = "ledger"      => [LedgerNext]_ledgerVars
           /\ scene = "records"     => [RecordsNext]_recordVars
           /\ scene = "contractors" => [ContractorsNext]_contractorVars
           /\ scene = "procurement" => [ProcurementNext]_procurementVars
           /\ scene # "workforce"   => UNCHANGED workforceVars
BY DEF MCNext, allVars

LEMMA BusinessInvsNext ==
    ASSUME BusinessInvs, [MCNext]_allVars
    PROVE  BusinessInvs'
<1>1. /\ scene' = scene
      /\ scene = "fleet"       => [FleetNext]_fleetVars
      /\ scene = "costs"       => [CostsNext]_costVars
      /\ scene = "workforce"   => [WorkforceNext]_workforceVars
      /\ scene = "quotations"  => [QuotationsNext]_quotationVars
      /\ scene = "items"       => [ItemsNext]_itemVars
      /\ scene = "ledger"      => [LedgerNext]_ledgerVars
      /\ scene = "records"     => [RecordsNext]_recordVars
      /\ scene = "contractors" => [ContractorsNext]_contractorVars
      /\ scene = "procurement" => [ProcurementNext]_procurementVars
  BY SceneSteps
<1>2. CASE scene = "fleet"
  BY <1>1, <1>2, FleetNextInv DEF BusinessInvs
<1>3. CASE scene = "quotations"
  BY <1>1, <1>3, QuotationsNextInv DEF BusinessInvs
<1>4. CASE scene = "items"
  BY <1>1, <1>4, ItemsNextInv DEF BusinessInvs
<1>5. CASE scene = "contractors"
  BY <1>1, <1>5, ContractorsNextInv DEF BusinessInvs
<1>6. CASE scene = "procurement"
  BY <1>1, <1>6, ProcurementNextInv DEF BusinessInvs
<1>7. CASE scene = "costs"
  BY <1>1, <1>7, CostsNextInv DEF BusinessInvs
<1>8. CASE scene = "workforce"
  BY <1>1, <1>8, WorkforceNextInv DEF BusinessInvs
<1>9. CASE scene = "ledger"
  BY <1>1, <1>9, LedgerNextInv DEF BusinessInvs
<1>10. CASE scene = "records"
  BY <1>1, <1>10, RecordsNextInv DEF BusinessInvs
<1>11. scene \in {"fleet", "costs", "workforce", "quotations", "items", "ledger", "records", "contractors", "procurement"}
  BY DEF BusinessInvs, Scene
<1> QED BY <1>2, <1>3, <1>4, <1>5, <1>6, <1>7, <1>8, <1>9, <1>10, <1>11

LEMMA BusinessInvsAlways == MCSpec => []BusinessInvs
BY BusinessInvsInit, BusinessInvsNext, PTL DEF MCSpec

\* Every table keeps its columns' types, for any number of rows and requests.
THEOREM BusinessTypesAlways == MCSpec => []BusinessTypesOK
<1>1. BusinessInvs => BusinessTypesOK
  <2> SUFFICES ASSUME BusinessInvs PROVE BusinessTypesOK
    OBVIOUS
  <2>1. scene = "fleet" => FleetTypeOK
    BY DEF BusinessInvs, FleetInv
  <2>2. scene = "costs" => CostsTypeOK
    BY DEF BusinessInvs, CostsInv
  <2>3. scene = "workforce" => WorkforceTypeOK
    BY WorkforceInvHolds DEF BusinessInvs
  <2>4. scene = "quotations" => QuotationsTypeOK
    BY QuotationsInvHolds DEF BusinessInvs
  <2>5. scene = "ledger" => LedgerTypeOK
    BY DEF BusinessInvs, LedgerInv
  <2>6. scene = "records" => RecordsTypeOK
    BY RecordsInvHolds DEF BusinessInvs
  <2>7. scene = "contractors" => ContractorsTypeOK
    BY ContractorsInvHolds DEF BusinessInvs
  <2>8. scene = "procurement" => ProcurementTypeOK
    BY DEF BusinessInvs, ProcurementInv, ProcurementShaped
  <2> QED BY <2>1, <2>2, <2>3, <2>4, <2>5, <2>6, <2>7, <2>8 DEF BusinessTypesOK
<1> QED BY <1>1, BusinessInvsAlways, PTL

\* What was spent, earned or paid is in the books once and the books add up, for any
\* number of expenses, labourers, accounts, entries, bank lines and contractors' bills and
\* any overlap of requests, but for the orders each component's property names (expense.py,
\* labour.py, accountant.py, contractor.py).
THEOREM MoneyIsBookedAlways == MCSpec => []MoneyIsBooked
<1>1. BusinessInvs => MoneyIsBooked
  <2> SUFFICES ASSUME BusinessInvs PROVE MoneyIsBooked
    OBVIOUS
  <2>1. scene = "costs" => ExpenseIsBookedAlone /\ ActualCostAddsUp
    BY CostsInvHolds DEF BusinessInvs
  <2>2. scene = "workforce" => PaidWithinEarned /\ DayAccruedOnce /\ ReportedAsPaid
    BY WorkforceInvHolds DEF BusinessInvs
  <2>3. scene = "ledger" => BooksClose /\ BalancesAgree /\ EachDateOnce /\ WaitingIsAsked /\ VouchersBooked
    BY LedgerInvHolds DEF BusinessInvs
  <2>4. scene = "records" => RecordedOnce
    BY RecordsInvHolds DEF BusinessInvs
  <2>5. scene = "contractors" => BillsPaidOnce /\ GivenIsBooked
    BY ContractorsInvHolds DEF BusinessInvs
  <2> QED BY <2>1, <2>2, <2>3, <2>4, <2>5 DEF MoneyIsBooked
<1> QED BY <1>1, BusinessInvsAlways, PTL

\* What was agreed holds, for any number of machines, rentals, quotations, items and
\* suppliers and any overlap of requests: a machine is let or on site and let to one at a
\* time, a quotation is what was approved and one is active, what is ordered is what was
\* asked for from a supplier who is there (equipment.py, quotation.py, material.py).
THEOREM AgreementsStandAlways == MCSpec => []AgreementsStand
<1>1. BusinessInvs => AgreementsStand
  BY FleetInvHolds, QuotationsInvHolds, ShortagesSeen
     DEF BusinessInvs, AgreementsStand, ItemsInv, ProcurementInv, ProcurementShaped
<1> QED BY <1>1, BusinessInvsAlways, PTL

\* Payroll that has left its draft keeps its total and only gains payments, whatever
\* attendance, advances and other payrolls are written meanwhile (labour.py).
THEOREM PayrollStandsAlways == MCSpec => PayrollStands
<1>1. BusinessInvs /\ [MCNext]_allVars =>
        [\A l \in Labourer : payroll[l] # NoRow /\ payroll[l].status # "Draft" =>
           /\ payroll'[l].total = payroll[l].total
           /\ payroll'[l].paid >= payroll[l].paid
           /\ payroll[l].status \in {"Partial", "Paid"} =>
                  payroll'[l].status \in {payroll[l].status, "Paid"}]_workforceVars
  <2> SUFFICES ASSUME BusinessInvs, [MCNext]_allVars PROVE PayrollKeeps \/ UNCHANGED workforceVars
    BY DEF PayrollKeeps
  <2>1. CASE scene = "workforce"
    <3>1. WorkforceInv /\ [WorkforceNext]_workforceVars
      BY <2>1, SceneSteps DEF BusinessInvs
    <3> QED BY <3>1, PayrollStepStands
  <2>2. CASE scene # "workforce"
    BY <2>2, SceneSteps
  <2> QED BY <2>1, <2>2
<1> QED BY <1>1, BusinessInvsAlways, PTL DEF MCSpec, PayrollStands
=============================================================================
