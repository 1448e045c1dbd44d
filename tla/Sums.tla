-------------------------------- MODULE Sums --------------------------------
(***************************************************************************)
(* The total of a function's values, and what the proofs need of it.        *)
(*                                                                         *)
(* A natural number is counted unit by unit, so a total of naturals is the  *)
(* cardinality of a set; of integers it is what is above zero less what is  *)
(* below.  Nothing here is recursive: what a step does to a total follows   *)
(* from the theorems on finite sets.                                        *)
(***************************************************************************)
EXTENDS Integers, FiniteSets, FiniteSetTheorems, TLAPS

\* A negative value has no units.
UnitsOf(f) == UNION {{x} \X (1..f[x]) : x \in DOMAIN f}
Opposite(f) == [x \in DOMAIN f |-> -f[x]]
TotalOf(f) == Cardinality(UnitsOf(f)) - Cardinality(UnitsOf(Opposite(f)))

-----------------------------------------------------------------------------
\* f is a table of numbers with finitely many rows.
Finitely(f) == IsFiniteSet(DOMAIN f) /\ \A x \in DOMAIN f : f[x] \in Int

\* The units of one row.
LEMMA RowUnits ==
    ASSUME NEW x, NEW n \in Int
    PROVE  /\ IsFiniteSet({x} \X (1..n))
           /\ Cardinality({x} \X (1..n)) = IF n > 0 THEN n ELSE 0
<1>1. IsFiniteSet({x}) /\ Cardinality({x}) = 1
  BY FS_Singleton
<1>2. IsFiniteSet(1..n) /\ Cardinality(1..n) = IF n > 0 THEN n ELSE 0
  BY FS_Interval
<1>3. /\ IsFiniteSet({x} \X (1..n))
      /\ Cardinality({x} \X (1..n)) = Cardinality({x}) * Cardinality(1..n)
  BY <1>1, <1>2, FS_Product
<1> QED BY <1>1, <1>2, <1>3

LEMMA UnitsFinite ==
    ASSUME NEW f, Finitely(f)
    PROVE  IsFiniteSet(UnitsOf(f)) /\ Cardinality(UnitsOf(f)) \in Nat
<1> DEFINE T == {{x} \X (1..f[x]) : x \in DOMAIN f}
           h == [x \in DOMAIN f |-> {x} \X (1..f[x])]
<1>1. h \in Surjection(DOMAIN f, T)
  BY DEF Surjection
<1>2. IsFiniteSet(T)
  BY <1>1, FS_Surjection DEF Finitely
<1>3. \A t \in T : IsFiniteSet(t)
  BY RowUnits DEF Finitely
<1>4. IsFiniteSet(UnitsOf(f))
  BY <1>2, <1>3, FS_UNION DEF UnitsOf
<1> QED BY <1>4, FS_CardinalityType

LEMMA OppositeFinitely ==
    ASSUME NEW f, Finitely(f)
    PROVE  Finitely(Opposite(f)) /\ DOMAIN Opposite(f) = DOMAIN f
BY DEF Finitely, Opposite

LEMMA TotalInt == ASSUME NEW f, Finitely(f) PROVE TotalOf(f) \in Int
BY UnitsFinite, OppositeFinitely DEF TotalOf

\* A row more.
LEMMA UnitsGrown ==
    ASSUME NEW f, NEW g, NEW x, Finitely(f), x \notin DOMAIN f,
           DOMAIN g = DOMAIN f \cup {x}, g[x] \in Int, \A y \in DOMAIN f : g[y] = f[y]
    PROVE  Cardinality(UnitsOf(g)) = Cardinality(UnitsOf(f)) + IF g[x] > 0 THEN g[x] ELSE 0
<1> DEFINE R == {x} \X (1..g[x])
<1>1. UnitsOf(g) = UnitsOf(f) \cup R
  BY DEF UnitsOf
<1>2. UnitsOf(f) \cap R = {}
  BY DEF UnitsOf
<1>3. IsFiniteSet(UnitsOf(f)) /\ Cardinality(UnitsOf(f)) \in Nat
  BY UnitsFinite
<1>4. IsFiniteSet(R) /\ Cardinality(R) = IF g[x] > 0 THEN g[x] ELSE 0
  BY RowUnits
<1>5. Cardinality(UnitsOf(f) \cup R) = Cardinality(UnitsOf(f)) + Cardinality(R) - Cardinality({})
  BY <1>2, <1>3, <1>4, FS_Union
<1> HIDE DEF R
<1> QED BY <1>1, <1>3, <1>4, <1>5, FS_EmptySet

LEMMA TotalGrown ==
    ASSUME NEW f, NEW g, NEW x, Finitely(f), x \notin DOMAIN f,
           DOMAIN g = DOMAIN f \cup {x}, g[x] \in Int, \A y \in DOMAIN f : g[y] = f[y]
    PROVE  Finitely(g) /\ TotalOf(g) = TotalOf(f) + g[x]
<1>1. Finitely(g)
  BY FS_AddElement DEF Finitely
<1>2. Cardinality(UnitsOf(g)) = Cardinality(UnitsOf(f)) + IF g[x] > 0 THEN g[x] ELSE 0
  BY UnitsGrown
<1>3. Finitely(Opposite(f)) /\ DOMAIN Opposite(f) = DOMAIN f
  BY OppositeFinitely
<1>4. /\ DOMAIN Opposite(g) = DOMAIN Opposite(f) \cup {x}
      /\ Opposite(g)[x] = -g[x]
      /\ \A y \in DOMAIN Opposite(f) : Opposite(g)[y] = Opposite(f)[y]
  BY DEF Opposite
<1>5. Cardinality(UnitsOf(Opposite(g))) = Cardinality(UnitsOf(Opposite(f)))
                                        + IF -g[x] > 0 THEN -g[x] ELSE 0
  BY <1>3, <1>4, UnitsGrown
<1>6. Cardinality(UnitsOf(f)) \in Nat /\ Cardinality(UnitsOf(Opposite(f))) \in Nat
  BY <1>3, UnitsFinite
<1> QED BY <1>1, <1>2, <1>5, <1>6 DEF TotalOf

\* A row with another value.
LEMMA TotalChanged ==
    ASSUME NEW f, NEW g, NEW x \in DOMAIN f, Finitely(f),
           DOMAIN g = DOMAIN f, g[x] \in Int, \A y \in DOMAIN f : y # x => g[y] = f[y]
    PROVE  Finitely(g) /\ TotalOf(g) = TotalOf(f) - f[x] + g[x]
<1> DEFINE rest == [y \in DOMAIN f \ {x} |-> f[y]]
<1>1. /\ DOMAIN rest = DOMAIN f \ {x} /\ x \notin DOMAIN rest
      /\ DOMAIN f = DOMAIN rest \cup {x}
      /\ \A y \in DOMAIN rest : rest[y] = f[y] /\ rest[y] = g[y]
  OBVIOUS
<1>2. Finitely(rest)
  <2>1. IsFiniteSet(DOMAIN f \ {x})
    BY FS_RemoveElement DEF Finitely
  <2> QED BY <1>1, <2>1 DEF Finitely
<1> HIDE DEF rest
<1>3. ASSUME NEW h, DOMAIN h = DOMAIN rest \cup {x}, h[x] \in Int,
             \A y \in DOMAIN rest : h[y] = rest[y]
      PROVE  Finitely(h) /\ TotalOf(h) = TotalOf(rest) + h[x]
  BY <1>1, <1>2, <1>3, TotalGrown
<1>4. /\ TotalOf(f) = TotalOf(rest) + f[x]
      /\ Finitely(g) /\ TotalOf(g) = TotalOf(rest) + g[x]
  BY <1>1, <1>3 DEF Finitely
<1>5. TotalOf(rest) \in Int /\ f[x] \in Int
  BY <1>2, TotalInt DEF Finitely
<1> QED BY <1>4, <1>5

\* The same rows.
LEMMA TotalSame ==
    ASSUME NEW f, NEW g, DOMAIN g = DOMAIN f, \A y \in DOMAIN f : g[y] = f[y]
    PROVE  TotalOf(g) = TotalOf(f)
<1>1. UnitsOf(g) = UnitsOf(f)
  BY DEF UnitsOf
<1>2. UnitsOf(Opposite(g)) = UnitsOf(Opposite(f))
  BY DEF UnitsOf, Opposite
<1> QED BY <1>1, <1>2 DEF TotalOf

\* Nothing but zeros.
LEMMA TotalZero ==
    ASSUME NEW f, \A y \in DOMAIN f : f[y] = 0
    PROVE  TotalOf(f) = 0
<1>1. UnitsOf(f) = {}
  BY DEF UnitsOf
<1>2. UnitsOf(Opposite(f)) = {}
  BY DEF UnitsOf, Opposite
<1> QED BY <1>1, <1>2, FS_EmptySet DEF TotalOf

\* Naturals have a natural total.
LEMMA TotalNat ==
    ASSUME NEW f, Finitely(f), \A y \in DOMAIN f : f[y] \in Nat
    PROVE  TotalOf(f) \in Nat /\ TotalOf(f) = Cardinality(UnitsOf(f))
<1>1. UnitsOf(Opposite(f)) = {}
  BY DEF UnitsOf, Opposite
<1>2. Cardinality(UnitsOf(f)) \in Nat
  BY UnitsFinite
<1> QED BY <1>1, <1>2, FS_EmptySet DEF TotalOf

\* No row of a table of naturals is above their total.
LEMMA TotalAtLeast ==
    ASSUME NEW f, NEW x \in DOMAIN f, Finitely(f), \A y \in DOMAIN f : f[y] \in Nat
    PROVE  f[x] <= TotalOf(f)
<1> DEFINE g == [y \in DOMAIN f |-> IF y = x THEN 0 ELSE f[y]]
<1>1. Finitely(g) /\ TotalOf(g) = TotalOf(f) - f[x] + g[x]
  <2>1. DOMAIN g = DOMAIN f /\ g[x] = 0 /\ \A y \in DOMAIN f : y # x => g[y] = f[y]
    OBVIOUS
  <2> HIDE DEF g
  <2> QED BY <2>1, TotalChanged
<1>2. TotalOf(g) \in Nat
  <2>1. \A y \in DOMAIN g : g[y] \in Nat
    OBVIOUS
  <2> HIDE DEF g
  <2> QED BY <1>1, <2>1, TotalNat
<1>3. TotalOf(f) \in Int /\ f[x] \in Int /\ g[x] = 0
  BY TotalInt
<1> HIDE DEF g
<1> QED BY <1>1, <1>2, <1>3
=============================================================================
