------------------------------ MODULE QuotedItems ------------------------------
(***************************************************************************)
(* How the amount of a quotation's item comes about: its unit, measurement  *)
(* and rate, each of which can be changed on its own (app/api/quotation.py),*)
(* and the totals of a dummy quotation, which is previewed before it is     *)
(* saved (app/api/dummy_quotation.py).                                      *)
(*                                                                         *)
(* An item has one measurement here, and a dummy quotation one amount of    *)
(* items; a percentage is a multiple of the amount.  Rounding is left out.  *)
(***************************************************************************)
EXTENDS Integers

CONSTANTS
    QuotedUnit,      \* units the code knows
    FamilyOf,        \* get_unit_family
    ScaleOf,         \* how many of the unit are in one of its family
    Size,            \* lengths, widths, heights and counts of a measurement
    Price,           \* rates
    Percent2         \* percentages of tax, even numbers

Family == {"volumetric", "area", "linear", "count", "weight_kg", "weight_ton", "lump_sum"}
ASSUME UnitAssumption == FamilyOf \in [QuotedUnit -> Family] /\ ScaleOf \in [QuotedUnit -> Nat]
ASSUME SizeAssumption == Size \subseteq Nat /\ Price \subseteq Nat
ASSUME PercentAssumption == \A p \in Percent2 : p \in Nat /\ p % 2 = 0

VARIABLES
    quoted,          \* the row of the item
    entered,         \* history: the measurement last entered for it
    dummy            \* dummy_quotations

itemVars == <<quoted, entered, dummy>>

Measurement == [length : Size, width : Size, height : Size, count : Size]
NoQuotedItem == [unit |-> "none"]
NoDummy == [saved |-> FALSE, cgst |-> 0, sgst |-> 0]

Dimensional == {"volumetric", "area", "linear"}
\* Counts, weights and lump sums are what was counted.
Measured(unit, m) ==
    CASE FamilyOf[unit] = "volumetric" -> m.length * m.width * m.height * ScaleOf[unit]
      [] FamilyOf[unit] = "area" -> m.length * m.width * ScaleOf[unit]
      [] FamilyOf[unit] = "linear" -> m.length * ScaleOf[unit]
      [] FamilyOf[unit] = "lump_sum" -> IF m.count > 0 THEN m.count ELSE 1
      [] OTHER -> m.count
ValidFor(unit, m) ==
    CASE FamilyOf[unit] = "volumetric" -> m.length > 0 /\ m.width > 0 /\ m.height > 0
      [] FamilyOf[unit] = "area" -> m.length > 0 /\ m.width > 0
      [] FamilyOf[unit] = "linear" -> m.length > 0
      [] FamilyOf[unit] = "lump_sum" -> TRUE
      [] OTHER -> m.count > 0

\* The measurement stored keeps its sizes; its count becomes the quantity.
Priced1(unit, m, rate) ==
    [unit |-> unit, measurement |-> [m EXCEPT !.count = Measured(unit, m)],
     rate |-> rate, quantity |-> Measured(unit, m), amount |-> Measured(unit, m) * rate]

ItemsInit ==
    /\ quoted = NoQuotedItem /\ entered = NoQuotedItem
    /\ dummy = NoDummy

CreateItem(unit, m, rate) ==
    /\ quoted = NoQuotedItem /\ rate > 0 /\ ValidFor(unit, m)
    /\ quoted' = Priced1(unit, m, rate) /\ entered' = m
    /\ UNCHANGED dummy

Remeasure(unit, m, rate) ==
    /\ quoted # NoQuotedItem /\ ValidFor(unit, m)
    /\ quoted' = Priced1(unit, m, rate) /\ entered' = m
    /\ UNCHANGED dummy

\* Without a new measurement, only sizes can be converted.
\* Mutant: anything can.
ConvertibleAny(old, new) == TRUE
Convertible(old, new) ==
    FamilyOf[old] = FamilyOf[new] \/ {FamilyOf[old], FamilyOf[new]} \subseteq Dimensional
ChangeUnit(unit, rate) ==
    /\ quoted # NoQuotedItem /\ unit # quoted.unit
    /\ Convertible(quoted.unit, unit) /\ ValidFor(unit, quoted.measurement)
    /\ quoted' = Priced1(unit, quoted.measurement, rate)
    /\ UNCHANGED <<entered, dummy>>

\* Mutant: the amount stays.
RatedOnly(row, rate) == [row EXCEPT !.rate = rate]
Rated(row, rate) == [row EXCEPT !.rate = rate, !.amount = row.quantity * rate]
ChangeRate(rate) ==
    /\ quoted # NoQuotedItem
    /\ quoted' = Rated(quoted, rate)
    /\ UNCHANGED <<entered, dummy>>

-----------------------------------------------------------------------------
\* GST given alone is split into two halves, which are what is stored.
\* Mutant: the percentages given are stored, the halves are only used.
SplitUsed(row) == row
Split(row) ==
    IF row.gst > 0 /\ row.cgst = 0 /\ row.sgst = 0
    THEN [row EXCEPT !.cgst = row.gst \div 2, !.sgst = row.gst \div 2] ELSE row
TaxOf(row) ==
    row.subtotal * (IF row.gst > 0 /\ row.cgst = 0 /\ row.sgst = 0 THEN row.gst
                    ELSE row.cgst + row.sgst)
DummyTotals(row) == [Split(row) EXCEPT !.total = row.subtotal + TaxOf(row) + row.other]

Percents == [subtotal : Size, gst : Percent2, cgst : Percent2, sgst : Percent2, other : Size]
RowOf(content) ==
    [saved |-> TRUE, subtotal |-> content.subtotal, gst |-> content.gst,
     cgst |-> content.cgst, sgst |-> content.sgst, other |-> content.other, total |-> 0]
\* A preview saves nothing; creating computes the same.
PreviewDummy(content) == DummyTotals(RowOf(content))

CreateDummy(content) ==
    /\ dummy = NoDummy
    /\ dummy' = PreviewDummy(content)
    /\ UNCHANGED <<quoted, entered>>
\* Some of the columns, or new items, or both; the others keep what was stored.
UpdateDummy(subtotal, gst, cgst, sgst, other) ==
    /\ dummy # NoDummy
    /\ dummy' = DummyTotals([dummy EXCEPT !.subtotal = subtotal, !.gst = gst,
                                 !.cgst = cgst, !.sgst = sgst, !.other = other])
    /\ UNCHANGED <<quoted, entered>>
DeleteDummy ==
    /\ dummy # NoDummy
    /\ dummy' = NoDummy
    /\ UNCHANGED <<quoted, entered>>

ItemsNext ==
    \/ \E unit \in QuotedUnit, m \in Measurement, rate \in Price :
           CreateItem(unit, m, rate) \/ Remeasure(unit, m, rate)
    \/ \E unit \in QuotedUnit, rate \in Price : ChangeUnit(unit, rate)
    \/ \E rate \in Price : ChangeRate(rate)
    \/ \E content \in Percents :
           CreateDummy(content)
    \/ \E subtotal, other \in Size, gst \in Percent2,
          cgst \in Percent2 \cup {dummy.cgst}, sgst \in Percent2 \cup {dummy.sgst} :
           UpdateDummy(subtotal, gst, cgst, sgst, other)
    \/ DeleteDummy
ItemsSpec == ItemsInit /\ [][ItemsNext]_itemVars

-----------------------------------------------------------------------------
\* An item costs its rate times what was measured for it, in its unit, whichever of
\* unit, measurement and rate was changed, and in whatever order; its measurement
\* still is one the unit accepts.
ItemFollowsUnit ==
    quoted # NoQuotedItem =>
        /\ quoted.quantity = Measured(quoted.unit, entered)
        /\ quoted.amount = quoted.quantity * quoted.rate
        /\ ValidFor(quoted.unit, quoted.measurement)

\* The tax in the total of a saved dummy quotation is that of the two percentages saved
\* with it, however it was entered: as two halves or as one GST.
SavedTaxShown ==
    dummy # NoDummy =>
        dummy.total = dummy.subtotal * (1 + dummy.cgst + dummy.sgst) + dummy.other
=============================================================================
