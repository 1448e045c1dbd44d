----------------------------- MODULE Procurement -----------------------------
(***************************************************************************)
(* Suppliers, the materials bought from them, purchase orders and their      *)
(* approval, and what the stock reports say (app/api/material.py,            *)
(* app/api/approval.py).                                                     *)
(*                                                                         *)
(* A handler reads in a snapshot, checks, writes and commits; of those here  *)
(* only update_material locks its row.  BeginRead takes a view, and a commit *)
(* decides on it.  What a view that is out of date let through is in stale.  *)
(***************************************************************************)
EXTENDS Integers, FiniteSets

CONSTANTS
    Supplier, CompanyOf,  \* suppliers, and the company each belongs to
    Contact, NoContact,   \* values of gst_number and phone_email
    Bought,               \* materials
    Order,                \* purchase orders
    Quantity,             \* quantities of orders and of the stock
    Minimum,              \* minimum_stock_level of every material
    Span,                 \* target_days of the recommendations
    Ordering,             \* slots of requests that overlap others
    MaxPurchase,          \* bound: quantity_purchased
    MaxProcessed          \* bound: requests handled

ASSUME ProcurementAssumption ==
    /\ Quantity \subseteq Nat /\ Minimum \in Nat /\ Span \in Nat \ {0} /\ MaxPurchase \in Nat /\ MaxProcessed \in Nat
    /\ NoContact \notin Contact
    /\ Supplier # {} /\ Bought # {} /\ IsFiniteSet(Bought) /\ Quantity # {}

VARIABLES
    suppliers,       \* the suppliers table: contact, is_deleted
    stocked,         \* the materials table
    orders,          \* the purchase_orders table
    asked,           \* approvals on orders: what was asked for when the last request was made
    reading,         \* the view an overlapping request has taken
    stale,           \* history: rows a request wrote on a view that was out of date
    processed        \* how many requests were handled

procurementVars == <<suppliers, stocked, orders, asked, reading, stale, processed>>

SupplierRow == [live : BOOLEAN, contact : Contact \cup {NoContact}]
NoSupplierRow == [live |-> FALSE, contact |-> NoContact]
OrderStatus == {"CREATED", "PENDING", "APPROVED", "REJECTED"}
OrderRow == [status : OrderStatus \cup {"none", "deleted"},
             material : Bought, supplier : Supplier, quantity : Quantity]
StockedRow == [live : BOOLEAN, supplier : Supplier, purchased : Nat, used : Nat]

Tables == [suppliers |-> suppliers, stocked |-> stocked, orders |-> orders]
NoTables == [suppliers |-> {}]

Arbitrary(S) == CHOOSE x \in S : TRUE
ProcurementInit ==
    /\ suppliers = [s \in Supplier |-> NoSupplierRow]
    /\ stocked = [m \in Bought |-> [live |-> FALSE, supplier |-> Arbitrary(Supplier),
                                    purchased |-> 0, used |-> 0]]
    /\ orders = [o \in Order |-> [status |-> "none", material |-> Arbitrary(Bought),
                                  supplier |-> Arbitrary(Supplier),
                                  quantity |-> Arbitrary(Quantity)]]
    /\ asked = [o \in Order |-> {}]
    /\ reading = [r \in Ordering |-> NoTables]
    /\ stale = {}
    /\ processed = 0

Stale(x, old, new) == stale' = IF old = new THEN stale ELSE stale \cup {x}

-----------------------------------------------------------------------------
(* Suppliers.                                                                *)

\* Mutant: the contacts of deleted suppliers only are compared.
ContactFreeOfDeleted(s, c, view) ==
    \A t \in Supplier \ {s} : view.suppliers[t].contact = c => view.suppliers[t].live
ContactFree(s, c, view) ==
    c # NoContact => \A t \in Supplier \ {s} :
        view.suppliers[t].live /\ view.suppliers[t].contact = c => CompanyOf[t] # CompanyOf[s]
CreateSupplier(s, c, view) ==
    /\ suppliers[s] = NoSupplierRow
    /\ ContactFree(s, c, view)
    /\ suppliers' = [suppliers EXCEPT ![s] = [live |-> TRUE, contact |-> c]]
    /\ Stale(s, view.suppliers, suppliers)
    /\ UNCHANGED <<stocked, orders, asked>>
\* The update compares the suppliers of every company.
UpdateSupplier(s, c, view) ==
    /\ view.suppliers[s].live
    /\ c # NoContact => \A t \in Supplier \ {s} :
           ~(view.suppliers[t].live /\ view.suppliers[t].contact = c)
    /\ suppliers' = [suppliers EXCEPT ![s].contact = c]
    /\ Stale(s, view.suppliers, suppliers)
    /\ UNCHANGED <<stocked, orders, asked>>
\* Mutant: nobody asks whether a material uses the supplier.
InUseNever(s, view) == FALSE
InUseBy(s, view) == \E m \in Bought : view.stocked[m].live /\ view.stocked[m].supplier = s
DeleteSupplier(s, view) ==
    /\ view.suppliers[s].live
    /\ ~InUseBy(s, view)
    /\ suppliers' = [suppliers EXCEPT ![s].live = FALSE]
    /\ Stale(s, view.stocked, stocked)
    /\ UNCHANGED <<stocked, orders, asked>>

-----------------------------------------------------------------------------
(* Materials, as far as orders and reports need them; MaterialStock has the  *)
(* movements of the stock.                                                   *)

AddMaterial(m, s, n) ==
    /\ ~stocked[m].live /\ suppliers[s].live
    /\ stocked' = [stocked EXCEPT ![m] =
           [live |-> TRUE, supplier |-> s, purchased |-> n, used |-> 0]]
    /\ UNCHANGED <<suppliers, orders, asked, stale>>
\* A material can be moved to a supplier that is deleted.
MoveMaterial(m, s) ==
    /\ stocked[m].live /\ s # stocked[m].supplier
    /\ stocked' = [stocked EXCEPT ![m].supplier = s]
    /\ stale' = IF suppliers[s].live THEN stale ELSE stale \cup {s}
    /\ UNCHANGED <<suppliers, orders, asked>>
Receive(m, n) ==
    /\ stocked[m].live /\ stocked[m].purchased + n <= MaxPurchase
    /\ stocked' = [stocked EXCEPT ![m].purchased = @ + n]
    /\ UNCHANGED <<suppliers, orders, asked, stale>>
Use(m, n) ==
    /\ stocked[m].live /\ stocked[m].used + n <= stocked[m].purchased
    /\ stocked' = [stocked EXCEPT ![m].used = @ + n]
    /\ UNCHANGED <<suppliers, orders, asked, stale>>
RemoveMaterial(m) ==
    /\ stocked[m].live
    /\ stocked' = [stocked EXCEPT ![m].live = FALSE]
    /\ UNCHANGED <<suppliers, orders, asked, stale>>

-----------------------------------------------------------------------------
(* Purchase orders.                                                          *)

\* A supplier and a material that belong together; either may be deleted.
OrderContent(row) == [material |-> row.material, supplier |-> row.supplier, quantity |-> row.quantity]
Belongs(m, s, n, view) == n > 0 /\ view.stocked[m].supplier = s
CreatePO(o, m, s, n, view) ==
    /\ orders[o].status = "none"
    /\ Belongs(m, s, n, view)
    /\ orders' = [orders EXCEPT ![o] =
           [status |-> "CREATED", material |-> m, supplier |-> s, quantity |-> n]]
    /\ UNCHANGED <<suppliers, stocked, asked, stale>>

\* Mutant: an order that waits for its approval can still be edited.
EditableOrderUntilApproved(o, view) == view.orders[o].status \in {"CREATED", "PENDING", "REJECTED"}
EditableOrder(o, view) == view.orders[o].status \in {"CREATED", "REJECTED"}
UpdatePO(o, m, s, n, view) ==
    /\ EditableOrder(o, view)
    /\ Belongs(m, s, n, view)
    /\ orders' = [orders EXCEPT
           ![o].material = m, ![o].supplier = s, ![o].quantity = n]
    /\ Stale(o, view.orders[o], orders[o])
    /\ UNCHANGED <<suppliers, stocked, asked>>
DeletePO(o, view) ==
    /\ EditableOrder(o, view)
    /\ orders' = [orders EXCEPT ![o].status = "deleted"]
    /\ Stale(o, view.orders[o], orders[o])
    /\ UNCHANGED <<suppliers, stocked, asked>>

\* create_approval on an order: no other pending request, CREATED or REJECTED
RequestPO(o, view) ==
    /\ view.orders[o].status \in {"CREATED", "REJECTED"}
    /\ orders' = [orders EXCEPT ![o].status = "PENDING"]
    /\ asked' = [asked EXCEPT ![o] = {OrderContent(view.orders[o])}]
    /\ Stale(o, view.orders[o], orders[o])
    /\ UNCHANGED <<suppliers, stocked>>
DecidePO(o, verdict, view) ==
    /\ view.orders[o].status = "PENDING"
    /\ orders' = [orders EXCEPT ![o].status = verdict]
    /\ Stale(o, view.orders[o], orders[o])
    /\ UNCHANGED <<suppliers, stocked, asked>>

-----------------------------------------------------------------------------
Request(view) ==
    \/ \E s \in Supplier :
        \/ \E c \in Contact \cup {NoContact} : CreateSupplier(s, c, view) \/ UpdateSupplier(s, c, view)
        \/ DeleteSupplier(s, view)
        \/ \E o \in Order, m \in Bought, n \in Quantity :
            CreatePO(o, m, s, n, view) \/ UpdatePO(o, m, s, n, view)
    \/ \E o \in Order :
        \/ DeletePO(o, view)
        \/ RequestPO(o, view)
        \/ \E verdict \in {"APPROVED", "REJECTED"} : DecidePO(o, verdict, view)
Process == processed < MaxProcessed /\ processed' = processed + 1
BeginRead(r) ==
    /\ reading[r] = NoTables /\ processed < MaxProcessed
    /\ reading' = [reading EXCEPT ![r] = Tables]
    /\ UNCHANGED <<suppliers, stocked, orders, asked, stale, processed>>
CommitRead(r) ==
    /\ reading[r] # NoTables
    /\ Request(reading[r])
    /\ reading' = [reading EXCEPT ![r] = NoTables]
    /\ Process

ProcurementNext ==
    \/ Request(Tables) /\ UNCHANGED reading /\ Process
    \/ /\ \E m \in Bought :
           \/ \E s \in Supplier : (\E n \in Quantity : AddMaterial(m, s, n)) \/ MoveMaterial(m, s)
           \/ \E n \in Quantity \ {0} : Receive(m, n) \/ Use(m, n)
           \/ RemoveMaterial(m)
       /\ UNCHANGED reading /\ Process
    \/ \E r \in Ordering : BeginRead(r) \/ CommitRead(r)
ProcurementSpec == ProcurementInit /\ [][ProcurementNext]_procurementVars

ProcurementTypeOK ==
    /\ suppliers \in [Supplier -> SupplierRow] /\ stocked \in [Bought -> StockedRow]
    /\ orders \in [Order -> OrderRow]
    /\ \A o \in Order : asked[o] \subseteq {OrderContent(row) : row \in OrderRow}

-----------------------------------------------------------------------------
(* The reports on the stock.                                                 *)

OrZero(n) == IF n > 0 THEN n ELSE 0
Left(m) == OrZero(stocked[m].purchased - stocked[m].used)
LiveStock == {m \in Bought : stocked[m].live}
\* build_material_response and get_alert_type
StockAlert(m) ==
    IF Left(m) = 0 THEN "OUT_OF_STOCK" ELSE IF Left(m) <= Minimum THEN "LOW_STOCK" ELSE "IN_STOCK"
\* get_material_alerts, without a threshold
Alerted == {m \in LiveStock : Left(m) <= Minimum}
\* material_report's counts
ReportCount(kind) == Cardinality({m \in LiveStock : StockAlert(m) = kind})
\* Mutant: what was never used lasts for ever, also when there is nothing left.
LastsAtMostIfUsed(m, days) == stocked[m].used # 0 /\ Left(m) * Span <= days * stocked[m].used
\* generate_material_recommendations: the stock lasts remaining_days at the
\* average of the span; with nothing used it lasts for ever, or is already gone
LastsAtMost(m, days) ==
    IF stocked[m].used = 0 THEN Left(m) = 0 ELSE Left(m) * Span <= days * stocked[m].used
Critical == {m \in LiveStock : LastsAtMost(m, 7)}
Warning == {m \in LiveStock \ Critical : LastsAtMost(m, 15)}
\* the recommended purchase, times the span
Recommended(m) == OrZero((Minimum - Left(m)) * Span + 7 * stocked[m].used)
\* generate_procurement_summary
OverallRisk ==
    IF Critical # {} THEN "HIGH" ELSE IF Warning # {} THEN "MEDIUM" ELSE "LOW"
\* report_service: outstanding orders; calculate_best_supplier counts the others
OutstandingOrders == {o \in Order : orders[o].status \in {"CREATED", "PENDING"}}

\* Whoever reads the stock sees the same shortage: what is out of stock is listed,
\* counted, and makes the project's risk HIGH, and the quantity recommended brings
\* a material that is short back to its minimum.
ShortagesAreSeen ==
    /\ \A m \in LiveStock :
        /\ StockAlert(m) = "OUT_OF_STOCK" => m \in Alerted /\ OverallRisk = "HIGH"
        /\ StockAlert(m) = "IN_STOCK" <=> m \notin Alerted
        /\ m \in Alerted => Left(m) * Span + Recommended(m) >= Minimum * Span
    /\ ReportCount("OUT_OF_STOCK") + ReportCount("LOW_STOCK") = Cardinality(Alerted)

\* An order that waits for approval, or has it, says what was asked for, unless a
\* request wrote it on a view that was out of date; and no such order is deleted.
OrderIsAsAsked ==
    \A o \in Order \ stale :
        orders[o].status \in {"PENDING", "APPROVED"} => asked[o] = {OrderContent(orders[o])}

\* Two live suppliers of a company never share a GST number or a contact, and the
\* supplier of a live material is live, unless a request was decided on an old
\* view or the material was moved to a deleted supplier.
SuppliersStand ==
    /\ \A s, t \in Supplier \ stale :
        s # t /\ suppliers[s].live /\ suppliers[t].live /\ CompanyOf[s] = CompanyOf[t]
            => suppliers[s].contact = NoContact \/ suppliers[s].contact # suppliers[t].contact
    /\ \A m \in Bought :
        stocked[m].live /\ stocked[m].supplier \notin stale => suppliers[stocked[m].supplier].live
=============================================================================
