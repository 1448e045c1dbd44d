------------------------------ MODULE Quotations ------------------------------
(***************************************************************************)
(* Quotations to clients (app/api/quotation.py): their lines, the total     *)
(* kept beside them, the decision of the client, and the bill, work order,  *)
(* project and invoice (app/api/invoice.py) made out of an approved one.    *)
(*                                                                         *)
(* A conversion locks the row of the quotation.  Every other handler reads  *)
(* it in its snapshot and writes the columns it has computed, so a slot of  *)
(* Quoting holds the quotation as an overlapping request has read it.       *)
(*                                                                         *)
(* What happens to a quotation after such a request is not followed.         *)
(*                                                                         *)
(* A line is its amount (QuotedItems.tla shows how an item's comes about);  *)
(* taxes are proportional to the subtotal and left out of the total, as are *)
(* the advance, the texts, the PDF and its QR code.  Deleting a quotation   *)
(* that an overlapping request works on is left out.                        *)
(***************************************************************************)
EXTENDS Integers, FiniteSets, Sums

CONSTANTS
    Quotation,
    Client,
    WorkItem, LabourItem, MaterialItem, ExtraCharge,   \* ids of lines
    Priced,          \* amounts of lines
    Discount,        \* amounts of discounts
    Quoting,         \* slots of requests that overlap others
    MaxLines,        \* bound: lines of all quotations
    MaxHandled       \* bound: requests handled

ASSUME PricedAssumption ==
    /\ Priced \subseteq Nat \ {0} /\ Discount \subseteq Nat
    /\ IsFiniteSet(WorkItem \cup LabourItem \cup MaterialItem \cup ExtraCharge)

VARIABLES
    quotations,      \* quotation_master
    lines,           \* quotation_items, _labour, _materials, _extra_charges
    documents,       \* the totals of the documents made of a quotation
    quoting,         \* what an overlapping request has read
    overwritten,        \* history: quotations a request wrote on an old view of
    resent,          \* history: quotations sent again after a rejection
    handled          \* requests so far

quotationVars == <<quotations, lines, documents, quoting, overwritten, resent, handled>>

Line == WorkItem \cup LabourItem \cup MaterialItem \cup ExtraCharge
QuotationStatus == {"draft", "sent", "approved", "rejected", "converted"}
Kind == {"bill", "order", "project", "invoice"}
NoQuotation == [status |-> "none"]
QuotationRow ==
    [client : Client, status : QuotationStatus, isApproved : BOOLEAN,
     discount : Nat, total : Int]
NoLine == 0
NoDocument == -1000
ActiveFor(client) ==
    {q \in Quotation : /\ quotations[q] # NoQuotation /\ quotations[q].client = client
                       /\ quotations[q].status \in {"draft", "sent", "approved"}}
\* A quotation, its lines, and the clients who have an active one.
Read(q) == [of |-> q, row |-> quotations[q], lines |-> lines[q],
            busy |-> {client \in Client : ActiveFor(client) # {}}]
NoRead == [row |-> NoQuotation]

SumOfLines(amounts) == TotalOf(amounts)
\* Mutant: the discount of the stored row is forgotten.
TotalWithoutDiscount(row, amounts) == SumOfLines(amounts)
CalculateTotals(row, amounts) == SumOfLines(amounts) - row.discount
LinesUsed == Cardinality({x \in Quotation \X Line : lines[x[1]][x[2]] # NoLine})

QuotationsInit ==
    /\ quotations = [q \in Quotation |-> NoQuotation]
    /\ lines = [q \in Quotation |-> [l \in Line |-> NoLine]]
    /\ documents = [q \in Quotation |-> [k \in Kind |-> NoDocument]]
    /\ quoting = [r \in Quoting |-> NoRead]
    /\ overwritten = {} /\ resent = {} /\ handled = 0

\* What a request read of q is no longer true when it commits.
NoteOutdated(view, q) ==
    overwritten' = IF view.row = quotations[q] /\ view.lines = lines[q]
                THEN overwritten ELSE overwritten \cup {q}

-----------------------------------------------------------------------------
\* Mutant: nobody looks for another one.
MayCreateAnother(client, view) == TRUE
MayCreate(client, view) == client \notin view.busy

\* At least one item; the discount is no more than the subtotal.
CreateQuotation(q, client, amounts, discount, view) ==
    /\ quotations[q] = NoQuotation /\ MayCreate(client, view)
    /\ \E i \in WorkItem : amounts[i] # NoLine
    /\ discount <= SumOfLines(amounts)
    /\ Cardinality({l \in Line : amounts[l] # NoLine}) + LinesUsed <= MaxLines
    /\ LET row == [client |-> client, status |-> "draft", isApproved |-> FALSE,
                   discount |-> discount, total |-> 0]
       IN quotations' = [quotations EXCEPT ![q] =
              [row EXCEPT !.total = CalculateTotals(row, amounts)]]
    /\ lines' = [lines EXCEPT ![q] = amounts]
    /\ overwritten' = IF client \in view.busy <=> ActiveFor(client) # {}
                   THEN overwritten ELSE overwritten \cup {q}
    /\ UNCHANGED <<documents, resent>>

UpdateQuotation(q, discount, view) ==
    /\ quotations[q] # NoQuotation /\ view.row # NoQuotation
    /\ view.row.status = "draft"
    /\ LET row == [view.row EXCEPT !.discount = discount]
       IN quotations' = [quotations EXCEPT ![q].discount = discount,
              ![q].total = CalculateTotals(row, view.lines)]
    /\ NoteOutdated(view, q)
    /\ UNCHANGED <<lines, documents, resent>>

DeleteQuotation(q) ==
    /\ quotations[q] # NoQuotation /\ ~quotations[q].isApproved
    /\ \A r \in Quoting : quoting[r] = NoRead
    /\ quotations' = [quotations EXCEPT ![q] = NoQuotation]
    /\ lines' = [lines EXCEPT ![q] = [l \in Line |-> NoLine]]
    /\ overwritten' = overwritten \ {q} /\ resent' = resent \ {q}
    /\ UNCHANGED <<documents, quoting>>

-----------------------------------------------------------------------------
\* Mutant: not only drafts and quotations sent or rejected.
ModifiableAlways(row) == row # NoQuotation
Modifiable(row) == row # NoQuotation /\ ~row.isApproved

\* The line is written, and the total of the lines the request knows.
WriteLine(q, l, amount, view) ==
    /\ quotations[q] # NoQuotation /\ Modifiable(view.row)
    /\ lines' = [lines EXCEPT ![q][l] = amount]
    /\ quotations' = [quotations EXCEPT ![q].total =
           CalculateTotals(view.row, [view.lines EXCEPT ![l] = amount])]
    /\ NoteOutdated(view, q)
    /\ UNCHANGED <<documents, resent>>
AddLine(q, l, amount, view) ==
    /\ view.lines[l] = NoLine /\ lines[q][l] = NoLine /\ LinesUsed < MaxLines
    /\ WriteLine(q, l, amount, view)
\* A line deleted meanwhile: no row matches, the request fails.
UpdateLine(q, l, amount, view) ==
    view.lines[l] # NoLine /\ lines[q][l] # NoLine /\ WriteLine(q, l, amount, view)
DeleteLine(q, l, view) ==
    view.lines[l] # NoLine /\ lines[q][l] # NoLine /\ WriteLine(q, l, NoLine, view)

AddQuotationItem(q, i, amount, view) == i \in WorkItem /\ AddLine(q, i, amount, view)
UpdateQuotationItem(q, i, amount, view) == i \in WorkItem /\ UpdateLine(q, i, amount, view)
DeleteQuotationItem(q, i, view) == i \in WorkItem /\ DeleteLine(q, i, view)
AddLabourItem(q, l, amount, view) == l \in LabourItem /\ AddLine(q, l, amount, view)
UpdateLabourItem(q, l, amount, view) == l \in LabourItem /\ UpdateLine(q, l, amount, view)
DeleteLabourItem(q, l, view) == l \in LabourItem /\ DeleteLine(q, l, view)
AddMaterialItem(q, m, amount, view) == m \in MaterialItem /\ AddLine(q, m, amount, view)
UpdateMaterialItem(q, m, amount, view) == m \in MaterialItem /\ UpdateLine(q, m, amount, view)
DeleteMaterialItem(q, m, view) == m \in MaterialItem /\ DeleteLine(q, m, view)
AddExtraCharge(q, c, amount, view) == c \in ExtraCharge /\ AddLine(q, c, amount, view)
UpdateExtraCharge(q, c, amount, view) == c \in ExtraCharge /\ UpdateLine(q, c, amount, view)
DeleteExtraCharge(q, c, view) == c \in ExtraCharge /\ DeleteLine(q, c, view)

-----------------------------------------------------------------------------
\* The columns a decision writes, whatever the row has become since it was read.
Decide(q, view, status, isApproved) ==
    /\ quotations[q] # NoQuotation
    /\ quotations' = [quotations EXCEPT ![q].status = status, ![q].isApproved = isApproved]
    /\ NoteOutdated(view, q)
    /\ UNCHANGED <<lines, documents>>
SendQuotation(q, view) ==
    /\ view.row # NoQuotation /\ view.row.status \in {"draft", "rejected"}
    /\ Decide(q, view, "sent", quotations[q].isApproved)
    /\ resent' = IF view.row.status = "rejected" THEN resent \cup {q} ELSE resent
\* Mutant: a quotation that was never sent is approved.
ApprovableUnsent(row) == row # NoQuotation /\ ~row.isApproved
Approvable(row) == row # NoQuotation /\ ~row.isApproved /\ row.status = "sent"
ApproveQuotation(q, view) ==
    /\ Approvable(view.row)
    /\ Decide(q, view, "approved", TRUE) /\ UNCHANGED resent
\* Mutant: an approved quotation is rejected.
RejectableApproved(row) == row # NoQuotation /\ row.status \in {"sent", "approved"}
Rejectable(row) == row # NoQuotation /\ row.status = "sent"
RejectQuotation(q, view) ==
    /\ Rejectable(view.row)
    /\ Decide(q, view, "rejected", quotations[q].isApproved) /\ UNCHANGED resent

-----------------------------------------------------------------------------
\* Conversions to a bill, a work order or a project lock the row.
Convert(q, k) ==
    /\ quotations[q] # NoQuotation /\ quotations[q].isApproved
    /\ documents[q][k] = NoDocument
    /\ documents' = [documents EXCEPT ![q][k] = quotations[q].total]
    /\ quotations' = [quotations EXCEPT ![q].status = "converted"]
    /\ UNCHANGED <<lines, quoting, overwritten, resent>>
ConvertToBill(q) == Convert(q, "bill")
ConvertToWorkOrder(q) == Convert(q, "order")
ConvertToProject(q) == Convert(q, "project")
\* The other conversions have set the project an invoice needs.
HasProject(q) == \E k \in {"bill", "order", "project"} : documents[q][k] # NoDocument
CreateInvoiceFromQuotation(q) == HasProject(q) /\ Convert(q, "invoice")

-----------------------------------------------------------------------------
BeginQuoting(r, q) ==
    /\ quoting[r] = NoRead /\ q \notin overwritten /\ handled < MaxHandled
    /\ quoting' = [quoting EXCEPT ![r] = Read(q)]
    /\ UNCHANGED <<quotations, lines, documents, overwritten, resent, handled>>
EndQuoting(r) == quoting' = [quoting EXCEPT ![r] = NoRead]

\* The requests that may overlap others, deciding on the view they have.
Handle(q, view) ==
    \/ \E client \in Client, discount \in Discount, amounts \in [Line -> Priced \cup {NoLine}] :
           CreateQuotation(q, client, amounts, discount, view)
    \/ \E discount \in Discount : UpdateQuotation(q, discount, view)
    \/ SendQuotation(q, view) \/ ApproveQuotation(q, view) \/ RejectQuotation(q, view)
    \/ \E l \in Line, amount \in Priced :
           \/ AddQuotationItem(q, l, amount, view) \/ UpdateQuotationItem(q, l, amount, view)
           \/ AddLabourItem(q, l, amount, view)    \/ UpdateLabourItem(q, l, amount, view)
           \/ AddMaterialItem(q, l, amount, view)  \/ UpdateMaterialItem(q, l, amount, view)
           \/ AddExtraCharge(q, l, amount, view)   \/ UpdateExtraCharge(q, l, amount, view)
    \/ \E l \in Line :
           \/ DeleteQuotationItem(q, l, view)      \/ DeleteLabourItem(q, l, view)
           \/ DeleteMaterialItem(q, l, view)       \/ DeleteExtraCharge(q, l, view)

Count == handled < MaxHandled /\ handled' = handled + 1

QuotationsNext ==
    \E q \in Quotation :
        \/ q \notin overwritten /\ Handle(q, Read(q)) /\ Count /\ UNCHANGED quoting
        \/ DeleteQuotation(q) /\ Count
        \/ ConvertToBill(q) /\ Count
        \/ ConvertToWorkOrder(q) /\ Count
        \/ ConvertToProject(q) /\ Count
        \/ CreateInvoiceFromQuotation(q) /\ Count
        \/ \E r \in Quoting :
               \/ BeginQuoting(r, q)
               \/ /\ quoting[r] # NoRead /\ quoting[r].of = q /\ Handle(q, quoting[r])
                  /\ EndQuoting(r) /\ Count
QuotationsSpec == QuotationsInit /\ [][QuotationsNext]_quotationVars

-----------------------------------------------------------------------------
QuotationsTypeOK ==
    /\ quotations \in [Quotation -> QuotationRow \cup {NoQuotation}]
    /\ lines \in [Quotation -> [Line -> Nat]]
    /\ documents \in [Quotation -> [Kind -> Int]]
    /\ overwritten \subseteq Quotation /\ resent \subseteq Quotation

\* The total of a quotation is what its lines and its discount say, whichever of its
\* lines was added, changed or removed last, and every document made of it has that
\* total: what the client approved is what is billed, ordered, budgeted and invoiced.
\* Requests that wrote on an old view are the exception (stale totals, lost lines).
QuotedAsApproved ==
    \A q \in Quotation : quotations[q] # NoQuotation /\ q \notin overwritten =>
        /\ quotations[q].total = SumOfLines(lines[q]) - quotations[q].discount
        /\ \A k \in Kind : documents[q][k] \in {NoDocument, quotations[q].total}

\* A client decides on one quotation at a time, unless a rejected one was sent again
\* or two were created at the same time; and a decision is one of the two.
OneActivePerClient ==
    /\ \A client \in Client :
           LET active == ActiveFor(client) \ (overwritten \cup resent)
           IN Cardinality(active) <= 1
    /\ \A q \in Quotation \ overwritten : quotations[q] # NoQuotation =>
           (quotations[q].isApproved <=> quotations[q].status \in {"approved", "converted"})
=============================================================================
