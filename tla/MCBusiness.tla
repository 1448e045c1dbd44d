----------------------------- MODULE MCBusiness -----------------------------
(* What a construction company deals in: machines, workers, costs, suppliers, *)
(* contractors, offers to clients and the books, in one small instance.  They  *)
(* are written by handlers of their own, so a behaviour shows one of them:     *)
(* scene says which, and the others keep their initial states.                 *)
EXTENDS EquipmentFleet, ProjectCosts, Workforce, Quotations, QuotedItems,
        Ledger, AccountantRecords, ContractorAccounts, Procurement, TLC

CONSTANTS bank, petty_cash, labour_exp, liability

\* No expense's id is the beginning of another's.
OnlyItself == {<<e, e>> : e \in Expense}
\* Units of measure_units and the like: of one family, of another, and of none.
UnitFamily == [brass |-> "volumetric", cft |-> "volumetric", sqft |-> "area", rft |-> "linear",
               nos |-> "count", kg |-> "weight_kg", ls |-> "lump_sum"]
UnitScale == [u \in DOMAIN UnitFamily |-> IF u = "cft" THEN 2 ELSE 1]
Units == DOMAIN UnitFamily
AccountTypes == (bank :> "ASSET" @@ petty_cash :> "ASSET" @@ labour_exp :> "EXPENSE"
                 @@ liability :> "LIABILITY")
BankToLiability == {<<bank, liability>>}
AllNear == StatementLine \X BankEntry
OneCompany == [s \in Supplier |-> 1]

VARIABLE scene

Scene == {"fleet", "costs", "workforce", "quotations", "items", "ledger",
          "records", "contractors", "procurement"}
allVars == <<scene, fleetVars, costVars, workforceVars, quotationVars, itemVars,
             ledgerVars, recordVars, contractorVars, procurementVars>>

MCInit ==
    /\ scene \in Scene
    /\ FleetInit /\ CostsInit /\ WorkforceInit /\ QuotationsInit /\ ItemsInit
    /\ LedgerInit /\ RecordsInit /\ ContractorsInit /\ ProcurementInit

MCNext ==
    \/ /\ scene = "fleet" /\ FleetNext
       /\ UNCHANGED <<scene, costVars, workforceVars, quotationVars, itemVars,
                      ledgerVars, recordVars, contractorVars, procurementVars>>
    \/ /\ scene = "costs" /\ CostsNext
       /\ UNCHANGED <<scene, fleetVars, workforceVars, quotationVars, itemVars,
                      ledgerVars, recordVars, contractorVars, procurementVars>>
    \/ /\ scene = "workforce" /\ WorkforceNext
       /\ UNCHANGED <<scene, fleetVars, costVars, quotationVars, itemVars,
                      ledgerVars, recordVars, contractorVars, procurementVars>>
    \/ /\ scene = "quotations" /\ QuotationsNext
       /\ UNCHANGED <<scene, fleetVars, costVars, workforceVars, itemVars,
                      ledgerVars, recordVars, contractorVars, procurementVars>>
    \/ /\ scene = "items" /\ ItemsNext
       /\ UNCHANGED <<scene, fleetVars, costVars, workforceVars, quotationVars,
                      ledgerVars, recordVars, contractorVars, procurementVars>>
    \/ /\ scene = "ledger" /\ LedgerNext
       /\ UNCHANGED <<scene, fleetVars, costVars, workforceVars, quotationVars,
                      itemVars, recordVars, contractorVars, procurementVars>>
    \/ /\ scene = "records" /\ RecordsNext
       /\ UNCHANGED <<scene, fleetVars, costVars, workforceVars, quotationVars,
                      itemVars, ledgerVars, contractorVars, procurementVars>>
    \/ /\ scene = "contractors" /\ ContractorsNext
       /\ UNCHANGED <<scene, fleetVars, costVars, workforceVars, quotationVars,
                      itemVars, ledgerVars, recordVars, procurementVars>>
    \/ /\ scene = "procurement" /\ ProcurementNext
       /\ UNCHANGED <<scene, fleetVars, costVars, workforceVars, quotationVars,
                      itemVars, ledgerVars, recordVars, contractorVars>>
MCSpec == MCInit /\ [][MCNext]_allVars

-----------------------------------------------------------------------------
\* Every table keeps its columns' types.
BusinessTypesOK ==
    /\ scene = "fleet"       => FleetTypeOK
    /\ scene = "costs"       => CostsTypeOK
    /\ scene = "workforce"   => WorkforceTypeOK
    /\ scene = "quotations"  => QuotationsTypeOK
    /\ scene = "ledger"      => LedgerTypeOK
    /\ scene = "records"     => RecordsTypeOK
    /\ scene = "contractors" => ContractorsTypeOK
    /\ scene = "procurement" => ProcurementTypeOK

\* What was spent, earned or paid is in the books once, and the books add up: the
\* expenses and the actual costs of items, the days and advances of labourers, the
\* accounts and their recurring entries, the accountant's registers and the bills
\* of contractors, each but for the orders of requests its own property names.
MoneyIsBooked ==
    /\ scene = "costs"       => ExpenseIsBookedAlone /\ ActualCostAddsUp
    /\ scene = "workforce"   => PaidWithinEarned /\ DayAccruedOnce /\ ReportedAsPaid
    /\ scene = "ledger"      => BooksClose /\ BalancesAgree /\ EachDateOnce
                                /\ WaitingIsAsked /\ VouchersBooked
    /\ scene = "records"     => RecordedOnce
    /\ scene = "contractors" => BillsPaidOnce /\ GivenIsBooked

\* What was agreed holds: a machine is let or on site, and let to one at a time; a
\* client's quotation is what was approved, and one at a time; what is ordered is
\* what was asked for, from a supplier who is there.
AgreementsStand ==
    /\ scene = "fleet"       => LetOrOnSite /\ LetOnce /\ HoursAddUp /\ FleetViewsAgree
    /\ scene = "quotations"  => QuotedAsApproved /\ OneActivePerClient
    /\ scene = "items"       => ItemFollowsUnit /\ SavedTaxShown
    /\ scene = "procurement" => ShortagesAreSeen /\ OrderIsAsAsked /\ SuppliersStand
=============================================================================
