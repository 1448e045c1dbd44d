--------------------------- MODULE EquipmentFleet ---------------------------
(***************************************************************************)
(* Machines: where they are, what they are let for, serviced and used       *)
(* (app/api/equipment.py).                                                  *)
(*                                                                         *)
(* No handler locks anything.  A request decides on its snapshot and writes *)
(* the columns it changed, so two handlers whose decision matters to others *)
(* are also given as two steps; allocation could be a third.  The status    *)
(* column is a cache of what the tables say, recomputed by most handlers    *)
(* and set by hand in some; a passing day changes it for no one.            *)
(*                                                                         *)
(* Left out: delete_usage, which has no route; fuel, which is treated as    *)
(* hours are; costs, and purchases (ProjectCosts); machines rented from a   *)
(* vendor; of two rentals that ended on one day the model takes either as   *)
(* the latest, once and for all.                                            *)
(***************************************************************************)
EXTENDS Integers, FiniteSets, Sums

CONSTANTS
    Machine,
    Workplace,       \* projects machines are allocated to
    NoWorkplace,
    Finished,        \* the projects whose end date has passed
    Rental,
    Service,         \* maintenance records
    Requesting,      \* request slots whose handler overlaps others
    Hours,           \* working hours a client enters
    Horizon,         \* bound: the calendar
    MaxServed        \* bound: requests and changes of date

ASSUME NoWorkplaceAssumption == NoWorkplace \notin Workplace
ASSUME FinishedAssumption == Finished \subseteq Workplace
ASSUME HoursAssumption == Hours \subseteq Nat \ {0}
ASSUME HorizonAssumption == Horizon \in Nat \ {0}

VARIABLES
    equipment,       \* equipment
    usages,          \* equipment_usage: the hours of a machine on a date, 0 if none
    services,        \* equipment_maintenance
    rentals,         \* equipment_rental, with its inspection
    now,
    requesting,      \* what the overlapping requests are about to write
    miscounted,      \* history: machines whose hours were written from an old read
    served,          \* how much has happened
    crossed          \* history: machines let by a request that had not seen another's
                     \* write, or placed by hand

fleetVars == <<equipment, usages, services, rentals, now, requesting,
               miscounted, crossed, served>>

Date == 1..Horizon
Gone == [status |-> "gone"]
EquipmentCondition == {"GOOD", "DAMAGED"}
EquipmentStatus == {"AVAILABLE", "IN_PROJECT", "RENTED", "MAINTENANCE", "IDLE",
                    "DAMAGED", "INSPECTION_PENDING"}
EquipmentRow == [condition : EquipmentCondition, status : EquipmentStatus,
                 project : Workplace \cup {NoWorkplace}, hours : Nat, deleted : BOOLEAN]
ServiceRow == [machine : Machine, date : Date, status : {"due", "done"}]
RentalStatus == {"running", "completed", "invoiced"}
RentalRow == [machine : Machine, start : Date, end : Date,
              inspected : BOOLEAN, status : RentalStatus]

Active(m) == equipment[m] # Gone /\ ~equipment[m].deleted
UsableBy(m) == Active(m) /\ equipment[m].condition # "DAMAGED"
Present(table) == {k \in DOMAIN table : table[k] # Gone}

-----------------------------------------------------------------------------
RentalsOf(m, rs) == {k \in Present(rs) : rs[k].machine = m}
Covers(rental, d) == rental.start <= d /\ d <= rental.end
LetOn(m, d, rs) ==
    \E k \in RentalsOf(m, rs) : rs[k].status = "running" /\ Covers(rs[k], d)
LetLater(m, rs) ==
    \E k \in RentalsOf(m, rs) : rs[k].status = "running" /\ rs[k].start > now
\* Mutant: a reservation that has not begun is overlooked.
FreeToday(m) == ~LetOn(m, now, rentals)
Unreserved(m) == ~LetOn(m, now, rentals) /\ ~LetLater(m, rentals)
ServiceDue(m, days, ms) ==
    \E k \in Present(ms) :
        ms[k].machine = m /\ ms[k].status = "due" /\ ms[k].date \in days
InspectionPending(m, rs) ==
    LET ended == {k \in RentalsOf(m, rs) : rs[k].status # "running"}
        latest == {k \in ended : \A j \in ended : rs[j].end <= rs[k].end}
    IN  ended # {} /\ ~rs[CHOOSE k \in latest : TRUE].inspected

Calculated(m, row, ms, rs) ==
    IF row.condition = "DAMAGED" THEN "DAMAGED"
    ELSE IF ServiceDue(m, 1..now, ms) THEN "MAINTENANCE"
    ELSE IF LetOn(m, now, rs) THEN "RENTED"
    ELSE IF InspectionPending(m, rs) THEN "INSPECTION_PENDING"
    ELSE IF row.project # NoWorkplace THEN "IN_PROJECT"
    ELSE IF LetLater(m, rs) THEN "IDLE" ELSE "AVAILABLE"

\* recalculate_equipment_status: a place to be comes before an inspection.
Recalculated(m, row, ms, rs) ==
    LET busy == row.condition = "DAMAGED" \/ ServiceDue(m, 1..now, ms) \/ LetOn(m, now, rs)
    IN  [row EXCEPT !.status =
            IF ~busy /\ row.project # NoWorkplace THEN "IN_PROJECT"
            ELSE IF ~busy /\ LetLater(m, rs) THEN "IDLE"
            ELSE Calculated(m, row, ms, rs)]
Refreshed(m, ms, rs) ==
    [equipment EXCEPT ![m] = Recalculated(m, equipment[m], ms, rs)]

NotRequesting == [kind |-> "none"]

FleetInit ==
    /\ equipment = [m \in Machine |-> Gone]
    /\ usages = [m \in Machine |-> [d \in Date |-> 0]]
    /\ services = [k \in Service |-> Gone]
    /\ rentals = [k \in Rental |-> Gone]
    /\ now = 1
    /\ requesting = [r \in Requesting |-> NotRequesting]
    /\ miscounted = {} /\ crossed = {} /\ served = 0

DateChanges ==
    /\ now < Horizon
    /\ now' = now + 1
    /\ UNCHANGED <<equipment, usages, services, rentals, requesting,
                   miscounted, crossed>>

-----------------------------------------------------------------------------
\* The machine and its place.
CreateEquipment(m, condition, p) ==
    /\ equipment[m] = Gone
    /\ equipment' = [equipment EXCEPT ![m] = Recalculated(m,
           [condition |-> condition, status |-> "AVAILABLE", project |-> p,
            hours |-> 0, deleted |-> FALSE], services, rentals)]
    /\ UNCHANGED <<usages, services, rentals, now, requesting, miscounted, crossed>>

\* Any place and condition, whatever the machine is let for.
UpdateEquipment(m, condition, p) ==
    /\ Active(m)
    /\ equipment' = [equipment EXCEPT ![m] = Recalculated(m,
           [@ EXCEPT !.condition = condition, !.project = p], services, rentals)]
    /\ crossed' = IF p # equipment[m].project THEN crossed \cup {m} ELSE crossed
    /\ UNCHANGED <<usages, services, rentals, now, requesting, miscounted>>

SoftDelete(m) ==
    /\ Active(m)
    /\ equipment[m].project = NoWorkplace
    /\ equipment[m].status # "MAINTENANCE"
    /\ Unreserved(m)
    /\ equipment' = [equipment EXCEPT ![m].deleted = TRUE]
    /\ UNCHANGED <<usages, services, rentals, now, requesting, miscounted, crossed>>

Restore(m) ==
    /\ equipment[m] # Gone /\ equipment[m].deleted
    /\ equipment' = [equipment EXCEPT ![m] =
           [Recalculated(m, @, services, rentals) EXCEPT !.deleted = FALSE]]
    /\ UNCHANGED <<usages, services, rentals, now, requesting, miscounted, crossed>>

\* A service that is overdue does not keep the machine back.  A machine whose
\* project has ended is taken off it on the way.
MayAllocate(m, p) ==
    /\ p \notin Finished
    /\ UsableBy(m)
    /\ Unreserved(m)
    /\ Calculated(m, equipment[m], services, rentals) # "INSPECTION_PENDING"
    /\ ~ServiceDue(m, now..Horizon, services)
    /\ equipment[m].project \in {NoWorkplace} \cup (Finished \ {p})
Allocated(m, p) == [equipment[m] EXCEPT !.project = p, !.status = "IN_PROJECT"]
AllocateEquipment(m, p) ==
    /\ MayAllocate(m, p)
    /\ equipment' = [equipment EXCEPT ![m] = Allocated(m, p)]
    /\ UNCHANGED <<usages, services, rentals, now, requesting, miscounted, crossed>>

DeallocateEquipment(m) ==
    /\ Active(m)
    /\ equipment[m].project # NoWorkplace
    /\ equipment' = [equipment EXCEPT ![m].project = NoWorkplace,
           ![m].status = IF LetLater(m, rentals) THEN "IDLE" ELSE "AVAILABLE"]
    /\ UNCHANGED <<usages, services, rentals, now, requesting, miscounted, crossed>>

TransferEquipment(m, p) ==
    /\ UsableBy(m)
    /\ equipment[m].status # "MAINTENANCE"
    /\ equipment[m].project \notin {NoWorkplace, p}
    /\ p \notin Finished
    /\ ~LetOn(m, now, rentals)
    /\ equipment' = [equipment EXCEPT ![m] = Recalculated(m,
           [@ EXCEPT !.project = p], services, rentals)]
    /\ UNCHANGED <<usages, services, rentals, now, requesting, miscounted, crossed>>

-----------------------------------------------------------------------------
\* Working hours: one row for a machine and a date, and their total.
MayUse(m, d) ==
    /\ UsableBy(m)
    /\ equipment[m].project # NoWorkplace
    /\ d <= now
    /\ usages[m][d] = 0
    /\ ~LetOn(m, d, rentals)
    /\ ~ServiceDue(m, {d}, services)
Used(m, h) == Recalculated(m, [equipment[m] EXCEPT !.hours = @ + h], services, rentals)
CreateUsage(m, d, h) ==
    /\ MayUse(m, d)
    /\ equipment' = [equipment EXCEPT ![m] = Used(m, h)]
    /\ usages' = [usages EXCEPT ![m][d] = h]
    /\ UNCHANGED <<services, rentals, now, requesting, miscounted, crossed>>

\* Mutant: the old hours stay in the total.
RecountedAdding(total, old, new) == total + new
\* The total never becomes negative.
Recounted(total, old, new) == IF total - old + new < 0 THEN 0 ELSE total - old + new
\* The date moves freely, also to one the machine was let or serviced on.
UpdateUsage(m, d, d2, h) ==
    /\ Active(m) /\ equipment[m].project # NoWorkplace
    /\ usages[m][d] # 0
    /\ d2 # d => usages[m][d2] = 0
    /\ equipment' = [equipment EXCEPT ![m].hours = Recounted(@, usages[m][d], h)]
    /\ usages' = [usages EXCEPT ![m] = [@ EXCEPT ![d] = 0, ![d2] = h]]
    /\ UNCHANGED <<services, rentals, now, requesting, miscounted, crossed>>

-----------------------------------------------------------------------------
\* Maintenance.
SetServices(m, table) ==
    /\ services' = table
    /\ equipment' = Refreshed(m, table, rentals)
    /\ UNCHANGED <<usages, rentals, now, requesting, miscounted, crossed>>
ServiceOf(k, status) ==
    services[k] # Gone /\ services[k].status = status /\ Active(services[k].machine)

\* One for a date; some project must stand for the cost.
CreateMaintenance(k, m, d) ==
    /\ services[k] = Gone
    /\ Active(m)
    /\ ~LetOn(m, d, rentals)
    /\ \A j \in Present(services) : services[j].machine # m \/ services[j].date # d
    /\ SetServices(m, [services EXCEPT ![k] = [machine |-> m, date |-> d, status |-> "due"]])
\* The new date is not compared with rentals or other records.
UpdateMaintenance(k, d) ==
    /\ \E status \in {"due", "done"} : ServiceOf(k, status)
    /\ SetServices(services[k].machine, [services EXCEPT ![k].date = d])
CompleteMaintenance(k) ==
    /\ ServiceOf(k, "due")
    /\ SetServices(services[k].machine, [services EXCEPT ![k].status = "done"])
DeleteMaintenance(k) ==
    /\ \E status \in {"due", "done"} : ServiceOf(k, status)
    /\ SetServices(services[k].machine, [services EXCEPT ![k] = Gone])

-----------------------------------------------------------------------------
\* Rentals to clients.
SetRentals(m, table) ==
    /\ rentals' = table
    /\ equipment' = Refreshed(m, services, table)
    /\ UNCHANGED <<usages, services, now, requesting, miscounted, crossed>>
RentalOf(k, statuses) ==
    rentals[k] # Gone /\ rentals[k].status \in statuses /\ Active(rentals[k].machine)

\* Mutant: rentals that were completed early no longer count.
FreeOfRunning(m, s, e, others) ==
    \A k \in RentalsOf(m, rentals) \cap others :
        rentals[k].status # "running" \/ e < rentals[k].start \/ rentals[k].end < s
FreeBetween(m, s, e, others) ==
    \A k \in RentalsOf(m, rentals) \cap others :
        e < rentals[k].start \/ rentals[k].end < s

\* A service in progress is read off the status column.
MayLet(m, s, e) ==
    /\ s <= e
    /\ UsableBy(m)
    /\ equipment[m].status # "MAINTENANCE"
    /\ ~ServiceDue(m, s..e, services)
    /\ equipment[m].project \in {NoWorkplace} \cup Finished
    /\ FreeBetween(m, s, e, Rental)
NewRental(m, s, e) == [machine |-> m, start |-> s, end |-> e,
                       inspected |-> FALSE, status |-> "running"]
\* The status is set by hand; a machine still on a finished project leaves it.
Let(m, s, e) ==
    [equipment[m] EXCEPT !.project = NoWorkplace,
         !.status = IF s <= now /\ now <= e THEN "RENTED"
                    ELSE IF s > now THEN "IDLE" ELSE "AVAILABLE"]
CreateRental(k, m, s, e) ==
    /\ rentals[k] = Gone
    /\ MayLet(m, s, e)
    /\ rentals' = [rentals EXCEPT ![k] = NewRental(m, s, e)]
    /\ equipment' = [equipment EXCEPT ![m] = Let(m, s, e)]
    /\ UNCHANGED <<usages, services, now, requesting, miscounted, crossed>>

\* A completed rental too, as long as it ended no earlier than today.
UpdateRental(k, s, e) ==
    /\ RentalOf(k, RentalStatus)
    /\ rentals[k].end >= now
    /\ s <= e
    /\ FreeBetween(rentals[k].machine, s, e, Rental \ {k})
    /\ SetRentals(rentals[k].machine, [rentals EXCEPT ![k].start = s, ![k].end = e])

DeleteRental(k) ==
    /\ RentalOf(k, RentalStatus)
    /\ SetRentals(rentals[k].machine, [rentals EXCEPT ![k] = Gone])

CompleteRental(k) ==
    /\ RentalOf(k, {"running"})
    /\ Covers(rentals[k], now)
    /\ SetRentals(rentals[k].machine,
           [rentals EXCEPT ![k].status = "completed", ![k].end = now])

\* A rental need not be over to be inspected, nor be named.
CreateInspection(m, k, condition) ==
    /\ Active(m)
    /\ k \in RentalsOf(m, rentals)
    /\ rentals' = [rentals EXCEPT ![k].inspected = TRUE]
    /\ equipment' = [equipment EXCEPT ![m] = Recalculated(m,
           [@ EXCEPT !.condition = condition], services, rentals')]
    /\ UNCHANGED <<usages, services, now, requesting, miscounted, crossed>>

GenerateInvoice(k) ==
    /\ RentalOf(k, {"completed"})
    /\ rentals' = [rentals EXCEPT ![k].status = "invoiced"]
    /\ UNCHANGED <<equipment, usages, services, now, requesting, miscounted, crossed>>

-----------------------------------------------------------------------------
\* The handlers that decide first and write later.
Begin(r, request) ==
    /\ requesting[r] = NotRequesting
    /\ requesting' = [requesting EXCEPT ![r] = request]
    /\ UNCHANGED <<equipment, usages, services, rentals, now, miscounted, crossed>>
BeginRental(r, m, s, e) ==
    /\ MayLet(m, s, e)
    /\ Begin(r, [kind |-> "rental", machine |-> m, from |-> equipment[m], to |-> Let(m, s, e),
                 start |-> s, end |-> e, seen |-> rentals])
BeginUsage(r, m, d, h) ==
    /\ MayUse(m, d)
    /\ Begin(r, [kind |-> "usage", machine |-> m, from |-> equipment[m], to |-> Used(m, h),
                 date |-> d, hours |-> h])

\* Only the columns whose value changed are written.
Written(request) ==
    LET m == request.machine IN
    [equipment EXCEPT ![m] = [f \in DOMAIN @ |->
        IF request.to[f] # request.from[f] THEN request.to[f] ELSE @[f]]]
Answer(r, kind) ==
    /\ requesting[r].kind = kind
    /\ requesting' = [requesting EXCEPT ![r] = NotRequesting]

CommitRental(r, k) ==
    LET m == requesting[r].machine IN
    /\ Answer(r, "rental")
    /\ rentals[k] = Gone
    /\ rentals' = [rentals EXCEPT ![k] = NewRental(m, requesting[r].start, requesting[r].end)]
    /\ equipment' = Written(requesting[r])
    /\ crossed' = IF rentals # requesting[r].seen
                     \/ equipment[m] # requesting[r].from
                  THEN crossed \cup {m} ELSE crossed
    /\ UNCHANGED <<usages, services, now, miscounted>>
\* The unique key of machine and date decides.
CommitUsage(r) ==
    LET m == requesting[r].machine  d == requesting[r].date IN
    /\ Answer(r, "usage")
    /\ usages[m][d] = 0
    /\ usages' = [usages EXCEPT ![m][d] = requesting[r].hours]
    /\ equipment' = Written(requesting[r])
    /\ miscounted' = IF equipment[m].hours # requesting[r].from.hours
                     THEN miscounted \cup {m} ELSE miscounted
    /\ UNCHANGED <<services, rentals, now, crossed>>
\* An error, a broken connection, a killed process.
Abandon(r) ==
    /\ requesting[r] # NotRequesting
    /\ requesting' = [requesting EXCEPT ![r] = NotRequesting]
    /\ UNCHANGED <<equipment, usages, services, rentals, now, miscounted, crossed>>

-----------------------------------------------------------------------------
PlaceNext ==
    \E m \in Machine, c \in EquipmentCondition, p \in Workplace \cup {NoWorkplace} :
        \/ CreateEquipment(m, c, p) \/ UpdateEquipment(m, c, p)
        \/ SoftDelete(m) \/ Restore(m) \/ DeallocateEquipment(m)
        \/ p \in Workplace /\ (AllocateEquipment(m, p) \/ TransferEquipment(m, p))
UseNext ==
    \E m \in Machine, d \in Date, d2 \in Date, h \in Hours :
        CreateUsage(m, d, h) \/ UpdateUsage(m, d, d2, h)
ServiceNext ==
    \E k \in Service, m \in Machine, d \in Date :
        \/ CreateMaintenance(k, m, d) \/ UpdateMaintenance(k, d)
        \/ CompleteMaintenance(k) \/ DeleteMaintenance(k)
RentNext ==
    \E k \in Rental, m \in Machine, s \in Date, e \in Date, c \in EquipmentCondition :
        \/ CreateRental(k, m, s, e) \/ UpdateRental(k, s, e)
        \/ DeleteRental(k) \/ CompleteRental(k)
        \/ CreateInspection(m, k, c) \/ GenerateInvoice(k)
RequestNext ==
    \E r \in Requesting :
        \/ \E m \in Machine, s \in Date, e \in Date : BeginRental(r, m, s, e)
        \/ \E m \in Machine, d \in Date, h \in Hours : BeginUsage(r, m, d, h)
        \/ \E k \in Rental : CommitRental(r, k)
        \/ CommitUsage(r) \/ Abandon(r)
FleetNext ==
    /\ served < MaxServed /\ served' = served + 1
    /\ PlaceNext \/ UseNext \/ ServiceNext \/ RentNext \/ RequestNext \/ DateChanges
FleetSpec == FleetInit /\ [][FleetNext]_fleetVars

-----------------------------------------------------------------------------
\* What the reports say.
UsageReport(m) == TotalOf(usages[m])
Availability(m) ==
    IF equipment[m].condition = "DAMAGED" THEN "DAMAGED"
    ELSE IF ServiceDue(m, 1..now, services) THEN "MAINTENANCE"
    ELSE IF LetOn(m, now, rentals) THEN "RENTED"
    ELSE IF equipment[m].project # NoWorkplace THEN "ALLOCATED" ELSE "AVAILABLE"
ListedRental(k) ==
    IF rentals[k].status # "running" \/ rentals[k].end < now THEN "COMPLETED"
    ELSE IF rentals[k].start > now THEN "UPCOMING" ELSE "ACTIVE"
ListedUnder(k, filter) ==
    CASE filter = "UPCOMING" -> rentals[k].status = "running" /\ rentals[k].start > now
      [] filter = "COMPLETED" -> rentals[k].status # "running" \/ rentals[k].end < now
      [] OTHER -> rentals[k].status = "running" /\ Covers(rentals[k], now)

-----------------------------------------------------------------------------
FleetTypeOK ==
    /\ equipment \in [Machine -> EquipmentRow \cup {Gone}]
    /\ usages \in [Machine -> [Date -> Nat]]
    /\ services \in [Service -> ServiceRow \cup {Gone}]
    /\ rentals \in [Rental -> RentalRow \cup {Gone}]
    /\ now \in Date /\ served \in Nat
    /\ miscounted \in SUBSET Machine /\ crossed \in SUBSET Machine

\* A machine that is let, today or later, is not on a project, unless it was put
\* there by hand or by requests that overlapped: allocation, transfer, letting
\* and the ways a rental changes keep the two apart between them.
LetOrOnSite ==
    \A m \in Machine \ crossed :
        Active(m) /\ (LetOn(m, now, rentals) \/ LetLater(m, rentals))
            => equipment[m].project = NoWorkplace

\* Nobody lets a machine for a day it is let already, unless a request made the
\* rental that had not seen what another was writing.
LetOnce ==
    \A j, k \in Present(rentals) :
        j # k /\ rentals[j].machine = rentals[k].machine =>
            \/ rentals[j].end < rentals[k].start \/ rentals[k].end < rentals[j].start
            \/ rentals[j].machine \in crossed

\* The hours of a machine, which decide whether it is called overused, are those
\* the usage and the utilisation reports add up, until two entries overlapped.
HoursAddUp ==
    \A m \in Machine \ miscounted :
        equipment[m] # Gone => equipment[m].hours = UsageReport(m)

\* The availability report, the list of rentals and its filters, three queries,
\* say the same of a machine and a day.
FleetViewsAgree ==
    \A k \in Present(rentals) :
        /\ \A filter \in {"UPCOMING", "COMPLETED", "ACTIVE"} :
               ListedUnder(k, filter) <=> ListedRental(k) = filter
        /\ ListedRental(k) = "ACTIVE" =>
               Availability(rentals[k].machine) \in {"RENTED", "MAINTENANCE", "DAMAGED"}
=============================================================================
