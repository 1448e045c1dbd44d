------------------------------ MODULE Workforce ------------------------------
(***************************************************************************)
(* The labourers of a project in one month: attendance (app/api/attendance.py), *)
(* the expense a check-out books, advances, payroll, wage records and the   *)
(* reports on them (app/api/labour.py).                                     *)
(*                                                                         *)
(* Check-in and check-out lock nothing and attendance has no unique key, so *)
(* overlapping ones decide on a view others have changed since.  Payroll    *)
(* rows are locked, but the attendance they are computed from is not.       *)
(*                                                                         *)
(* Wages are counted in units: an hour of work and an hour of overtime are  *)
(* paid 1 each, and a day has FullDay hours before overtime begins.         *)
(*                                                                         *)
(* Left out: images, places, lateness; overtime policies and changes of a   *)
(* labourer's rates, which payroll and reports apply to past days too;      *)
(* paying a wage record: no code writes the table labour_attendance its     *)
(* amount is summed from, the amount is 0 and the handler refuses it;       *)
(* half days and absences, which no handler records.                        *)
(***************************************************************************)
EXTENDS Integers, Sequences, FiniteSets, Sums

CONSTANTS
    Labourer,
    Workday,         \* days of the month
    Attendance,      \* ids of user_attendance: 1, 2, ...
    Attending,       \* slots of requests that overlap others
    FullDay,         \* hours before overtime
    Attended,        \* hours between a check-in and a check-out
    Advanced,        \* amounts of advances
    MaxAdvances      \* bound: the sum of a labourer's advances

ASSUME AttendanceAssumption == Attendance \subseteq Nat
ASSUME WorkforceAssumption == FullDay \in Nat /\ Attended \subseteq Nat
ASSUME RosterIsFinite == IsFiniteSet(Labourer) /\ IsFiniteSet(Workday) /\ IsFiniteSet(Attendance)
ASSUME AdvanceAssumption == Advanced \subseteq Nat \ {0}

VARIABLES
    roster,          \* labour.status, which the user account follows
    attendance,      \* user_attendance
    accruals,        \* amounts of the automatic expenses of a labourer's day
    advances,        \* sum of the labourer's advances
    payroll,         \* labour_payroll
    disbursed,       \* payments of the labourer's payroll, debited to WAGES_PAYABLE
    waged,           \* days a wage record covers
    attending,       \* the view an overlapping request has taken
    overtaken        \* history: days on which a check-out decided on an old view

workforceVars == <<roster, attendance, accruals, advances, payroll, disbursed, waged,
                   attending, overtaken>>

NoRow == [status |-> "none"]
AttendanceRow ==
    [labour : Labourer, day : Workday, out : {"no", "self", "proxy"}, hours : Nat]
PayrollStatus == {"Draft", "Locked", "Partial", "Paid"}
PayrollRow == [total : Nat, paid : Nat, remaining : Nat, status : PayrollStatus]

Snapshot == [attendance |-> attendance, accruals |-> accruals, waged |-> waged,
             advances |-> advances]
NoSnapshot == [attendance |-> NoRow]

FreeId(t) == attendance[t] = NoRow /\ \A u \in Attendance : u < t => attendance[u] # NoRow
RowsOf(l, table) == {t \in DOMAIN table : table[t] # NoRow /\ table[t].labour = l}
Overtime(hours) == IF hours > FullDay THEN hours - FullDay ELSE 0
\* What a check-out books: a day, and its overtime.
Accrued(hours) == (hours - Overtime(hours)) + Overtime(hours)
\* What payroll pays: all hours, and the overtime again if a rate was recorded.
\* Mutant: the hours alone.
WageOfHours(row) == row.hours
Wage(row) == row.hours + IF row.out = "self" THEN Overtime(row.hours) ELSE 0
Floor0(n) == IF n > 0 THEN n ELSE 0

WorkforceInit ==
    /\ roster = [l \in Labourer |-> "none"]
    /\ attendance = [t \in Attendance |-> NoRow]
    /\ accruals = [l \in Labourer |-> [d \in Workday |-> <<>>]]
    /\ advances = [l \in Labourer |-> 0]
    /\ payroll = [l \in Labourer |-> NoRow]
    /\ disbursed = [l \in Labourer |-> 0]
    /\ waged = [l \in Labourer |-> {}]
    /\ attending = [r \in Attending |-> NoSnapshot]
    /\ overtaken = {}

-----------------------------------------------------------------------------
SetRoster(l, from, to) ==
    /\ roster[l] \in from
    /\ roster' = [roster EXCEPT ![l] = to]
    /\ UNCHANGED <<attendance, accruals, advances, payroll, disbursed, waged,
                   attending, overtaken>>
CreateLabour(l) == SetRoster(l, {"none"}, "active")
DeleteLabour(l) == SetRoster(l, {"active", "inactive"}, "inactive")
UpdateLabourStatus(l, status) == SetRoster(l, {"active", "inactive"}, status)

\* A check-out that decided on a view others have changed since.
OvertookOn(view, l, d) ==
    overtaken' = IF view.attendance = attendance /\ view.accruals = accruals
                 THEN overtaken ELSE overtaken \cup {<<l, d>>}

In(t, l, d, view) ==
    /\ roster[l] = "active"
    /\ FreeId(t)
    /\ \A u \in RowsOf(l, view.attendance) : view.attendance[u].day # d
    /\ attendance' = [attendance EXCEPT ![t] =
           [labour |-> l, day |-> d, out |-> "no", hours |-> 0]]
    /\ UNCHANGED <<roster, accruals, advances, payroll, disbursed, waged, overtaken>>
CheckIn(t, l, d) == In(t, l, d, Snapshot) /\ UNCHANGED attending

\* The first expense of the day is overwritten, with the amount of its entry.
\* Mutant: every check-out books one.
BookedAgain(found, amount, booked) == Append(booked, amount)
Booked1(found, amount, booked) ==
    IF found = <<>> THEN Append(booked, amount) ELSE [booked EXCEPT ![1] = amount]

Out(t, hours, view) ==
    LET l == attendance[t].labour  d == attendance[t].day IN
    /\ view.attendance[t] # NoRow /\ view.attendance[t].out = "no"
    /\ roster[l] = "active"
    /\ attendance' = [attendance EXCEPT ![t].out = "self", ![t].hours = hours]
    /\ accruals' = [accruals EXCEPT ![l][d] =
           Booked1(view.accruals[l][d], Accrued(hours), @)]
    /\ OvertookOn(view, l, d)
    /\ UNCHANGED <<roster, advances, payroll, disbursed, waged>>
CheckOut(t, hours) == Out(t, hours, Snapshot) /\ UNCHANGED attending

\* Someone else checks a labourer in or out: no overtime rate, and no expense.
ProxyCheckIn(t, l, d) ==
    /\ roster[l] # "none" /\ FreeId(t)
    /\ \A u \in RowsOf(l, attendance) : attendance[u].day # d
    /\ attendance' = [attendance EXCEPT ![t] =
           [labour |-> l, day |-> d, out |-> "no", hours |-> 0]]
    /\ UNCHANGED <<roster, accruals, advances, payroll, disbursed, waged, attending, overtaken>>
ProxyCheckOut(t, hours) ==
    /\ attendance[t] # NoRow /\ attendance[t].out = "no"
    /\ attendance' = [attendance EXCEPT ![t].out = "proxy", ![t].hours = hours]
    /\ UNCHANGED <<roster, accruals, advances, payroll, disbursed, waged, attending, overtaken>>

BeginRequest(r) ==
    /\ attending[r] = NoSnapshot
    /\ attending' = [attending EXCEPT ![r] = Snapshot]
    /\ UNCHANGED <<roster, attendance, accruals, advances, payroll, disbursed, waged, overtaken>>
EndRequest(r) == attending' = [attending EXCEPT ![r] = NoSnapshot]
OverlappingCheckIn(r, t, l, d) ==
    attending[r] # NoSnapshot /\ In(t, l, d, attending[r]) /\ EndRequest(r)
OverlappingCheckOut(r, t, hours) ==
    attending[r] # NoSnapshot /\ Out(t, hours, attending[r]) /\ EndRequest(r)

-----------------------------------------------------------------------------
AdvancePayment(l, amount) ==
    /\ roster[l] # "none"
    /\ advances[l] + amount <= MaxAdvances
    /\ advances' = [advances EXCEPT ![l] = @ + amount]
    /\ UNCHANGED <<roster, attendance, accruals, payroll, disbursed, waged, attending, overtaken>>

\* Days a wage record covers are not paid by payroll.
Earning(l, view) ==
    {t \in RowsOf(l, view.attendance) : view.attendance[t].day \notin view.waged[l]}
Earned(l, view) ==
    TotalOf([t \in Earning(l, view) |-> Wage(view.attendance[t])])

\* Mutant: the remainder ignores what has been paid.
RegeneratedInFull(row, total) == [row EXCEPT !.total = total, !.remaining = total]
Regenerated(row, total) ==
    [row EXCEPT !.total = total, !.remaining = Floor0(total - row.paid)]
NewPayroll(total, advance) ==
    [total |-> total, paid |-> advance, remaining |-> Floor0(total - advance),
     status |-> "Draft"]
\* Mutant: locked payroll is computed again too.
RegenerableLocked(row) == row = NoRow \/ row.status \in {"Draft", "Locked", "Partial"}
Regenerable(row) == row = NoRow \/ row.status = "Draft"

\* The whole project, or nobody.
GeneratePayroll(view) ==
    LET due == {l \in Labourer : Earning(l, view) # {}} IN
    /\ due # {}
    /\ \A l \in due : Regenerable(payroll[l])
    /\ payroll' = [l \in Labourer |->
           IF l \notin due THEN payroll[l]
           ELSE IF payroll[l] = NoRow THEN NewPayroll(Earned(l, view), view.advances[l])
           ELSE Regenerated(payroll[l], Earned(l, view))]
    /\ UNCHANGED <<roster, attendance, accruals, advances, disbursed, waged, overtaken>>
Generate == GeneratePayroll(Snapshot) /\ UNCHANGED attending
OverlappingGenerate(r) ==
    attending[r] # NoSnapshot /\ GeneratePayroll(attending[r]) /\ EndRequest(r)

SetPayroll(ls, status) ==
    /\ payroll' = [l \in Labourer |->
           IF l \in ls THEN [payroll[l] EXCEPT !.status = status] ELSE payroll[l]]
    /\ UNCHANGED <<roster, attendance, accruals, advances, disbursed, waged, attending, overtaken>>
LockPayroll(ls) ==
    /\ ls # {} /\ \A l \in ls : payroll[l] # NoRow /\ payroll[l].status = "Draft"
    /\ SetPayroll(ls, "Locked")
UnlockPayroll(ls) ==
    /\ ls # {} /\ \A l \in ls : payroll[l] # NoRow /\ payroll[l].status = "Locked"
                                /\ payroll[l].paid = 0
    /\ SetPayroll(ls, "Draft")

\* Mutant: the amount is not compared with the remainder.
PayableAny(row, amount) == row # NoRow /\ row.status \in {"Locked", "Partial"}
Payable(row, amount) ==
    row # NoRow /\ row.status \in {"Locked", "Partial"} /\ amount <= row.remaining

PaidOff(row, amount) ==
    [row EXCEPT !.paid = @ + amount, !.remaining = Floor0(@ - amount),
                !.status = IF row.remaining <= amount THEN "Paid" ELSE "Partial"]
PaySalary(l, amount) ==
    /\ amount > 0 /\ Payable(payroll[l], amount)
    /\ payroll' = [payroll EXCEPT ![l] = PaidOff(@, amount)]
    /\ disbursed' = [disbursed EXCEPT ![l] = @ + amount]
    /\ UNCHANGED <<roster, attendance, accruals, advances, waged, attending, overtaken>>

\* A wage record covers days no other one does.
CreateWageRecord(l, days) ==
    /\ days # {} /\ days \cap waged[l] = {}
    /\ waged' = [waged EXCEPT ![l] = @ \cup days]
    /\ UNCHANGED <<roster, attendance, accruals, advances, payroll, disbursed, attending, overtaken>>

WorkforceNext ==
    \/ \E l \in Labourer :
           \/ CreateLabour(l) \/ DeleteLabour(l)
           \/ \E status \in {"active", "inactive"} : UpdateLabourStatus(l, status)
           \/ \E amount \in Advanced : AdvancePayment(l, amount) \/ PaySalary(l, amount)
           \/ \E days \in SUBSET Workday : CreateWageRecord(l, days)
           \/ \E t \in Attendance, d \in Workday :
                  \/ CheckIn(t, l, d) \/ ProxyCheckIn(t, l, d)
                  \/ \E r \in Attending : OverlappingCheckIn(r, t, l, d)
    \/ \E t \in Attendance, hours \in Attended :
           \/ CheckOut(t, hours) \/ ProxyCheckOut(t, hours)
           \/ \E r \in Attending : OverlappingCheckOut(r, t, hours)
    \/ Generate
    \/ \E ls \in SUBSET Labourer : LockPayroll(ls) \/ UnlockPayroll(ls)
    \/ \E r \in Attending : BeginRequest(r) \/ OverlappingGenerate(r)
WorkforceSpec == WorkforceInit /\ [][WorkforceNext]_workforceVars

-----------------------------------------------------------------------------
\* What the reports show.
Billed == {l \in Labourer : payroll[l] # NoRow /\ payroll[l].status # "Draft"}
ContractorLiability(ls) == TotalOf([l \in Billed \cap ls |-> payroll[l].total])
FiscalSummary == TotalOf([l \in Billed |-> payroll[l].total])
PayrollMomentum == FiscalSummary      \* of one month
PayrollStats ==
    [paid |-> TotalOf([l \in Billed |-> payroll[l].paid]),
     pending |-> TotalOf([l \in Billed |-> payroll[l].remaining]),
     budget |-> TotalOf([l \in Billed |-> payroll[l].total])]
WeeklyReport(l, week) ==
    TotalOf([t \in {u \in RowsOf(l, attendance) : attendance[u].day \in week} |->
                attendance[t].hours
                + IF attendance[t].out = "self" THEN Overtime(attendance[t].hours) ELSE 0])
MonthlyReport(l) == WeeklyReport(l, Workday)
WeeklyVelocity(week) == TotalOf([l \in Labourer |-> WeeklyReport(l, week)])
AggregateReport(l) == TotalOf([d \in Workday |-> WeeklyReport(l, {d})])

-----------------------------------------------------------------------------
WorkforceTypeOK ==
    /\ roster \in [Labourer -> {"none", "active", "inactive"}]
    /\ attendance \in [Attendance -> AttendanceRow \cup {NoRow}]
    /\ accruals \in [Labourer -> [Workday -> Seq(Nat)]]
    /\ advances \in [Labourer -> Nat] /\ disbursed \in [Labourer -> Nat]
    /\ payroll \in [Labourer -> PayrollRow \cup {NoRow}]
    /\ waged \in [Labourer -> SUBSET Workday]
    /\ overtaken \subseteq Labourer \X Workday

\* What is paid out, and what was advanced when payroll was generated, never exceeds
\* what the labourer's days earn, whatever is regenerated, unlocked or paid in parts,
\* unless a wage record took days away; and payroll knows what is left of its total.
PaidWithinEarned ==
    \A l \in {m \in Labourer : payroll[m] # NoRow} :
        /\ payroll[l].remaining = Floor0(payroll[l].total - payroll[l].paid)
        /\ disbursed[l] <= payroll[l].total
        /\ disbursed[l] > 0 => payroll[l].paid <= payroll[l].total
        /\ payroll[l].paid - disbursed[l] <= advances[l]

\* A labourer's day is one expense, however often someone checks in and out, unless
\* two check-outs overlapped.
DayAccruedOnce ==
    \A l \in Labourer, d \in Workday :
        Len(accruals[l][d]) > 1 => <<l, d>> \in overtaken

\* Payroll that has left its draft keeps its total, and what is paid stays paid.
PayrollStands ==
    [][\A l \in Labourer : payroll[l] # NoRow /\ payroll[l].status # "Draft" =>
           /\ payroll'[l].total = payroll[l].total
           /\ payroll'[l].paid >= payroll[l].paid
           /\ payroll[l].status \in {"Partial", "Paid"} =>
                  payroll'[l].status \in {payroll[l].status, "Paid"}]_workforceVars

\* The reports show the wages payroll would pay now: by day, by week and by month.
ReportedAsPaid ==
    /\ \A l \in Labourer : waged[l] = {} =>
           /\ Earned(l, Snapshot) = MonthlyReport(l)
           /\ AggregateReport(l) = MonthlyReport(l)
    /\ WeeklyVelocity(Workday) = TotalOf([l \in Labourer |-> AggregateReport(l)])
    /\ PayrollStats.paid + PayrollStats.pending >= PayrollStats.budget
    /\ PayrollStats.budget = PayrollMomentum
    /\ PayrollStats.budget =
           TotalOf([l \in Labourer |-> ContractorLiability({l})])
=============================================================================
