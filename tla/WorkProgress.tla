---------------------------- MODULE WorkProgress ----------------------------
(***************************************************************************)
(* Work activities, their daily entries and the completed quantity of the   *)
(* work orders they belong to (app/api/project.py, work-progress router;    *)
(* app/api/work_order.py).                                                  *)
(*                                                                         *)
(* An entry locks its activity and reads it afresh, so the activity moves   *)
(* in one step; the completed quantity of the work order is the sum over    *)
(* the activities the request sees in its snapshot, and the work order is   *)
(* not locked.  An entry is therefore two steps.  The update of an activity *)
(* writes only what the client sends and, if it differs, the status.        *)
(*                                                                         *)
(* update_daily_entry and delete_daily_entry are left out: both read        *)
(* entry.activity, a relationship nothing has loaded, which an asynchronous *)
(* session refuses (project.py:7019 and 7233); they answer 500 and change   *)
(* nothing.  Also left out: rates, engineers, the rows of activity_history, *)
(* a status the client gives a work order nothing was done on, who may call.*)
(***************************************************************************)
EXTENDS Integers, FiniteSets, Sums

CONSTANTS
    Activity,      \* one activity for each item of the bill of quantities
    WorkOrder,
    NoWorkOrder,
    Entering,      \* request slots of add_daily_progress that overlap others
    Amount,        \* quantities a client enters
    Planned,       \* the quantity of an item, and of a work order
    LastDay        \* bound: the calendar

ASSUME ActivityAssumption == IsFiniteSet(Activity)
ASSUME NoWorkOrderAssumption == NoWorkOrder \notin WorkOrder
ASSUME AmountAssumption  == Amount \subseteq Nat \ {0}
ASSUME PlannedAssumption == Planned \in Nat \ {0}
ASSUME LastDayAssumption == LastDay \in Nat

VARIABLES
    activities,    \* work_activities
    entries,       \* daily_progress_entries: the quantity of a day, 0 if none
    workOrders,    \* work_orders
    today,
    entering,      \* the entries being added and what they have read
    drifted        \* history: work orders whose quantity is not a sum

workVars == <<activities, entries, workOrders, today, entering, drifted>>

Day == 1..LastDay
ActivityStatus == {"NOT_STARTED", "ON_TRACK", "COMPLETED", "DELAY"}
WorkActivityRow == [status : ActivityStatus, order : WorkOrder \cup {NoWorkOrder},
                    start : Day, end : Day, completed : Nat, remaining : Nat]
WorkOrderRow == [status : {"Assigned", "In Progress", "Completed"},
                 total : Nat, completed : Nat]
Absent == [status |-> "absent"]

ActivityExists(a)  == activities[a] # Absent
WorkOrderExists(w) == workOrders[w] # Absent
OrderChoice == {w \in WorkOrder : WorkOrderExists(w)} \cup {NoWorkOrder}

\* Hundredths of a percent, half up.
FullPercentage == 10000
Percentage(completed) == (2 * completed * FullPercentage + Planned) \div (2 * Planned)

\* calculate_activity_status.
StatusOf(completed, end) ==
    IF Percentage(completed) >= FullPercentage THEN "COMPLETED"
    ELSE IF end < today THEN "DELAY"
    ELSE IF Percentage(completed) > 0 THEN "ON_TRACK" ELSE "NOT_STARTED"

\* What the activities of a work order add up to in rows.
CompletedIn(rows, w) ==
    TotalOf([a \in Activity |-> IF rows[a] # Absent /\ rows[a].order = w
                                THEN rows[a].completed ELSE 0])
Entered(a) == TotalOf(entries[a])

\* What a request for an entry read: the sums over the other activities, and the
\* completed quantities of the work orders.
EntryRequest == [activity : Activity, others : [WorkOrder -> Nat],
                 orders : [WorkOrder -> Nat \cup {-1}]]
NotEntering == [activity |-> "none"]

WorkInit ==
    /\ activities = [a \in Activity |-> Absent]
    /\ entries = [a \in Activity |-> [d \in Day |-> 0]]
    /\ workOrders = [w \in WorkOrder |-> Absent]
    /\ today = 1
    /\ entering = [r \in Entering |-> NotEntering]
    /\ drifted = {}

DayPasses ==
    /\ today < LastDay
    /\ today' = today + 1
    /\ UNCHANGED <<activities, entries, workOrders, entering, drifted>>

-----------------------------------------------------------------------------
CreateWorkOrder(w) ==
    /\ ~WorkOrderExists(w)
    /\ workOrders' = [workOrders EXCEPT ![w] =
           [status |-> "Assigned", total |-> Planned, completed |-> 0]]
    /\ UNCHANGED <<activities, entries, today, entering, drifted>>

\* The client may enter the completed quantity by hand.
Progressed(row, completed) ==
    [row EXCEPT !.completed = completed,
                !.status = IF completed = row.total THEN "Completed"
                           ELSE IF completed > 0 THEN "In Progress" ELSE row.status]
UpdateWorkOrder(w, completed) ==
    /\ WorkOrderExists(w)
    /\ completed <= workOrders[w].total
    /\ workOrders' = [workOrders EXCEPT ![w] = Progressed(@, completed)]
    /\ drifted' = IF completed # workOrders[w].completed THEN drifted \cup {w} ELSE drifted
    /\ UNCHANGED <<activities, entries, today, entering>>

\* The foreign key sets the work order of its activities to null.
DeleteWorkOrder(w) ==
    /\ WorkOrderExists(w)
    /\ workOrders' = [workOrders EXCEPT ![w] = Absent]
    /\ activities' = [a \in Activity |->
           IF ActivityExists(a) /\ activities[a].order = w
           THEN [activities[a] EXCEPT !.order = NoWorkOrder] ELSE activities[a]]
    /\ drifted' = drifted \ {w}
    /\ UNCHANGED <<entries, today, entering>>

-----------------------------------------------------------------------------
\* One activity for each item: the handler looks, the unique key decides.
CreateActivity(a, w, start, end) ==
    /\ ~ActivityExists(a)
    /\ w \in OrderChoice /\ start <= end
    /\ activities' = [activities EXCEPT ![a] =
           [status |-> StatusOf(0, end), order |-> w, start |-> start, end |-> end,
            completed |-> 0, remaining |-> Planned]]
    /\ UNCHANGED <<entries, workOrders, today, entering, drifted>>

\* Mutant: the status waits for the next entry.
RescheduledOnly(row, order, start, end) ==
    [row EXCEPT !.order = order, !.start = start, !.end = end]
Rescheduled(row, order, start, end) ==
    [row EXCEPT !.order = order, !.start = start, !.end = end,
                !.status = StatusOf(row.completed, end)]

\* The completed quantity of neither work order is brought up to date.
UpdateActivity(a, w, start, end) ==
    /\ ActivityExists(a)
    /\ w \in WorkOrder => WorkOrderExists(w)
    /\ start <= end
    /\ LET row == activities[a]
           order == IF w = NoWorkOrder THEN row.order ELSE w IN
       /\ activities' = [activities EXCEPT ![a] =
              Rescheduled(row, order, start, end)]
       /\ drifted' = IF order # row.order /\ row.completed > 0
                     THEN drifted \cup ({order, row.order} \cap WorkOrder) ELSE drifted
    /\ UNCHANGED <<entries, workOrders, today, entering>>

DeleteActivity(a) ==
    /\ ActivityExists(a)
    /\ \A d \in Day : entries[a][d] = 0
    /\ activities' = [activities EXCEPT ![a] = Absent]
    /\ UNCHANGED <<entries, workOrders, today, entering, drifted>>

-----------------------------------------------------------------------------
\* What a request reads in its snapshot: for each work order the sum over the
\* other activities, and its completed quantity (-1: there is no such order).
Snapshot(a) ==
    [activity |-> a,
     others |-> [w \in WorkOrder |-> CompletedIn([activities EXCEPT ![a] = Absent], w)],
     orders |-> [w \in WorkOrder |-> IF WorkOrderExists(w) THEN workOrders[w].completed ELSE -1]]

BeginEntry(r, a) ==
    /\ entering[r] = NotEntering
    /\ ActivityExists(a)
    /\ entering' = [entering EXCEPT ![r] = Snapshot(a)]
    /\ UNCHANGED <<activities, entries, workOrders, today, drifted>>

MayEnter(row, d, quantity) ==
    /\ d <= today /\ row.start <= d /\ d <= row.end
    /\ row.status # "COMPLETED"
    /\ quantity <= Planned - row.completed

Advanced(row, quantity) ==
    LET completed == row.completed + quantity IN
    [row EXCEPT !.completed = completed, !.remaining = Planned - completed,
                !.status = StatusOf(completed, row.end)]

\* The work order becomes the sum the request sees.  UPDATE names the column only
\* if that is not what it read; an order the snapshot lacks is left alone.
\* Mutant: what is there now is increased instead.
SummedOnto(q, w, quantity) == IF q.orders[w] = -1 THEN workOrders[w].completed
                              ELSE workOrders[w].completed + quantity
Summed(q, w, total) ==
    IF q.orders[w] \in {-1, q.others[w] + total} THEN workOrders[w].completed
    ELSE q.others[w] + total

\* Mutant: an entry of that day does not matter.
NoEntryYetAny(a, d) == entries[a][d] >= 0
NoEntryYet(a, d)    == entries[a][d] = 0

Enter(q, d, quantity) ==
    LET a == q.activity
        new == Advanced(activities[a], quantity) IN
    /\ ActivityExists(a)
    /\ MayEnter(activities[a], d, quantity)
    /\ NoEntryYet(a, d)
    /\ activities' = [activities EXCEPT ![a] = new]
    /\ entries' = [entries EXCEPT ![a][d] = quantity]
    /\ workOrders' = [w \in WorkOrder |->
           IF w # new.order THEN workOrders[w]
           ELSE [workOrders[w] EXCEPT !.completed = Summed(q, w, new.completed)]]
    /\ drifted' = (drifted \ {new.order}) \cup
                  IF q = Snapshot(a) THEN {} ELSE {new.order} \cap WorkOrder
    /\ UNCHANGED today

\* An entry that nothing overlaps, and one whose snapshot was taken earlier.
AddEntry(a, d, quantity)    == Enter(Snapshot(a), d, quantity) /\ UNCHANGED entering
CommitEntry(r, d, quantity) ==
    /\ entering[r] # NotEntering
    /\ Enter(entering[r], d, quantity)
    /\ entering' = [entering EXCEPT ![r] = NotEntering]

RefuseEntry(r) ==
    /\ entering[r] # NotEntering
    /\ entering' = [entering EXCEPT ![r] = NotEntering]
    /\ UNCHANGED <<activities, entries, workOrders, today, drifted>>

WorkNext ==
    \/ DayPasses
    \/ \E w \in WorkOrder : CreateWorkOrder(w) \/ DeleteWorkOrder(w)
    \/ \E w \in WorkOrder, n \in Amount : UpdateWorkOrder(w, n)
    \/ \E a \in Activity, w \in WorkOrder \cup {NoWorkOrder}, s \in Day, e \in Day :
           CreateActivity(a, w, s, e) \/ UpdateActivity(a, w, s, e)
    \/ \E a \in Activity : DeleteActivity(a)
    \/ \E r \in Entering :
           \/ RefuseEntry(r)
           \/ \E a \in Activity : BeginEntry(r, a)
           \/ \E d \in Day, n \in Amount : CommitEntry(r, d, n)
    \/ \E a \in Activity, d \in Day, n \in Amount : AddEntry(a, d, n)
WorkSpec == WorkInit /\ [][WorkNext]_workVars

-----------------------------------------------------------------------------
(* What is shown: four endpoints each have their own idea of a status.      *)

Overdue(row) == row.end < today

\* The filter of list_activities.
Shows(row, status) ==
    LET done == Percentage(row.completed) IN
    CASE status = "COMPLETED"   -> done >= FullPercentage
      [] status = "DELAY"       -> done < FullPercentage /\ Overdue(row)
      [] status = "ON_TRACK"    -> done > 0 /\ done < FullPercentage /\ ~Overdue(row)
      [] status = "NOT_STARTED" -> done <= 0 /\ ~Overdue(row)
StandsAs(status) == {a \in Activity : ActivityExists(a) /\ Shows(activities[a], status)}

\* The counts of project_progress_summary.
ProjectSummary == [s \in ActivityStatus |-> Cardinality(StandsAs(s))]

\* get_delayed_activities starts from the stored status.
DelayedActivities ==
    {a \in Activity : /\ ActivityExists(a)
                      /\ \/ activities[a].status = "DELAY"
                         \/ Overdue(activities[a]) /\ activities[a].status # "COMPLETED"}
\* The PDF and the Excel report know nothing else.
ReportedDelayed == {a \in Activity : ActivityExists(a) /\ activities[a].status = "DELAY"}

\* get_work_order_progress_summary.
OrderStatus(w) ==
    LET of      == {a \in Activity : ActivityExists(a) /\ activities[a].order = w}
        planned == Cardinality(of) * Planned
        sum     == CompletedIn(activities, w)
    IN IF of # {} /\ sum >= planned THEN "COMPLETED"
       ELSE IF of \cap StandsAs("DELAY") # {} THEN "DELAY"
       ELSE IF sum > 0 THEN "ON_TRACK" ELSE "NOT_STARTED"

-----------------------------------------------------------------------------
WorkTypeOK ==
    /\ activities \in [Activity -> WorkActivityRow \cup {Absent}]
    /\ entries \in [Activity -> [Day -> Amount \cup {0}]]
    /\ workOrders \in [WorkOrder -> WorkOrderRow \cup {Absent}]
    /\ today \in Nat
    /\ entering \in [Entering -> EntryRequest \cup {NotEntering}]
    /\ drifted \subseteq WorkOrder

\* The completed quantity of a work order is the sum over its activities, except
\* where an entry overlapped another change, an activity was moved between work
\* orders, or a client entered the quantity by hand.
OrderSumsActivities ==
    \A w \in WorkOrder : WorkOrderExists(w) /\ w \notin drifted =>
        workOrders[w].completed = CompletedIn(activities, w)

\* Whatever day it is, all views put an activity under the same status, the
\* reports with their stored status are at worst behind, every activity is counted
\* once, and a work order is complete when all its activities are.
StatusViewsAgree ==
    /\ \A a \in Activity, s \in ActivityStatus : ActivityExists(a) =>
           (a \in StandsAs(s) <=> StatusOf(activities[a].completed, activities[a].end) = s)
    /\ DelayedActivities = StandsAs("DELAY")
    /\ ReportedDelayed \subseteq DelayedActivities
    /\ TotalOf(ProjectSummary)
           = Cardinality({a \in Activity : ActivityExists(a)})
    /\ \A w \in WorkOrder, a \in Activity :
           OrderStatus(w) = "COMPLETED" /\ ActivityExists(a) /\ activities[a].order = w =>
           a \in StandsAs("COMPLETED")

\* However entries overlap, the completed quantity of an activity is what its
\* entries add up to, and with what remains it is what was planned.
EntriesAddUp ==
    \A a \in Activity : ActivityExists(a) =>
        /\ activities[a].completed = Entered(a)
        /\ activities[a].completed + activities[a].remaining = Planned
=============================================================================
