-------------------------- MODULE BillOfQuantities --------------------------
(***************************************************************************)
(* The versions of a bill of quantities (app/api/boq.py) and the approval   *)
(* of its items (app/api/approval.py): a group of items, each item with an  *)
(* approval of its own, is copied to a new version once one of its items is *)
(* approved, and a task is generated from an approved item.                 *)
(*                                                                         *)
(* No handler of boq.py takes a lock.  An item that is added takes version  *)
(* and group from the snapshot its request started with, so that addition   *)
(* is also modelled in two steps; every other request is one.  Left out:    *)
(* names other than the one the unique key looks at, costs, actuals, the    *)
(* audit rows, the import, which only answers with what it read, and who    *)
(* may call.                                                                *)
(***************************************************************************)
EXTENDS Integers, Sequences, FiniteSets

CONSTANTS
    Group,       \* boq_groups
    Name,        \* names of items
    Adding,      \* request slots of add_item that overlap others
    MaxItem      \* bound: rows of boq_items

ASSUME MaxItemAssumption == MaxItem \in Nat
ASSUME NameAssumption    == IsFiniteSet(Name)

VARIABLES
    groups,      \* boq_groups: the current version, 0 if there is none
    items,       \* boq_items, in id order
    asked,       \* approvals of type boq that are pending, by item
    boqTasks,       \* items a task was generated from
    adding,      \* the additions in progress and the version they have read
    late         \* history: groups an item was added to after their next version

boqVars == <<groups, items, asked, boqTasks, adding, late>>

BOQRow == [group : Group, name : Name, version : Nat, latest : BOOLEAN,
           status : {"Active", "Deleted"},
           approval : {"Draft", "Pending", "Approved", "Rejected"}]
ItemRow(g, name, version) ==
    [group |-> g, name |-> name, version |-> version, latest |-> TRUE,
     status |-> "Active", approval |-> "Draft"]

NotAdding == [group |-> "none"]

Listed(i)   == i \in DOMAIN items /\ items[i].status # "Deleted"
Latest(g)   == {i \in DOMAIN items : items[i].group = g /\ items[i].latest /\ Listed(i)}
Editable(i) == items[i].latest /\ items[i].approval # "Approved"

\* Names are unique in a version of a group; deleted rows count.
FreeName(g, version, name) ==
    \A i \in DOMAIN items : <<items[i].group, items[i].version, items[i].name>> # <<g, version, name>>

BOQInit ==
    /\ groups = [g \in Group |-> 0]
    /\ items = <<>>
    /\ asked = {}
    /\ boqTasks = {}
    /\ adding = [r \in Adding |-> NotAdding]
    /\ late = {}

CreateBOQ(g, name) ==
    /\ groups[g] = 0
    /\ Len(items) < MaxItem
    /\ groups' = [groups EXCEPT ![g] = 1]
    /\ items' = Append(items, ItemRow(g, name, 1))
    /\ UNCHANGED <<asked, boqTasks, adding, late>>

\* The oldest item of the group decides whether the group may grow, and in which
\* version the new items are.
Parents(g)   == {i \in Latest(g) : \A j \in Latest(g) : i <= j}
MayGrow(g)   == \A i \in Parents(g) : Editable(i)
Orders(S)    == {order \in [1..Cardinality(S) -> S] :
                    \A i, j \in DOMAIN order : order[i] = order[j] => i = j}
Grow(g, version, names) ==
    /\ \A n \in names : FreeName(g, version, n)
    /\ Len(items) + Cardinality(names) <= MaxItem
    /\ \E order \in Orders(names) :
           items' = items \o [i \in DOMAIN order |-> ItemRow(g, order[i], version)]
    /\ late' = IF version = groups[g] THEN late ELSE late \cup {g}
    /\ UNCHANGED <<groups, asked, boqTasks>>

AddItems(g, names) ==
    /\ MayGrow(g)
    /\ \E i \in Parents(g) : Grow(g, items[i].version, names)
    /\ UNCHANGED adding
AddItem(g, name) == AddItems(g, {name})
BulkAddItems(g, names) == names # {} /\ AddItems(g, names)

\* The same in two steps: what was read may be an earlier version by now.
BeginAddItem(r, g) ==
    /\ adding[r] = NotAdding
    /\ MayGrow(g)
    /\ \E i \in Parents(g) :
           adding' = [adding EXCEPT ![r] = [group |-> g, version |-> items[i].version]]
    /\ UNCHANGED <<groups, items, asked, boqTasks, late>>
CommitAddItem(r, name) ==
    /\ adding[r] # NotAdding
    /\ Grow(adding[r].group, adding[r].version, {name})
    /\ adding' = [adding EXCEPT ![r] = NotAdding]

\* update_boq and update_item.
UpdateItem(i, name) ==
    /\ Listed(i) /\ Editable(i)
    /\ name = items[i].name \/ FreeName(items[i].group, items[i].version, name)
    /\ items' = [items EXCEPT ![i].name = name]
    /\ UNCHANGED <<groups, asked, boqTasks, adding, late>>

\* delete_boq and delete_item.
DeleteItem(i) ==
    /\ Listed(i) /\ Editable(i)
    /\ items' = [items EXCEPT ![i].status = "Deleted"]
    /\ UNCHANGED <<groups, asked, boqTasks, adding, late>>

-----------------------------------------------------------------------------
(* A new version of the whole group.                                        *)

\* Mutant: the rows of the old version stay the latest.
RetiredNone(g, version) == [i \in DOMAIN items |-> items[i]]
Retired(g, version) ==
    [i \in DOMAIN items |->
        IF items[i].group = g /\ items[i].version = version /\ items[i].latest
        THEN [items[i] EXCEPT !.latest = FALSE] ELSE items[i]]

Copied(g, version) ==
    {i \in DOMAIN items : items[i].group = g /\ items[i].version = version /\ Listed(i)}
\* In the order of their ids.
ById(S) == {order \in Orders(S) : \A i, j \in DOMAIN order : i < j => order[i] < order[j]}
Copies(g, order) ==
    [k \in DOMAIN order |-> ItemRow(g, items[order[k]].name, groups[g] + 1)]

\* The base is some latest item; it must be approved, the others need not be.
CreateVersion(g, base) ==
    /\ base \in Latest(g)
    /\ items[base].approval = "Approved"
    /\ LET version == items[base].version IN
       /\ Len(items) + Cardinality(Copied(g, version)) <= MaxItem
       /\ \E order \in ById(Copied(g, version)) :
              items' = Retired(g, version) \o Copies(g, order)
    /\ groups' = [groups EXCEPT ![g] = @ + 1]
    /\ UNCHANGED <<asked, boqTasks, adding, late>>

\* A second call finds the task of the first.
GenerateTask(i) ==
    /\ Listed(i) /\ items[i].latest
    /\ items[i].approval = "Approved"
    /\ i \notin boqTasks
    /\ boqTasks' = boqTasks \cup {i}
    /\ UNCHANGED <<groups, items, asked, adding, late>>

-----------------------------------------------------------------------------
(* Approvals: the item is found by its id whatever its status, an approved   *)
(* one may be asked for again.                                              *)

AskItemApproval(i) ==
    /\ i \in DOMAIN items
    /\ i \notin asked
    /\ asked' = asked \cup {i}
    /\ items' = [items EXCEPT ![i].approval = "Pending"]
    /\ UNCHANGED <<groups, boqTasks, adding, late>>

DecideItem(i, decision) ==
    /\ i \in asked
    /\ asked' = asked \ {i}
    /\ items' = [items EXCEPT ![i].approval = decision]
    /\ UNCHANGED <<groups, boqTasks, adding, late>>

BOQNext ==
    \/ \E g \in Group, n \in Name : CreateBOQ(g, n) \/ AddItem(g, n)
    \/ \E g \in Group, ns \in SUBSET Name : BulkAddItems(g, ns)
    \/ \E r \in Adding :
           \/ \E g \in Group : BeginAddItem(r, g)
           \/ \E n \in Name : CommitAddItem(r, n)
    \/ \E g \in Group : \E b \in DOMAIN items : CreateVersion(g, b)
    \/ \E i \in DOMAIN items :
           \/ DeleteItem(i) \/ GenerateTask(i) \/ AskItemApproval(i)
           \/ \E n \in Name : UpdateItem(i, n)
           \/ \E d \in {"Approved", "Rejected"} : DecideItem(i, d)
BOQSpec == BOQInit /\ [][BOQNext]_boqVars

-----------------------------------------------------------------------------
BOQTypeOK ==
    /\ groups \in [Group -> Nat]
    /\ items \in Seq(BOQRow)
    /\ asked \subseteq DOMAIN items
    /\ boqTasks \subseteq DOMAIN items
    /\ adding \in [Adding -> {NotAdding} \cup [group : Group, version : Nat]]
    /\ late \subseteq Group

\* The latest rows of a group are the rows of its current version, all of them,
\* through edits, deletions, approvals and copies in any order: what is shown as
\* the bill is one version, and an item deleted from it does not return.  The
\* exception is a group some item reached after its next version was made.
LatestIsCurrent ==
    \A i \in DOMAIN items : items[i].group \notin late =>
        (items[i].latest <=> items[i].version = groups[items[i].group])

\* An item that is not asked for is not shown as waiting for a decision.
PendingIsAsked == \A i \in DOMAIN items : items[i].approval = "Pending" <=> i \in asked
=============================================================================
