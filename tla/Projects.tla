------------------------------ MODULE Projects ------------------------------
(***************************************************************************)
(* The projects of a company (app/api/project.py, ProjectsService): the     *)
(* quota of its plan (app/services/entitlement.py), the status, and the     *)
(* deletion with what stands in its way.                                    *)
(*                                                                         *)
(* The quota counts rows in a snapshot and nothing constrains them; the     *)
(* deletion locks the project but looks for dependent rows in the snapshot  *)
(* of the request.  Both are two steps as well as one.  The foreign keys    *)
(* then decide: some restrict the deletion, some cascade.                   *)
(*                                                                         *)
(* Left out: names and business ids (a conflict is a refusal here, the      *)
(* retries are in BusinessIds), owners, dates, locations, members and tasks *)
(* (ProjectTasks), which a deletion takes along.                            *)
(***************************************************************************)
EXTENDS Integers, FiniteSets

CONSTANTS
    ProjectId,     \* projects
    Requests,      \* request slots that overlap others
    MaxProjects    \* the quota of the plan

ASSUME MaxProjectsAssumption == MaxProjects \in Nat \ {0}
ASSUME RequestsAssumption == IsFiniteSet(Requests)

VARIABLES
    projects,      \* projects: the status of each
    dependents,    \* kinds of rows that refer to a project
    active,        \* whether the subscription of the company is
    underway       \* creations and deletions in progress

projectVars == <<projects, dependents, active, underway>>

-----------------------------------------------------------------------------
ProjectStatus == {"PLANNED", "ONGOING", "ON_HOLD", "COMPLETED"}
NoProject == "absent"
NoCreation == [op |-> "none"]

\* Transactions stand for the rows whose key restricts, with vendor bills,
\* quotations, payrolls, purchase orders, rentals, assets, records of quality
\* and safety, alerts and preferences; invoices for those that are looked for
\* and cascade, with RA bills; expenses for those that cascade and are not,
\* with documents, agreements and payments of clients.
Restricting == {"transaction"}
Checked     == {"transaction", "invoice"}
DependentKind == {"transaction", "invoice", "expense"}

ProjectExists(p) == projects[p] # NoProject
Existing  == {p \in ProjectId : ProjectExists(p)}

ProjectsInit ==
    /\ projects = [p \in ProjectId |-> NoProject]
    /\ dependents = [p \in ProjectId |-> {}]
    /\ active \in BOOLEAN
    /\ underway = [r \in Requests |-> NoCreation]

\* An administrator or a payment changes the subscription (SaasBilling).
SubscriptionChanges ==
    /\ active' = ~active
    /\ UNCHANGED <<projects, dependents, underway>>

-----------------------------------------------------------------------------
\* can_create_project.  Mutant: one more than the plan allows.
CanCreateOneMore == active /\ Cardinality(Existing) <= MaxProjects
CanCreateProject == active /\ Cardinality(Existing) < MaxProjects

Inserted(p, status) ==
    /\ ~ProjectExists(p)
    /\ projects' = [projects EXCEPT ![p] = status]
    /\ UNCHANGED <<dependents, active>>

CreateProject(p, status) ==
    /\ CanCreateProject
    /\ Inserted(p, status)
    /\ UNCHANGED underway

BeginCreate(r) ==
    /\ underway[r] = NoCreation
    /\ CanCreateProject
    /\ underway' = [underway EXCEPT ![r] = [op |-> "create"]]
    /\ UNCHANGED <<projects, dependents, active>>
CommitCreate(r, p, status) ==
    /\ underway[r].op = "create"
    /\ Inserted(p, status)
    /\ underway' = [underway EXCEPT ![r] = NoCreation]

\* Any status follows any other.
UpdateProject(p, status) ==
    /\ ProjectExists(p)
    /\ projects' = [projects EXCEPT ![p] = status]
    /\ UNCHANGED <<dependents, active, underway>>

\* Rows of other components come and go.
AddDependent(p, kind) ==
    /\ ProjectExists(p)
    /\ dependents' = [dependents EXCEPT ![p] = @ \cup {kind}]
    /\ UNCHANGED <<projects, active, underway>>
DropDependent(p, kind) ==
    /\ dependents' = [dependents EXCEPT ![p] = @ \ {kind}]
    /\ kind \in dependents[p]
    /\ UNCHANGED <<projects, active, underway>>

-----------------------------------------------------------------------------
\* _check_blocking_dependencies.
Blocked(p) == dependents[p] \cap Checked # {}

\* The delete itself: a restricting row stops it with 409, the rest is taken
\* along, invoices that appeared after the look included.
Deleted(p) ==
    /\ ProjectExists(p)
    /\ dependents[p] \cap Restricting = {}
    /\ projects' = [projects EXCEPT ![p] = NoProject]
    /\ dependents' = [dependents EXCEPT ![p] = {}]
    /\ UNCHANGED active

DeleteProject(p) ==
    /\ ~Blocked(p)
    /\ Deleted(p)
    /\ UNCHANGED underway
\* The lock is taken before the look, but what is seen is older.
BeginDelete(r, p) ==
    /\ underway[r] = NoCreation
    /\ ProjectExists(p) /\ ~Blocked(p)
    /\ underway' = [underway EXCEPT ![r] = [op |-> "delete", project |-> p]]
    /\ UNCHANGED <<projects, dependents, active>>
CommitDelete(r) ==
    /\ underway[r].op = "delete"
    /\ Deleted(underway[r].project)
    /\ underway' = [underway EXCEPT ![r] = NoCreation]

Refuse(r) ==
    /\ underway[r] # NoCreation
    /\ underway' = [underway EXCEPT ![r] = NoCreation]
    /\ UNCHANGED <<projects, dependents, active>>

ProjectsNext ==
    \/ SubscriptionChanges
    \/ \E p \in ProjectId, s \in ProjectStatus :
           \/ CreateProject(p, s) \/ UpdateProject(p, s)
           \/ \E r \in Requests : CommitCreate(r, p, s)
    \/ \E p \in ProjectId, k \in DependentKind : AddDependent(p, k) \/ DropDependent(p, k)
    \/ \E p \in ProjectId : DeleteProject(p) \/ \E r \in Requests : BeginDelete(r, p)
    \/ \E r \in Requests : BeginCreate(r) \/ CommitDelete(r) \/ Refuse(r)

ProjectsSpec == ProjectsInit /\ [][ProjectsNext]_projectVars

-----------------------------------------------------------------------------
ProjectsTypeOK ==
    /\ projects \in [ProjectId -> ProjectStatus \cup {NoProject}]
    /\ dependents \in [ProjectId -> SUBSET DependentKind]
    /\ active \in BOOLEAN
    /\ underway \in [Requests -> {NoCreation, [op |-> "create"]}
                                 \cup [op : {"delete"}, project : ProjectId]]

Creating == {r \in Requests : underway[r].op = "create"}

\* However creations overlap, a company exceeds its quota by no more projects than
\* it has requests running at a time, the undecided ones included.
QuotaOverrunBounded ==
    Cardinality(Existing) + Cardinality(Creating) <= MaxProjects + Cardinality(Requests)

=============================================================================
