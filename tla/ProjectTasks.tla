---------------------------- MODULE ProjectTasks ----------------------------
(***************************************************************************)
(* What one project is made of (app/api/project.py): members, milestones,   *)
(* tasks with their assignees and progress.                                 *)
(*                                                                         *)
(* A handler that changes a row locks it and reads it afresh.  Who is a     *)
(* member is read from the snapshot of the request, and a new task locks    *)
(* nothing: assigning is therefore modelled in one step and in two.         *)
(*                                                                         *)
(* Left out: titles and their unique keys, priorities, planned dates,       *)
(* comments, attachments, notifications, the rows of the activity log.      *)
(***************************************************************************)
EXTENDS Integers, Sequences, FiniteSets

CONSTANTS
    User,
    Worker,        \* users who have a labour row
    Milestone,
    Task,
    Assigning,     \* request slots that assign a task while others run
    Percent,       \* percentages a client reports
    MaxReports     \* bound: progress reports of a task

ASSUME WorkerAssumption  == Worker \subseteq User
ASSUME PercentAssumption == Percent \subseteq 0..100

VARIABLES
    members,       \* project_members
    siteWorkers,   \* labour_projects: who is on the list of the site
    milestones,
    tasks,
    reports,       \* task_progress: the percentages reported for a task
    assigning,     \* assignments in progress and the members they have seen
    left           \* history: users who lost their membership

taskVars == <<members, siteWorkers, milestones, tasks, reports, assigning, left>>

-----------------------------------------------------------------------------
NoMilestone == "none"
MilestoneStatus == {"Planned", "In Progress", "Completed", "Delayed"}
TaskStatus == {"Planned", "In Progress", "Completed"}
MilestoneRow == [status : MilestoneStatus, started : BOOLEAN, ended : BOOLEAN]
TaskRow == [status : TaskStatus, milestone : Milestone \cup {NoMilestone},
            assignees : SUBSET User, completion : {0} \cup Percent]
Missing == [status |-> "missing"]
NotAssigning == [task |-> "none"]

MilestoneExists(m) == milestones[m] # Missing
TaskExists(t)      == tasks[t] # Missing
MilestoneChoice    == {m \in Milestone : MilestoneExists(m)} \cup {NoMilestone}

TasksInit ==
    /\ members = {} /\ siteWorkers = {}
    /\ milestones = [m \in Milestone |-> Missing]
    /\ tasks = [t \in Task |-> Missing]
    /\ reports = [t \in Task |-> <<>>]
    /\ assigning = [r \in Assigning |-> NotAssigning]
    /\ left = {}

-----------------------------------------------------------------------------
(* Members: both handlers lock the project.                                 *)

AssignMember(u) ==
    /\ u \notin members
    /\ members' = members \cup {u}
    /\ siteWorkers' = siteWorkers \cup ({u} \cap Worker)
    /\ UNCHANGED <<milestones, tasks, reports, assigning, left>>

\* The assignments of the user stay, and so does the labour row's project.
RemoveMember(u) ==
    /\ u \in members
    /\ members' = members \ {u}
    /\ left' = left \cup {u}
    /\ UNCHANGED <<siteWorkers, milestones, tasks, reports, assigning>>

-----------------------------------------------------------------------------
(* Milestones.  A status brings the dates it stands for with it.            *)

MilestoneIn(status, started, ended) ==
    CASE status = "Planned"     -> [status |-> status, started |-> FALSE, ended |-> FALSE]
      [] status = "In Progress" -> [status |-> status, started |-> TRUE, ended |-> FALSE]
      [] status = "Completed"   -> [status |-> status, started |-> TRUE, ended |-> TRUE]
      [] status = "Delayed"     -> [status |-> status, started |-> started, ended |-> FALSE]

CreateMilestone(m, status, started) ==
    /\ ~MilestoneExists(m)
    /\ milestones' = [milestones EXCEPT ![m] = MilestoneIn(status, started, FALSE)]
    /\ UNCHANGED <<members, siteWorkers, tasks, reports, assigning, left>>

\* Dates that come without a status are taken as they are.
UpdateMilestone(m, status, started, ended) ==
    /\ MilestoneExists(m)
    /\ LET row == milestones[m] IN
       milestones' = [milestones EXCEPT ![m] =
           IF status = row.status
           THEN [row EXCEPT !.started = @ \/ started, !.ended = @ \/ ended]
           ELSE MilestoneIn(status, row.started \/ started, ended)]
    /\ UNCHANGED <<members, siteWorkers, tasks, reports, assigning, left>>

DeleteMilestone(m) ==
    /\ MilestoneExists(m)
    /\ milestones' = [milestones EXCEPT ![m] = Missing]
    /\ tasks' = [t \in Task |-> IF TaskExists(t) /\ tasks[t].milestone = m
                                THEN [tasks[t] EXCEPT !.milestone = NoMilestone] ELSE tasks[t]]
    /\ UNCHANGED <<members, siteWorkers, reports, assigning, left>>

-----------------------------------------------------------------------------
(* Tasks.                                                                   *)

NewTask(m, status, users) ==
    [status |-> status, milestone |-> m, assignees |-> users, completion |-> 0]

CreateTask(t, m, status, users) ==
    /\ ~TaskExists(t)
    /\ m \in MilestoneChoice
    /\ users \subseteq members
    /\ tasks' = [tasks EXCEPT ![t] = NewTask(m, status, users)]
    /\ reports' = [reports EXCEPT ![t] = <<>>]
    /\ UNCHANGED <<members, siteWorkers, milestones, assigning, left>>

\* update_task replaces the assignees, removing and adding what differs.
UpdateTask(t, m, status, users) ==
    /\ TaskExists(t)
    /\ m \in MilestoneChoice
    /\ users # {} /\ users \subseteq members
    /\ tasks' = [tasks EXCEPT ![t].milestone = IF m = NoMilestone THEN @ ELSE m,
                              ![t].status = status, ![t].assignees = users]
    /\ UNCHANGED <<members, siteWorkers, milestones, reports, assigning, left>>

UpdateTaskStatus(t, status) ==
    /\ TaskExists(t)
    /\ tasks' = [tasks EXCEPT ![t].status = status]
    /\ UNCHANGED <<members, siteWorkers, milestones, reports, assigning, left>>

\* pass_task leaves one assignee: the membership is that of the snapshot.
PassTask(t, u) ==
    /\ TaskExists(t)
    /\ u \in members
    /\ tasks' = [tasks EXCEPT ![t].assignees = {u}]
    /\ UNCHANGED <<members, siteWorkers, milestones, reports, assigning, left>>
BeginPass(r, t, u) ==
    /\ assigning[r] = NotAssigning
    /\ TaskExists(t) /\ u \in members
    /\ assigning' = [assigning EXCEPT ![r] = [task |-> t, user |-> u]]
    /\ UNCHANGED <<members, siteWorkers, milestones, tasks, reports, left>>
CommitPass(r) ==
    /\ assigning[r] # NotAssigning
    /\ assigning' = [assigning EXCEPT ![r] = NotAssigning]
    /\ LET t == assigning[r].task IN
       tasks' = [tasks EXCEPT ![t] =
           IF TaskExists(t) THEN [@ EXCEPT !.assignees = {assigning[r].user}] ELSE @]
    /\ UNCHANGED <<members, siteWorkers, milestones, reports, left>>

DeleteTask(t) ==
    /\ TaskExists(t)
    /\ tasks' = [tasks EXCEPT ![t] = Missing]
    /\ reports' = [reports EXCEPT ![t] = <<>>]
    /\ UNCHANGED <<members, siteWorkers, milestones, assigning, left>>

\* _assert_progress_or_comment_auth; managers always may.
MayReport(t, u, isManager) == isManager \/ u \in tasks[t].assignees \cup members

\* Mutant: any percentage is taken.
ProgressAny(t, percentage) == percentage >= 0
Progress(t, percentage)    == percentage >= tasks[t].completion

UpdateTaskProgress(t, u, isManager, percentage) ==
    /\ TaskExists(t)
    /\ MayReport(t, u, isManager)
    /\ Progress(t, percentage)
    /\ Len(reports[t]) < MaxReports
    /\ reports' = [reports EXCEPT ![t] = Append(@, percentage)]
    /\ tasks' = [tasks EXCEPT ![t].completion = percentage]
    /\ UNCHANGED <<members, siteWorkers, milestones, assigning, left>>

-----------------------------------------------------------------------------
TasksNext ==
    \/ \E u \in User : AssignMember(u) \/ RemoveMember(u)
    \/ \E m \in Milestone, s \in MilestoneStatus, started \in BOOLEAN :
           \/ CreateMilestone(m, s, started)
           \/ \E ended \in BOOLEAN : UpdateMilestone(m, s, started, ended)
    \/ \E m \in Milestone : DeleteMilestone(m)
    \/ \E t \in Task, s \in TaskStatus :
           \/ UpdateTaskStatus(t, s)
           \/ \E m \in Milestone \cup {NoMilestone}, us \in SUBSET User :
                  CreateTask(t, m, s, us) \/ UpdateTask(t, m, s, us)
    \/ \E t \in Task, u \in User :
           \/ PassTask(t, u)
           \/ \E r \in Assigning : BeginPass(r, t, u)
           \/ \E p \in Percent, isManager \in BOOLEAN : UpdateTaskProgress(t, u, isManager, p)
    \/ \E r \in Assigning : CommitPass(r)
    \/ \E t \in Task : DeleteTask(t)
TasksSpec == TasksInit /\ [][TasksNext]_taskVars

-----------------------------------------------------------------------------
TasksTypeOK ==
    /\ members \subseteq User /\ siteWorkers \subseteq Worker /\ left \subseteq User
    /\ milestones \in [Milestone -> MilestoneRow \cup {Missing}]
    /\ tasks \in [Task -> TaskRow \cup {Missing}]
    /\ reports \in [Task -> Seq(Percent)]
    /\ assigning \in [Assigning -> {NotAssigning} \cup [task : Task, user : User]]

\* What a task shows is what was reported last, nobody ever reported less than
\* before, and a report of someone who is not on the project any more counts.
CompletionIsLastReport ==
    \A t \in Task : TaskExists(t) =>
        LET n == Len(reports[t]) IN
        /\ tasks[t].completion = IF n = 0 THEN 0 ELSE reports[t][n]
        /\ \A i \in 1..n - 1 : reports[t][i] <= reports[t][i + 1]

\* A task has an assignee who is not on the project only if that user was, and
\* was removed: neither a reassignment nor an overlap brings in an outsider.
AssigneesWereMembers ==
    \A t \in Task : TaskExists(t) => tasks[t].assignees \subseteq members \cup left
=============================================================================
