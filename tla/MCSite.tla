------------------------------- MODULE MCSite -------------------------------
(* The components a construction site works with, in one small instance.      *)
(* They write no table in common, so a behaviour shows one of them: scene     *)
(* says which, and the others keep their initial states.                      *)
EXTENDS WorkProgress, BillOfQuantities, MeasuredBilling, ProjectTasks,
        SiteRecords, WorkUpdates, Projects, ReviewedFiles, MaterialStock, TLC

CONSTANTS s1, s2, f1, r1, r2

\* What the overlapping requests for stock may be: of any kind next to reversals, or a
\* count next to a purchase.
AllThenReverse ==
    [r \in Request |-> IF r = r1 THEN {"purchase", "adjust", "update", "reverse"}
                      ELSE {"reverse"}]
CountThenBuy == [r \in Request |-> {"adjust", "purchase"}]
Interchangeable == Permutations(Project)

VARIABLE scene

Scene == {"work", "boq", "billing", "tasks", "records", "updates", "projects", "files",
          "stock"}
allVars == <<scene, workVars, boqVars, billingVars, taskVars,
             siteVars, updateVars, projectVars, fileVars, vars>>

MCInit ==
    /\ scene \in Scene
    /\ WorkInit /\ BOQInit /\ BillingInit /\ TasksInit
    /\ SiteInit /\ UpdatesInit /\ ProjectsInit /\ FilesInit /\ Init
    /\ active \/ scene = "projects"

MCNext ==
    \/ /\ scene = "work" /\ WorkNext
       /\ UNCHANGED <<scene, boqVars, billingVars, taskVars, siteVars, updateVars,
                      projectVars, fileVars, vars>>
    \/ /\ scene = "boq" /\ BOQNext
       /\ UNCHANGED <<scene, workVars, billingVars, taskVars, siteVars, updateVars,
                      projectVars, fileVars, vars>>
    \/ /\ scene = "billing" /\ BillingNext
       /\ UNCHANGED <<scene, workVars, boqVars, taskVars, siteVars, updateVars,
                      projectVars, fileVars, vars>>
    \/ /\ scene = "tasks" /\ TasksNext
       /\ UNCHANGED <<scene, workVars, boqVars, billingVars, siteVars, updateVars,
                      projectVars, fileVars, vars>>
    \/ /\ scene = "records" /\ SiteNext
       /\ UNCHANGED <<scene, workVars, boqVars, billingVars, taskVars, updateVars,
                      projectVars, fileVars, vars>>
    \/ /\ scene = "updates" /\ UpdatesNext
       /\ UNCHANGED <<scene, workVars, boqVars, billingVars, taskVars, siteVars,
                      projectVars, fileVars, vars>>
    \/ /\ scene = "projects" /\ ProjectsNext
       /\ UNCHANGED <<scene, workVars, boqVars, billingVars, taskVars, siteVars,
                      updateVars, fileVars, vars>>
    \/ /\ scene = "files" /\ FilesNext
       /\ UNCHANGED <<scene, workVars, boqVars, billingVars, taskVars, siteVars,
                      updateVars, projectVars, vars>>
    \/ /\ scene = "stock" /\ Next
       /\ UNCHANGED <<scene, workVars, boqVars, billingVars, taskVars, siteVars,
                      updateVars, projectVars, fileVars>>
MCSpec == MCInit /\ [][MCNext]_allVars

-----------------------------------------------------------------------------
\* Every table keeps its columns' types.
SiteTypesOK ==
    /\ scene = "work"     => WorkTypeOK
    /\ scene = "boq"      => BOQTypeOK
    /\ scene = "billing"  => BillingTypeOK
    /\ scene = "tasks"    => TasksTypeOK
    /\ scene = "records"  => SiteTypeOK
    /\ scene = "updates"  => UpdatesTypeOK
    /\ scene = "projects" => ProjectsTypeOK
    /\ scene = "files"    => FilesTypeOK
    /\ scene = "stock"    => TypeOK

\* What was done is counted once: the quantities of activities and work orders are
\* the sums of their days, one version of the bill of quantities counts, a
\* measurement is claimed by one bill, and a task is as far as its last report, by
\* somebody of the project.
ProgressAddsUp ==
    /\ scene = "work"    => EntriesAddUp /\ OrderSumsActivities /\ StatusViewsAgree
    /\ scene = "boq"     => LatestIsCurrent
    /\ scene = "billing" => ClaimedOnce
    /\ scene = "tasks"   => CompletionIsLastReport /\ AssigneesWereMembers

\* What was recorded or approved stays what it was, and only what was asked for
\* waits for a decision: items of the bill of quantities, reports of the day, updates of
\* the work with their images, documents and drawings, and the quota of projects.
RecordsStand ==
    /\ scene = "boq"      => PendingIsAsked
    /\ scene = "records"  => ApprovedReportStands
    /\ scene = "updates"  => UpdatesAreShown
    /\ scene = "projects" => QuotaOverrunBounded
    /\ scene = "files"    => ReviewedStands
=============================================================================
