----------------------------- MODULE SiteRecords -----------------------------
(***************************************************************************)
(* The records a site keeps beside its work (app/api/project.py): daily     *)
(* site reports with their photos, issues, checklists, quality and safety   *)
(* records, requests of the site and requests for tasks.                    *)
(*                                                                         *)
(* A record is one row of a table of its kind.  Reports, issues and both    *)
(* kinds of requests are locked and read afresh, checklists, quality and    *)
(* safety records are not; no handler uses what another one may have        *)
(* changed meanwhile, except that a key is looked up before the insert and  *)
(* the unique constraint decides.  Each request is therefore one step.      *)
(*                                                                         *)
(* Left out: texts, files on disk, weather, the count of labour on site, and*)
(* everything the server does not look at again.                            *)
(***************************************************************************)
EXTENDS Integers, FiniteSets

CONSTANTS
    SiteRecord,
    Key,           \* dates of reports, titles of issues, items of checklists
    Person,
    MaxEdits       \* bound: changes of the text of a record

ASSUME MaxEditsAssumption == MaxEdits \in Nat

VARIABLES
    records,
    photos,        \* records with a photo that refers to them
    logs,          \* checklist_logs: checklists that were executed
    approvedText   \* history: the text an approved report had then

siteVars == <<records, photos, logs, approvedText>>

-----------------------------------------------------------------------------
DailySiteReportStatus == {"Draft", "Submitted", "Approved"}
IssueStatus   == {"Open", "Closed"}
RequestStatus == {"Pending", "Approved", "Rejected"}
Listing       == {"listed", "deleted"}

DailySiteReport == [kind : {"report"}, status : DailySiteReportStatus, key : Key,
                    author : Person, text : 0..MaxEdits]
Issue       == [kind : {"issue"}, status : IssueStatus, key : Key, resolved : BOOLEAN]
SiteRequest == [kind : {"site request"}, status : RequestStatus]
TaskRequest == [kind : {"task request"}, status : RequestStatus, flag : Listing]
Checklist   == [kind : {"checklist"}, items : SUBSET Key]
QCRecord       == [kind : {"qc"}, text : 0..MaxEdits]
SafetyIncident == [kind : {"incident"}, text : 0..MaxEdits]
NoRecord == [kind |-> "none"]
RecordRow == UNION {DailySiteReport, Issue, SiteRequest, TaskRequest, Checklist, QCRecord,
                    SafetyIncident, {NoRecord}}
NoText   == -1

Of(kind) == {r \in SiteRecord : records[r].kind = kind}
Unused   == Of("none")

\* uq_project_dsr_date and uq_issue_project_title, for the rows of one kind.
FreeKey(kind, key, r) == \A other \in Of(kind) \ {r} : records[other].key # key

SiteInit ==
    /\ records = [r \in SiteRecord |-> NoRecord]
    /\ photos = {}
    /\ logs = {}
    /\ approvedText = [r \in SiteRecord |-> NoText]

Put(r, row) == records' = [records EXCEPT ![r] = row]
PutOnly(r, row) == Put(r, row) /\ UNCHANGED <<photos, logs, approvedText>>
Drop(r) ==
    /\ Put(r, NoRecord)
    /\ photos' = photos \ {r}
    /\ logs' = logs \ {r}
    /\ approvedText' = [approvedText EXCEPT ![r] = NoText]

-----------------------------------------------------------------------------
(* Daily site reports.                                                      *)

CreateDSR(r, date, author, withPhoto) ==
    /\ r \in Unused
    /\ FreeKey("report", date, r)
    /\ Put(r, [kind |-> "report", status |-> "Draft", key |-> date, author |-> author, text |-> 0])
    /\ photos' = IF withPhoto THEN photos \cup {r} ELSE photos
    /\ UNCHANGED <<logs, approvedText>>

\* Mutant: the status does not matter.
OpenReportAny(r) == r \in Of("report")
OpenReport(r)    == r \in Of("report") /\ records[r].status # "Approved"

\* A submitted report may still be rewritten.
UpdateDSR(r, date) ==
    /\ OpenReport(r)
    /\ FreeKey("report", date, r)
    /\ records[r].text < MaxEdits
    /\ PutOnly(r, [records[r] EXCEPT !.key = date, !.text = @ + 1])

DeleteDSR(r) == OpenReport(r) /\ Drop(r)

\* A photo may be taken away whatever the status.
DeleteDSRPhoto(r) ==
    /\ r \in photos /\ r \in Of("report")
    /\ photos' = photos \ {r}
    /\ UNCHANGED <<records, logs, approvedText>>
UploadPhoto(r) ==
    /\ r \in Of("report")
    /\ photos' = photos \cup {r}
    /\ UNCHANGED <<records, logs, approvedText>>

SubmitDSR(r) ==
    /\ r \in Of("report") /\ records[r].status = "Draft"
    /\ PutOnly(r, [records[r] EXCEPT !.status = "Submitted"])
ApproveDSR(r, user, isSuperAdmin) ==
    /\ r \in Of("report") /\ records[r].status = "Submitted"
    /\ records[r].author # user \/ isSuperAdmin
    /\ Put(r, [records[r] EXCEPT !.status = "Approved"])
    /\ approvedText' = [approvedText EXCEPT ![r] = records[r].text]
    /\ UNCHANGED <<photos, logs>>
RejectDSR(r) ==
    /\ r \in Of("report") /\ records[r].status = "Submitted"
    /\ PutOnly(r, [records[r] EXCEPT !.status = "Draft"])

-----------------------------------------------------------------------------
(* Issues: closing one takes a resolution in the same request.              *)

CreateIssue(r, title, status) ==
    /\ r \in Unused
    /\ FreeKey("issue", title, r)
    /\ PutOnly(r, [kind |-> "issue", status |-> status, key |-> title, resolved |-> FALSE])
UpdateIssue(r, title, status, resolution) ==
    /\ r \in Of("issue")
    /\ FreeKey("issue", title, r)
    /\ status = "Closed" => resolution
    /\ PutOnly(r, [records[r] EXCEPT !.key = title, !.status = status,
                                     !.resolved = @ \/ resolution])
DeleteIssue(r) == r \in Of("issue") /\ Drop(r)

-----------------------------------------------------------------------------
(* Requests.  A decision looks at no status; a task request is decided by an*)
(* update, which may set the flag that hides it, too.                       *)

CreateSiteRequest(r) ==
    /\ r \in Unused
    /\ PutOnly(r, [kind |-> "site request", status |-> "Pending"])
DecideSiteRequest(r, decision) ==
    /\ r \in Of("site request")
    /\ PutOnly(r, [records[r] EXCEPT !.status = decision])

CreateTaskRequest(r, status) ==
    /\ r \in Unused
    /\ PutOnly(r, [kind |-> "task request", status |-> status, flag |-> "listed"])
OpenTaskRequest(r) == r \in Of("task request") /\ records[r].flag = "listed"
UpdateTaskRequest(r, status, flag) ==
    /\ OpenTaskRequest(r)
    /\ PutOnly(r, [records[r] EXCEPT !.status = status, !.flag = flag])
DeleteTaskRequest(r) ==
    /\ OpenTaskRequest(r)
    /\ PutOnly(r, [records[r] EXCEPT !.flag = "deleted"])

-----------------------------------------------------------------------------
(* Checklists, quality records and safety incidents.                        *)

CreateChecklist(r) == r \in Unused /\ PutOnly(r, [kind |-> "checklist", items |-> {}])
AddChecklistItem(r, item) ==
    /\ r \in Of("checklist") /\ item \notin records[r].items
    /\ PutOnly(r, [records[r] EXCEPT !.items = @ \cup {item}])
UpdateChecklistItem(r, item, new) ==
    /\ r \in Of("checklist") /\ item \in records[r].items
    /\ PutOnly(r, [records[r] EXCEPT !.items = (@ \ {item}) \cup {new}])
DeleteChecklistItem(r, item) ==
    /\ r \in Of("checklist") /\ item \in records[r].items
    /\ PutOnly(r, [records[r] EXCEPT !.items = @ \ {item}])
ExecuteChecklist(r) ==
    /\ r \in Of("checklist") /\ records[r].items # {}
    /\ logs' = logs \cup {r}
    /\ UNCHANGED <<records, photos, approvedText>>
DeleteChecklist(r) == r \in Of("checklist") /\ Drop(r)

CreateQC(r)       == r \in Unused /\ PutOnly(r, [kind |-> "qc", text |-> 0])
CreateIncident(r) == r \in Unused /\ PutOnly(r, [kind |-> "incident", text |-> 0])
UpdateInspection(r) ==
    /\ r \in Of("qc") \cup Of("incident")
    /\ records[r].text < MaxEdits
    /\ PutOnly(r, [records[r] EXCEPT !.text = @ + 1])
DeleteInspection(r) == r \in Of("qc") \cup Of("incident") /\ Drop(r)

SiteNext ==
    \E r \in SiteRecord :
        \/ \E d \in Key, p \in Person, photo \in BOOLEAN : CreateDSR(r, d, p, photo)
        \/ \E d \in Key : UpdateDSR(r, d)
        \/ DeleteDSR(r) \/ DeleteDSRPhoto(r) \/ UploadPhoto(r) \/ SubmitDSR(r) \/ RejectDSR(r)
        \/ \E p \in Person, isSuperAdmin \in BOOLEAN : ApproveDSR(r, p, isSuperAdmin)
        \/ \E t \in Key, s \in IssueStatus :
               CreateIssue(r, t, s) \/ \E res \in BOOLEAN : UpdateIssue(r, t, s, res)
        \/ DeleteIssue(r)
        \/ CreateSiteRequest(r) \/ DeleteTaskRequest(r)
        \/ \E d \in {"Approved", "Rejected"} : DecideSiteRequest(r, d)
        \/ \E s \in RequestStatus :
               CreateTaskRequest(r, s) \/ \E f \in Listing : UpdateTaskRequest(r, s, f)
        \/ CreateChecklist(r) \/ ExecuteChecklist(r) \/ DeleteChecklist(r)
        \/ \E i \in Key : AddChecklistItem(r, i) \/ DeleteChecklistItem(r, i) \/ \E n \in Key : UpdateChecklistItem(r, i, n)
        \/ CreateQC(r) \/ CreateIncident(r) \/ UpdateInspection(r) \/ DeleteInspection(r)
SiteSpec == SiteInit /\ [][SiteNext]_siteVars

-----------------------------------------------------------------------------
SiteTypeOK ==
    /\ records \in [SiteRecord -> RecordRow]
    /\ approvedText \in [SiteRecord -> {NoText} \cup 0..MaxEdits]
    /\ photos \subseteq SiteRecord /\ logs \subseteq SiteRecord

\* An approved daily report says what it said when it was approved, stays, and is
\* the only one of its day, whatever is submitted, rewritten and rejected around it.
ApprovedReportStands ==
    \A r \in SiteRecord : approvedText[r] # NoText =>
        /\ records[r].kind = "report" /\ records[r].status = "Approved"
        /\ records[r].text = approvedText[r]
        /\ FreeKey("report", records[r].key, r)
=============================================================================
