---------------------------- MODULE ReviewedFiles ----------------------------
(***************************************************************************)
(* Files that are approved: the documents of a project (app/api/document.py)*)
(* and its drawings with their revisions (app/api/project.py, drawing       *)
(* router), and the approvals of both (app/api/approval.py).                *)
(*                                                                         *)
(* Nothing is locked.  The edit of a document checks a status that an       *)
(* approval request may change before the edit is committed, and an upload  *)
(* takes the number of its revision from the snapshot of the request while  *)
(* its UPDATE of the earlier revisions works on what is there: both are     *)
(* modelled in two steps as well as in one.                                 *)
(*                                                                         *)
(* Left out: files on disk, what is filed in which folder, titles, remarks.  *)
(***************************************************************************)
EXTENDS Integers, Sequences, FiniteSets

CONSTANTS
    Document,
    DrawingName,   \* names of drawings
    MaxDrawing,    \* bound: rows of drawing_documents
    MaxContent,    \* bound: changes of a document
    Reviewer,
    Reviewing      \* request slots

ASSUME MaxDrawingAssumption == MaxDrawing \in Nat
ASSUME MaxContentAssumption == MaxContent \in Nat
\* An approval names the kind of what it is about.
ASSUME DocumentAssumption == Document \cap (1..MaxDrawing) = {}

VARIABLES
    documents,
    drawings,      \* drawing_documents, in id order
    askedFor,      \* pending approvals: who asked, or nobody
    inFlight,      \* requests in progress and what they have read
    underReview,   \* history: the content of a document when it was asked for
    disturbed      \* history: documents and names that overlaps or renames touched

fileVars == <<documents, drawings, askedFor, inFlight, underReview, disturbed>>

-----------------------------------------------------------------------------
DocumentStatus == {"PENDING", "UNDER_REVIEW", "APPROVED", "REJECTED"}
DocumentRow == [status : DocumentStatus, folder : BOOLEAN, content : 0..MaxContent, deleted : BOOLEAN]
DrawingRow  == [name : DrawingName, revision : Nat, latest : BOOLEAN,
                status : DocumentStatus, deleted : BOOLEAN]
NoDocument == [status |-> "none"]
NoReviewer     == "nobody"
NotInFlight == [op |-> "none"]
DrawingId  == 1..MaxDrawing
FileEntity     == Document \cup DrawingId

DocumentExists(d) == documents[d] # NoDocument /\ ~documents[d].deleted
DrawingExists(i)  == i \in DOMAIN drawings /\ ~drawings[i].deleted
RevisionsOf(name) == {i \in DOMAIN drawings : DrawingExists(i) /\ drawings[i].name = name}
LatestOf(name)    == {i \in RevisionsOf(name) : drawings[i].latest}

FilesInit ==
    /\ documents = [d \in Document |-> NoDocument]
    /\ drawings = <<>>
    /\ askedFor = [e \in FileEntity |-> NoReviewer]
    /\ inFlight = [r \in Reviewing |-> NotInFlight]
    /\ underReview = [d \in Document |-> -1]
    /\ disturbed = {}

-----------------------------------------------------------------------------
(* Documents.                                                               *)

CreateDocument(d, status, folder) ==
    /\ documents[d] = NoDocument
    /\ documents' = [documents EXCEPT ![d] = [status |-> status, folder |-> folder,
                                              content |-> 0, deleted |-> FALSE]]
    /\ UNCHANGED <<drawings, askedFor, inFlight, underReview, disturbed>>
CreateFile(d) == CreateDocument(d, "PENDING", FALSE)
\* A folder is approved from the start, so nothing ever deletes it.
CreateFolder(d) == CreateDocument(d, "APPROVED", TRUE)

\* Mutant: only an approved document is closed.
DocumentEditableUntilApproved(d) == DocumentExists(d) /\ documents[d].status # "APPROVED"
DocumentEditable(d) == DocumentExists(d) /\ documents[d].status \in {"PENDING", "REJECTED"}

Rewritten(d) ==
    /\ documents[d].content < MaxContent
    /\ documents' = [documents EXCEPT ![d].content = @ + 1]

UpdateDocument(d) ==
    /\ DocumentEditable(d)
    /\ Rewritten(d)
    /\ UNCHANGED <<drawings, askedFor, inFlight, underReview, disturbed>>
BeginUpdate(r, d) ==
    /\ inFlight[r] = NotInFlight
    /\ DocumentEditable(d)
    /\ inFlight' = [inFlight EXCEPT ![r] = [op |-> "update", document |-> d]]
    /\ UNCHANGED <<documents, drawings, askedFor, underReview, disturbed>>
CommitFileUpdate(r) ==
    /\ inFlight[r].op = "update"
    /\ LET d == inFlight[r].document IN
       /\ DocumentExists(d)
       /\ Rewritten(d)
       /\ disturbed' = IF DocumentEditable(d) THEN disturbed ELSE disturbed \cup {d}
    /\ inFlight' = [inFlight EXCEPT ![r] = NotInFlight]
    /\ UNCHANGED <<drawings, askedFor, underReview>>

\* The row is deleted with what is below it.
DeleteDocument(d) ==
    /\ DocumentEditable(d)
    /\ documents' = [documents EXCEPT ![d].deleted = TRUE]
    /\ UNCHANGED <<drawings, askedFor, inFlight, underReview, disturbed>>

-----------------------------------------------------------------------------
(* Drawings.                                                                *)

\* Mutant: the revision before stays the latest.
SupersededNot(name) == drawings
Superseded(name) ==
    [i \in DOMAIN drawings |-> IF i \in LatestOf(name)
                               THEN [drawings[i] EXCEPT !.latest = FALSE] ELSE drawings[i]]
\* One more than the highest revision of the name: the least number above all of them.
Above(name) == {v \in 1..Len(drawings) + 1 : \A i \in RevisionsOf(name) : drawings[i].revision < v}
NextRevision(name, v) == v \in Above(name) /\ \A u \in Above(name) : v <= u

\* A new drawing asks for its approval itself.
Uploaded(name, revision, user) ==
    /\ Len(drawings) < MaxDrawing
    /\ drawings' = Append(Superseded(name),
           [name |-> name, revision |-> revision, latest |-> TRUE,
            status |-> "UNDER_REVIEW", deleted |-> FALSE])
    /\ askedFor' = [askedFor EXCEPT ![Len(drawings) + 1] = user]
    /\ UNCHANGED <<documents, underReview>>

UploadDrawing(name, user) ==
    /\ \E v \in Above(name) : NextRevision(name, v) /\ Uploaded(name, v, user)
    /\ UNCHANGED <<inFlight, disturbed>>
BeginUpload(r, name) ==
    /\ inFlight[r] = NotInFlight
    /\ \E v \in Above(name) :
           /\ NextRevision(name, v)
           /\ inFlight' = [inFlight EXCEPT ![r] = [op |-> "upload", name |-> name, revision |-> v]]
    /\ UNCHANGED <<documents, drawings, askedFor, underReview, disturbed>>
CommitUpload(r, user) ==
    /\ inFlight[r].op = "upload"
    /\ LET q == inFlight[r] IN
       /\ Uploaded(q.name, q.revision, user)
       /\ disturbed' = IF NextRevision(q.name, q.revision) THEN disturbed
                       ELSE disturbed \cup {q.name}
    /\ inFlight' = [inFlight EXCEPT ![r] = NotInFlight]

\* The name and version of another drawing are refused, its name alone is not.
UpdateDrawing(i, name) ==
    /\ DrawingExists(i)
    /\ drawings[i].status # "APPROVED"
    /\ drawings' = [drawings EXCEPT ![i].name = name]
    /\ disturbed' = IF name = drawings[i].name THEN disturbed ELSE disturbed \cup {name}
    /\ UNCHANGED <<documents, askedFor, inFlight, underReview>>

\* An earlier revision does not become the latest again.
DeleteDrawing(i) ==
    /\ DrawingExists(i)
    /\ drawings' = [drawings EXCEPT ![i].deleted = TRUE]
    /\ askedFor' = [askedFor EXCEPT ![i] = NoReviewer]
    /\ UNCHANGED <<documents, inFlight, underReview, disturbed>>

-----------------------------------------------------------------------------
(* Approvals: a document is asked for while it is open, a drawing always.   *)

AskForDocument(d, user) ==
    /\ askedFor[d] = NoReviewer
    /\ DocumentEditable(d)
    /\ documents' = [documents EXCEPT ![d].status = "UNDER_REVIEW"]
    /\ askedFor' = [askedFor EXCEPT ![d] = user]
    /\ underReview' = [underReview EXCEPT ![d] = documents[d].content]
    /\ UNCHANGED <<drawings, inFlight, disturbed>>
AskForDrawing(i, user) ==
    /\ askedFor[i] = NoReviewer
    /\ DrawingExists(i)
    /\ drawings' = [drawings EXCEPT ![i].status = "UNDER_REVIEW"]
    /\ askedFor' = [askedFor EXCEPT ![i] = user]
    /\ UNCHANGED <<documents, inFlight, underReview, disturbed>>

Verdict == {"APPROVED", "REJECTED"}
DecideFile(e, user, verdict) ==
    /\ askedFor[e] \notin {NoReviewer, user}
    /\ askedFor' = [askedFor EXCEPT ![e] = NoReviewer]
    /\ \/ /\ e \in Document /\ DocumentExists(e)
          /\ documents' = [documents EXCEPT ![e].status = verdict]
          /\ UNCHANGED drawings
       \/ /\ e \in DrawingId /\ DrawingExists(e)
          /\ drawings' = [drawings EXCEPT ![e].status = verdict]
          /\ UNCHANGED documents
    /\ UNCHANGED <<inFlight, underReview, disturbed>>

Abandon(r) ==
    /\ inFlight[r] # NotInFlight
    /\ inFlight' = [inFlight EXCEPT ![r] = NotInFlight]
    /\ UNCHANGED <<documents, drawings, askedFor, underReview, disturbed>>

FilesNext ==
    \/ \E d \in Document :
           \/ CreateFile(d) \/ CreateFolder(d)
           \/ UpdateDocument(d) \/ DeleteDocument(d)
           \/ \E u \in Reviewer : AskForDocument(d, u)
    \/ \E n \in DrawingName, u \in Reviewer : UploadDrawing(n, u)
    \/ \E i \in DOMAIN drawings :
           \/ DeleteDrawing(i)
           \/ \E n \in DrawingName : UpdateDrawing(i, n)
           \/ \E u \in Reviewer : AskForDrawing(i, u)
    \/ \E e \in FileEntity, u \in Reviewer, v \in Verdict : DecideFile(e, u, v)
    \/ \E r \in Reviewing :
           \/ \E d \in Document : BeginUpdate(r, d)
           \/ \E n \in DrawingName : BeginUpload(r, n)
           \/ \E u \in Reviewer : CommitUpload(r, u)
           \/ CommitFileUpdate(r) \/ Abandon(r)
FilesSpec == FilesInit /\ [][FilesNext]_fileVars

-----------------------------------------------------------------------------
FilesTypeOK ==
    /\ documents \in [Document -> DocumentRow \cup {NoDocument}]
    /\ drawings \in Seq(DrawingRow)
    /\ askedFor \in [FileEntity -> Reviewer \cup {NoReviewer}]
    /\ inFlight \in [Reviewing -> [op : {"update"}, document : Document] \cup {NotInFlight}
                                  \cup [op : {"upload"}, name : DrawingName, revision : Nat]]
    /\ underReview \in [Document -> Int]
    /\ disturbed \subseteq Document \cup DrawingName

\* What was approved is what the approval was asked for, and of the revisions of a
\* drawing one at most is the latest, with the highest number: overlapping edits
\* and uploads and renamed drawings aside.
ReviewedStands ==
    /\ \A d \in Document \ disturbed :
           DocumentExists(d) /\ ~documents[d].folder
               /\ documents[d].status \in {"UNDER_REVIEW", "APPROVED"} =>
           documents[d].content = underReview[d]
    /\ \A n \in DrawingName \ disturbed, i \in DOMAIN drawings, j \in DOMAIN drawings :
           i \in LatestOf(n) /\ j \in RevisionsOf(n) /\ j # i =>
               drawings[j].revision < drawings[i].revision
=============================================================================
