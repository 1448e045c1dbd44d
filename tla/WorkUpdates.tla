----------------------------- MODULE WorkUpdates -----------------------------
(***************************************************************************)
(* Work updates (app/api/work_update.py): what was done on a task on a day, *)
(* with images from before and after, a draft until it is submitted.        *)
(*                                                                         *)
(* No handler locks; all of them read the row and count the images in the   *)
(* snapshot of the request.  The deletion of an image, which looks at a     *)
(* status and a count others change, and the creation, which looks for an   *)
(* earlier draft that no unique key forbids, are modelled in two steps as   *)
(* well as in one.                                                          *)
(*                                                                         *)
(* Left out: hours and remarks, activity types, the files of the images.    *)
(***************************************************************************)
EXTENDS Integers, FiniteSets

CONSTANTS
    Update,
    Site,          \* the tasks (of open projects) an update may be about, on a day
    Author,
    Uploading,   \* request slots
    MaxImages      \* 10 in the code

ASSUME MaxImagesAssumption == MaxImages \in Nat \ {0}

VARIABLES
    updates,
    open,          \* tasks that are neither completed nor closed
    pending,       \* requests in progress and what they have seen
    outrun         \* history: updates changed by a request that began before

updateVars == <<updates, open, pending, outrun>>

Side == {"BEFORE", "AFTER"}
WorkUpdateRow == [status : {"Draft", "Submitted"}, site : Site, author : Author,
                  images : [Side -> 0..MaxImages]]
NoUpdate == [status |-> "none"]
NoUploadRequest == [op |-> "none"]

UpdateExists(w) == updates[w] # NoUpdate
Draft(w) == UpdateExists(w) /\ updates[w].status = "Draft"
DraftsOf(author, site) ==
    {w \in Update : Draft(w) /\ updates[w].author = author /\ updates[w].site = site}

UpdatesInit ==
    /\ updates = [w \in Update |-> NoUpdate]
    /\ open = Site
    /\ pending = [r \in Uploading |-> NoUploadRequest]
    /\ outrun = {}

\* _assert_task_open: tasks are completed and reopened elsewhere.
TaskSettled(t)  == t \in open /\ open' = open \ {t} /\ UNCHANGED <<updates, pending, outrun>>
TaskReopened(t) == t \notin open /\ open' = open \cup {t} /\ UNCHANGED <<updates, pending, outrun>>

-----------------------------------------------------------------------------
\* _assert_no_duplicate_draft.
NoDuplicateDraft(author, site, w) == DraftsOf(author, site) \subseteq {w}

Created(w, author, site) ==
    [updates EXCEPT ![w] = [status |-> "Draft", site |-> site, author |-> author,
                            images |-> [s \in Side |-> 0]]]

CreateWorkUpdate(w, author, site) ==
    /\ ~UpdateExists(w)
    /\ site \in open
    /\ NoDuplicateDraft(author, site, w)
    /\ updates' = Created(w, author, site)
    /\ UNCHANGED <<open, pending, outrun>>

BeginDraft(r, author, site) ==
    /\ pending[r] = NoUploadRequest
    /\ site \in open
    /\ DraftsOf(author, site) = {}
    /\ pending' = [pending EXCEPT ![r] = [op |-> "create", author |-> author, site |-> site]]
    /\ UNCHANGED <<updates, open, outrun>>
CommitDraft(r, w) ==
    /\ pending[r].op = "create"
    /\ ~UpdateExists(w)
    /\ LET q == pending[r] IN
       /\ updates' = Created(w, q.author, q.site)
       /\ outrun' = IF DraftsOf(q.author, q.site) = {} THEN outrun ELSE outrun \cup {w}
    /\ pending' = [pending EXCEPT ![r] = NoUploadRequest]
    /\ UNCHANGED open

\* The creator or an administrator; the drafts of the creator are looked through
\* if the task or the date changes.
UpdateWorkUpdate(w, site) ==
    /\ Draft(w)
    /\ site \in open
    /\ site # updates[w].site => NoDuplicateDraft(updates[w].author, site, w)
    /\ updates' = [updates EXCEPT ![w].site = site]
    /\ UNCHANGED <<open, pending, outrun>>

-----------------------------------------------------------------------------
UploadBeforeImage(w) ==
    /\ Draft(w)
    /\ updates[w].images["BEFORE"] < MaxImages
    /\ updates' = [updates EXCEPT ![w].images["BEFORE"] = @ + 1]
    /\ UNCHANGED <<open, pending, outrun>>

UploadAfterImage(w) ==
    /\ Draft(w)
    /\ updates[w].images["BEFORE"] > 0
    /\ updates[w].images["AFTER"] < MaxImages
    /\ updates' = [updates EXCEPT ![w].images["AFTER"] = @ + 1]
    /\ UNCHANGED <<open, pending, outrun>>

\* A replacement changes no count.  Mutant: the last image may be deleted.
SpareAny(w, side) == updates[w].images[side] > 0
Spare(w, side)    == updates[w].images[side] > 1

DeleteWorkUpdateImage(w, side) ==
    /\ Draft(w)
    /\ Spare(w, side)
    /\ updates' = [updates EXCEPT ![w].images[side] = @ - 1]
    /\ UNCHANGED <<open, pending, outrun>>

BeginDeleteImage(r, w, side) ==
    /\ pending[r] = NoUploadRequest
    /\ Draft(w) /\ Spare(w, side)
    /\ pending' = [pending EXCEPT ![r] = [op |-> "delete", update |-> w, side |-> side,
                                          seen |-> updates[w]]]
    /\ UNCHANGED <<updates, open, outrun>>

\* The image is gone at any rate; it was of the images that were seen.
CommitDeleteImage(r) ==
    /\ pending[r].op = "delete"
    /\ LET q == pending[r] IN
       /\ UpdateExists(q.update) /\ updates[q.update].images[q.side] > 0
       /\ updates' = [updates EXCEPT ![q.update].images[q.side] = @ - 1]
       /\ outrun' = IF updates[q.update] = q.seen THEN outrun ELSE outrun \cup {q.update}
    /\ pending' = [pending EXCEPT ![r] = NoUploadRequest]
    /\ UNCHANGED open

\* The row, or the image, has gone: nothing is changed.
Fail(r) ==
    /\ pending[r] # NoUploadRequest
    /\ pending' = [pending EXCEPT ![r] = NoUploadRequest]
    /\ UNCHANGED <<updates, open, outrun>>

-----------------------------------------------------------------------------
Shown(w) == \A s \in Side : updates[w].images[s] > 0

SubmitWorkUpdate(w) ==
    /\ Draft(w)
    /\ Shown(w)
    /\ updates' = [updates EXCEPT ![w].status = "Submitted"]
    /\ UNCHANGED <<open, pending, outrun>>

\* The images go with the row, the files after the commit.
DeleteWorkUpdate(w) ==
    /\ Draft(w)
    /\ updates' = [updates EXCEPT ![w] = NoUpdate]
    /\ outrun' = outrun \ {w}
    /\ UNCHANGED <<open, pending>>

UpdatesNext ==
    \/ \E t \in Site : TaskSettled(t) \/ TaskReopened(t)
    \/ \E w \in Update, t \in Site :
           UpdateWorkUpdate(w, t) \/ \E a \in Author : CreateWorkUpdate(w, a, t)
    \/ \E w \in Update :
           \/ UploadBeforeImage(w) \/ UploadAfterImage(w)
           \/ SubmitWorkUpdate(w) \/ DeleteWorkUpdate(w)
           \/ \E s \in Side : DeleteWorkUpdateImage(w, s)
    \/ \E r \in Uploading :
           \/ \E a \in Author, t \in Site : BeginDraft(r, a, t)
           \/ \E w \in Update, s \in Side : BeginDeleteImage(r, w, s)
           \/ \E w \in Update : CommitDraft(r, w)
           \/ CommitDeleteImage(r) \/ Fail(r)
UpdatesSpec == UpdatesInit /\ [][UpdatesNext]_updateVars

-----------------------------------------------------------------------------
UpdatesTypeOK ==
    /\ updates \in [Update -> WorkUpdateRow \cup {NoUpdate}]
    /\ open \subseteq Site
    /\ pending \in [Uploading -> [op : {"create"}, author : Author, site : Site] \cup {NoUploadRequest}
            \cup [op : {"delete"}, update : Update, side : Side, seen : WorkUpdateRow]]
    /\ outrun \subseteq Update

\* Every update shows the work from before as soon as it shows it from after, a
\* submitted one shows both, and nobody has two drafts for a task and a day -
\* except where a request decided on what another one then changed.
UpdatesAreShown ==
    \A w \in Update \ outrun : UpdateExists(w) =>
        /\ updates[w].images["AFTER"] > 0 => updates[w].images["BEFORE"] > 0
        /\ updates[w].status = "Submitted" => Shown(w)
        /\ Draft(w) => DraftsOf(updates[w].author, updates[w].site) \ outrun = {w}
=============================================================================
