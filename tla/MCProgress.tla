----------------------------- MODULE MCProgress -----------------------------
(* What must come to an end: the answers to the provider's notifications, the *)
(* creations that draw a business id, and the turns of the reconciliation      *)
(* workers.  They have no state in common, so a behaviour shows one of them,   *)
(* under its own fairness: scene says which.                                   *)
EXTENDS MCSaasBilling, BusinessIds, ReconciliationWorker

CONSTANTS c1, c2, c3, w1, w2

VARIABLE scene

Scene == {"answers", "ids", "workers"}
allVars == <<scene, vars, idsVars, workerVars>>

MCInit ==
    /\ scene \in Scene
    /\ Init /\ IdsInit /\ WorkerInit
    /\ scene # "answers" => sub.status = "active" /\ sub.plan = basic
    /\ scene # "ids" => Cardinality(ids) = 0

MCNext ==
    \/ scene = "answers" /\ Next       /\ UNCHANGED <<scene, idsVars, workerVars>>
    \/ scene = "ids"     /\ IdsNext    /\ UNCHANGED <<scene, vars, workerVars>>
    \/ scene = "workers" /\ WorkerNext /\ UNCHANGED <<scene, vars, idsVars>>

\* The fairness of FairSpec, FairIdsSpec and FairWorkerSpec, each in its scene.
Fair(s, A) == scene = s /\ A
MCFairSpec ==
    /\ MCInit /\ [][MCNext]_allVars
    /\ \A m \in Message : /\ SF_vars(Fair("answers", Deliver(m)))
                          /\ SF_vars(Fair("answers", Conclude(m)))
    /\ \A r \in Request : WF_vars(Fair("answers", Abort(r)))
    /\ \A c \in Creator :
        WF_idsVars(Fair("ids", Attempt(c) \/ Insert(c) \/ Conflict(c) \/ GiveUp(c)))
    /\ WF_workerVars(Fair("workers", Expire))
    /\ \A w \in Worker :
        /\ WF_workerVars(Fair("workers", Scan(w) \/ Finish(w) \/ ReleaseAfterScan(w) \/ Close(w)))
        /\ SF_workerVars(Fair("workers", Acquire(w)))

-----------------------------------------------------------------------------
\* Every row, every key and every lock keeps its type.
ProgressTypesOK == TypeOK /\ IdsTypeOK /\ WorkerTypeOK
\* Every notification is answered in the end (POST /saas-billing/webhook).
AcksComplete == scene = "answers" => EventuallyAcked
\* Every creation draws an id, or the ids outgrow their width.
CreationsComplete == scene = "ids" => EveryCreationSucceeds
\* Every worker that goes on waiting scans again.
ScansComplete == scene = "workers" => EveryWorkerScans
=============================================================================
