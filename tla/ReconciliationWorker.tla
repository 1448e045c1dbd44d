------------------------ MODULE ReconciliationWorker ------------------------
(***************************************************************************)
(* Periodic billing reconciliation in several processes                     *)
(* (app/workers/billing_reconciliation_worker.py): a Redis key with a time  *)
(* to live is the lock; when Redis does not answer, a lock inside the       *)
(* process stands in.  Reconciliation itself only reads.                    *)
(***************************************************************************)
EXTENDS Integers, FiniteSets

CONSTANTS
    Worker, Nobody, Orphan,
    MaxCrashes   \* bound: crashes of worker processes

ASSUME NobodyAssumption     == {Nobody, Orphan} \cap Worker = {} /\ Nobody # Orphan
ASSUME MaxCrashesAssumption == MaxCrashes \in Nat

VARIABLES
    key,       \* the worker_id the Redis key holds; Orphan: of a process that is gone
    phase,     \* where each worker's loop is
    inProcess, \* is the worker's own asyncio lock taken
    crashes,
    mishaps    \* what went wrong so far with the key (history variable)

workerVars == <<key, phase, inProcess, crashes, mishaps>>

Phase == {"waiting", "granted", "scanning", "finished", "closing", "released", "stopped"}
\* The answer to SET is in, and the release has not happened.
InRun(w) == phase[w] \in {"granted", "scanning", "finished"}

\* A scan under the in-process lock, a key its holder could not delete, a key
\* that expired under its holder.
Mishap == {"fallback", "unreleased", "outlived"}

WorkerInit ==
    /\ key = Nobody
    /\ phase = [w \in Worker |-> "waiting"]
    /\ inProcess = [w \in Worker |-> FALSE]
    /\ crashes = 0
    /\ mishaps = {}

To(w, p) == phase' = [phase EXCEPT ![w] = p]

-----------------------------------------------------------------------------
\* _acquire_lock: SET NX EX takes effect in Redis; the answer is on its way.
\* Mutant: SET without NX.
KeyFreeAlways == key \in Worker \cup {Nobody, Orphan}
KeyFree       == key = Nobody
Acquire(w) ==
    /\ phase[w] = "waiting" /\ KeyFree
    /\ key' = w
    /\ To(w, "granted")
    /\ UNCHANGED <<inProcess, crashes, mishaps>>

\* run_once goes on with the lock, inside its try block.
Scan(w) ==
    /\ phase[w] = "granted"
    /\ To(w, "scanning")
    /\ UNCHANGED <<key, inProcess, crashes, mishaps>>

\* Redis raises: "Falling back to in-process lock."
AcquireInProcess(w) ==
    /\ phase[w] = "waiting" /\ ~inProcess[w]
    /\ inProcess' = [inProcess EXCEPT ![w] = TRUE]
    /\ To(w, "scanning")
    /\ mishaps' = mishaps \cup {"fallback"}
    /\ UNCHANGED <<key, crashes>>

\* The scan returns, or raises, into run_once's finally.
Finish(w) ==
    /\ phase[w] = "scanning"
    /\ To(w, "finished")
    /\ UNCHANGED <<key, inProcess, crashes, mishaps>>

\* RELEASE_LOCK_SCRIPT.  Mutant: the key is deleted whoever holds it.
DeletedBlindly(w) == IF w \in Worker THEN Nobody ELSE key
Deleted(w)        == IF key = w THEN Nobody ELSE key

\* Mutant: the in-process lock is forgotten.
UnlockedNot(w) == [inProcess EXCEPT ![w] = @]
Unlocked(w)    == [inProcess EXCEPT ![w] = FALSE]

\* _release_lock: the Redis key if it is this worker's, unless Redis fails,
\* and the in-process lock.
Release(w) ==
    /\ \/ key' = Deleted(w) /\ UNCHANGED mishaps
       \/ key' = key /\ mishaps' = mishaps \cup {"unreleased"}
    /\ inProcess' = Unlocked(w)
    /\ UNCHANGED crashes

ReleaseAfterScan(w) == phase[w] = "finished" /\ Release(w) /\ To(w, "waiting")

\* stop(): the current task is cancelled.  Inside the try block its finally
\* releases the lock; while SET is awaited there is no finally yet, and a
\* release being awaited may be cut short.
Stop(w) ==
    /\ \/ phase[w] \in {"scanning", "finished"} /\ Release(w)
       \/ phase[w] \in {"waiting", "granted", "finished"} /\ UNCHANGED <<key, inProcess, crashes, mishaps>>
    /\ To(w, "closing")

\* The finally of start() and the last line of stop() release once more each.
\* Mutant: neither does.
ReleasesOnClosingNot(w) == phase[w] = "closed"
ReleasesOnClosing(w)    == phase[w] \in {"closing", "released"}
Close(w) ==
    /\ phase[w] \in {"closing", "released"}
    /\ IF ReleasesOnClosing(w) THEN Release(w) ELSE UNCHANGED <<key, inProcess, crashes, mishaps>>
    /\ To(w, IF phase[w] = "closing" THEN "released" ELSE "stopped")

\* The process dies; its successor has a worker_id and a lock of its own.
Crash(w) ==
    /\ phase[w] # "stopped" /\ crashes < MaxCrashes
    /\ crashes' = crashes + 1
    /\ key' = IF key = w THEN Orphan ELSE key
    /\ inProcess' = [inProcess EXCEPT ![w] = FALSE]
    /\ To(w, "waiting")
    /\ UNCHANGED mishaps

\* Mutant: SET without EX.
ExpirableNot == key = Nobody /\ key # Nobody
Expirable    == key # Nobody

\* The key's time to live runs out; nothing bounds a scan by it.
Expire ==
    /\ Expirable
    /\ key' = Nobody
    /\ mishaps' = IF \E w \in Worker : key = w /\ InRun(w)
                  THEN mishaps \cup {"outlived"} ELSE mishaps
    /\ UNCHANGED <<phase, inProcess, crashes>>

WorkerNext ==
    \/ Expire
    \/ \E w \in Worker :
        \/ Acquire(w) \/ Scan(w) \/ AcquireInProcess(w) \/ Finish(w) \/ ReleaseAfterScan(w)
        \/ Stop(w) \/ Close(w) \/ Crash(w)

WorkerSpec == WorkerInit /\ [][WorkerNext]_workerVars

\* Time passes for the key, and a worker that is running keeps running; nobody
\* has to stop one.
FairWorkerSpec ==
    /\ WorkerSpec
    /\ WF_workerVars(Expire)
    /\ \A w \in Worker : /\ WF_workerVars(Scan(w) \/ Finish(w) \/ ReleaseAfterScan(w) \/ Close(w))
                         /\ SF_workerVars(Acquire(w))

-----------------------------------------------------------------------------
(* Properties.                                                              *)

\* The variables' values; an in-process lock is held only from a scan's start to
\* the release that follows it.
WorkerTypeOK ==
    /\ key \in Worker \cup {Nobody, Orphan}
    /\ phase \in [Worker -> Phase]
    /\ inProcess \in [Worker -> BOOLEAN]
    /\ crashes \in 0..MaxCrashes
    /\ mishaps \subseteq Mishap
    /\ \A w \in Worker : inProcess[w] => phase[w] \in {"scanning", "finished", "closing"}

Scanners == {w \in Worker : phase[w] = "scanning"}
\* Every scan so far began with the key, and no key expired under its holder.
KeyTrusted == mishaps \subseteq {"unreleased"}

\* "Another worker is already executing reconciliation": a scanning worker has
\* the key, whatever is released, stopped, left behind or crashes around it.
ScannerHoldsKey == KeyTrusted => \A w \in Scanners : key = w

\* A lock left behind by a crash, a failed release or a stop frees itself: every
\* worker that is not stopped scans again and again.
EveryWorkerScans ==
    \A w \in Worker : []<>(phase[w] = "scanning") \/ <>[](phase[w] = "stopped")

\* While the key can be trusted, the lock implements scans that do not overlap.
Scanner ==
    IF Scanners = {} \/ ~KeyTrusted THEN Nobody ELSE CHOOSE w \in Scanners : TRUE
Promise == INSTANCE ExclusiveScan WITH scanner <- Scanner
ScansExclusive == Promise!Spec
=============================================================================
