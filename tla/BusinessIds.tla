---------------------------- MODULE BusinessIds ----------------------------
(***************************************************************************)
(* Business ids such as PRJ001 or PV-00001 (generate_business_id in         *)
(* app/utils/common.py) and the handlers that insert a row under a fresh    *)
(* one.  An id is the prefix and a number, zero padded to Pad digits; the   *)
(* column is unique and its maximum is a maximum of strings.  A number      *)
(* stands for its id.                                                       *)
(***************************************************************************)
EXTENDS Integers, Sequences, FiniteSets
LOCAL INSTANCE FiniteSetsExt

CONSTANTS
    Creator,    \* requests that create a row
    Existing,   \* how many rows may exist at the start, created one after another
    Attempts,   \* inserts a handler tries before it gives up: 3, or 1
    Base, Pad   \* digits a decimal place has (10 in the code), and the padding

ASSUME ExistingAssumption == Existing \subseteq Nat
ASSUME AttemptsAssumption == Attempts \in Nat \ {0}
ASSUME DigitsAssumption   == Base \in Nat \ {0, 1} /\ Pad \in Nat \ {0}

VARIABLES
    ids,      \* the numbers of the committed rows
    creators  \* where each request is: its snapshot, candidate and attempts left

idsVars == <<ids, creators>>

-----------------------------------------------------------------------------
(* Strings of digits, most significant first, compared as strings.           *)

Power[k \in Nat] == IF k = 0 THEN 1 ELSE Base * Power[k - 1]
\* How many characters number n takes.
Width(n) == Max({Pad} \cup {k \in 1..(n + 1) : Power[k - 1] <= n})
\* The digit of n at place k from the left.
DigitAt(n, k) == (n \div Power[Width(n) - k]) % Base

SortsBefore(a, b) ==
    \E k \in 1..(Max({Width(a), Width(b)})) :
        /\ \A j \in 1..(k - 1) : DigitAt(a, j) = DigitAt(b, j)
        /\ \/ k = Width(a) + 1
           \/ k <= Width(a) /\ k <= Width(b) /\ DigitAt(a, k) < DigitAt(b, k)

\* SELECT MAX(column): the number that sorts last, 0 when there is no row.
LastNumbers(rows) ==
    IF rows = {} THEN {0} ELSE {n \in rows : \A m \in rows \ {n} : SortsBefore(m, n)}

\* The retries inside the generator repeat the query on the same snapshot, so
\* they find the same candidate.
Candidates(rows)  == {n + 1 : n \in LastNumbers(rows)}
Unissued(rows, n) == n \notin rows

-----------------------------------------------------------------------------
IdsInit ==
    /\ ids \in {1..n : n \in Existing}
    /\ creators = [c \in Creator |-> [phase |-> "new", seen |-> {}, left |-> Attempts, id |-> 0]]

\* The first SELECT of an attempt fixes what generate_business_id sees.
Attempt(c) ==
    /\ creators[c].phase = "new"
    /\ creators' = [creators EXCEPT ![c].phase = "generating", ![c].seen = ids]
    /\ UNCHANGED ids

\* The insert under the candidate commits.
\* Mutant: the column is not unique.
FreeNot(n) == n \notin {}
FreeId(n)  == n \notin ids
Insert(c) == \E n \in Candidates(creators[c].seen) :
    /\ creators[c].phase = "generating"
    /\ Unissued(creators[c].seen, n)
    /\ FreeId(n)
    /\ ids' = ids \cup {n}
    /\ creators' = [creators EXCEPT ![c].phase = "created", ![c].id = n]

\* Mutant: a conflict ends the request, the retry loop is lost.
AfterConflictNone(left) == IF left < 0 THEN "new" ELSE "failed"
AfterConflict(left)     == IF left > 1 THEN "new" ELSE "failed"

\* IntegrityError: the handler rolls back and starts over while it has attempts.
Conflict(c) == \E n \in Candidates(creators[c].seen) :
    /\ creators[c].phase = "generating"
    /\ Unissued(creators[c].seen, n)
    /\ ~FreeId(n)
    /\ creators' = [creators EXCEPT ![c].phase = AfterConflict(creators[c].left),
                                    ![c].left = @ - 1]
    /\ UNCHANGED ids

\* "Unable to generate unique business ID after retries": not an
\* IntegrityError, so the handler's own loop does not catch it.
GiveUp(c) == \E n \in Candidates(creators[c].seen) :
    /\ creators[c].phase = "generating"
    /\ ~Unissued(creators[c].seen, n)
    /\ creators' = [creators EXCEPT ![c].phase = "failed"]
    /\ UNCHANGED ids

IdsNext == \E c \in Creator : Attempt(c) \/ Insert(c) \/ Conflict(c) \/ GiveUp(c)
IdsSpec == IdsInit /\ [][IdsNext]_idsVars

\* A request that is being served goes on until it is answered.
FairIdsSpec == IdsSpec /\ \A c \in Creator :
                WF_idsVars(Attempt(c) \/ Insert(c) \/ Conflict(c) \/ GiveUp(c))

-----------------------------------------------------------------------------
(* Properties.                                                              *)

\* The columns' values, and where a request can be.
IdsTypeOK ==
    /\ ids \subseteq Nat \ {0}
    /\ creators \in [Creator -> [phase : {"new", "generating", "created", "failed"},
                                 seen : SUBSET ids, left : 0..Attempts, id : ids \cup {0}]]

\* No two requests are answered with the same id.
IdsDistinct ==
    \A c, d \in Creator : creators[c].id = creators[d].id /\ creators[c].id # 0 => c = d

\* Every creation ends with a row of its own, as long as the numbers fit their
\* padding and no more requests overlap than the handler has attempts.
Outgrown == \E n \in ids : Width(n) > Pad
EveryCreationSucceeds == \A c \in Creator : <>(creators[c].phase = "created" \/ Outgrown)
=============================================================================
