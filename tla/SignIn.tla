-------------------------------- MODULE SignIn --------------------------------
(***************************************************************************)
(* Signing in to one mobile number with a code sent to it (app/api/auth.py,  *)
(* app/services/otp.py).                                                     *)
(*                                                                         *)
(* The code, the counts and the lock are keys of Redis that run out.  A      *)
(* verification reads the account in its snapshot, then the lock, then the   *)
(* code, and deletes the code in a call of its own.                          *)
(***************************************************************************)
EXTENDS Integers, FiniteSets, Sums

CONSTANTS
    Verifying,       \* slots of verifications
    SendLimit,       \* codes sent in one window of a tick
    CodeLife,        \* ticks a code can be used
    FailLimit,       \* wrong answers that lock the number, more than one
    LockLife,        \* ticks the lock, and the count of wrong answers, last
    MaxCodes,        \* bound: codes sent
    MaxTicks         \* bound: ticks

ASSUME SignInAssumption ==
    /\ IsFiniteSet(Verifying)
    /\ {SendLimit, CodeLife, LockLife} \subseteq Nat \ {0} /\ FailLimit \in Nat \ {0, 1}
    /\ MaxCodes \in Nat /\ MaxTicks \in Nat

VARIABLES
    account,         \* the account whose mobile this is: none, active, inactive or deleted
    code,            \* the code in Redis, if any, and its time left
    limits,          \* counts of codes sent and of wrong answers, and the lock
    verifying,       \* the verification in each slot
    granted,         \* tokens given for each code
    sent,            \* codes sent so far
    ticks,           \* ticks so far
    wrong,           \* history: wrong answers given in each tick since the last right one
    heldTwice,       \* history: codes two verifications held at once
    opened           \* history: accounts opened by a verification

signInVars == <<account, code, limits, verifying, granted, sent, ticks, wrong, heldTwice, opened>>

AccountState == {"none", "active", "inactive", "deleted"}
NoCode == [id |-> 0, left |-> 0]
NoLimits == [sends |-> 0, fails |-> 0, window |-> 0, lock |-> 0]
NoneWrong == [t \in 0..MaxTicks |-> 0]
NotVerifying == [phase |-> "none", account |-> "none", code |-> 0]

SignInInit ==
    /\ account = "active" /\ code = NoCode /\ limits = NoLimits
    /\ verifying = [r \in Verifying |-> NotVerifying]
    /\ granted = [c \in 1..MaxCodes |-> 0]
    /\ sent = 0 /\ ticks = 0 /\ wrong = NoneWrong /\ heldTwice = {} /\ opened = 0

Locked == limits.lock > 0

-----------------------------------------------------------------------------
\* login: the count of the window rises before it is compared.
SendCode ==
    /\ ~Locked /\ account \in {"active", "inactive"}
    /\ limits.sends < SendLimit /\ limits' = [limits EXCEPT !.sends = @ + 1]
    /\ sent < MaxCodes /\ sent' = sent + 1
    /\ code' = [id |-> sent', left |-> CodeLife]
    /\ UNCHANGED <<account, verifying, granted, ticks, wrong, heldTwice, opened>>

\* verify_otp: the account as the snapshot has it, and the lock.
BeginVerify(r) ==
    /\ verifying[r].phase = "none"
    /\ account # "deleted" /\ ~Locked
    /\ verifying' = [verifying EXCEPT ![r] = [phase |-> "begun", account |-> account, code |-> 0]]
    /\ UNCHANGED <<account, code, limits, granted, sent, ticks, wrong, heldTwice, opened>>
\* The answer is the code that is there.
MatchCode(r) ==
    /\ verifying[r].phase = "begun" /\ code # NoCode
    /\ verifying' = [verifying EXCEPT ![r].phase = "matched", ![r].code = code.id]
    /\ heldTwice' = heldTwice \cup {c \in {code.id} : \E o \in Verifying \ {r} :
                                  verifying[o].phase = "matched" /\ verifying[o].code = c}
    /\ UNCHANGED <<account, code, limits, granted, sent, ticks, wrong, opened>>

\* Mutant: the wrong answer that reaches the limit does not lock the number.
FailedOnly(l) ==
    [l EXCEPT !.fails = @ + 1, !.window = IF l.fails = 0 THEN LockLife ELSE @]
\* record_failed_otp_attempt: the first opens the window, the last sets the lock.
Failed(l) ==
    [l EXCEPT !.fails = @ + 1,
              !.window = IF l.fails = 0 THEN LockLife ELSE @,
              !.lock = IF l.fails + 1 >= FailLimit THEN LockLife ELSE @]
AnswerWrong(r) ==
    /\ verifying[r].phase = "begun"
    /\ limits' = Failed(limits)
    /\ wrong' = [wrong EXCEPT ![ticks] = @ + 1]
    /\ verifying' = [verifying EXCEPT ![r] = NotVerifying]
    /\ UNCHANGED <<account, code, granted, sent, ticks, heldTwice, opened>>

\* Mutant: the code stays.
SpentNot(c) == c
\* The code's key is deleted, whichever code it holds by now.
Spent(c) == NoCode
\* The code is gone, the counts are cleared, and the account of the snapshot gets a
\* token; a number without one gets an account, an inactive account gets nothing.
AcceptCode(r) ==
    LET v == verifying[r] IN
    /\ v.phase = "matched"
    /\ code' = Spent(code)
    /\ limits' = [limits EXCEPT !.fails = 0, !.window = 0, !.lock = 0]
    /\ wrong' = NoneWrong
    /\ verifying' = [verifying EXCEPT ![r] = NotVerifying]
    /\ \/ /\ v.account = "active"
          /\ granted' = [granted EXCEPT ![v.code] = @ + 1]
          /\ UNCHANGED <<account, opened>>
       \/ /\ v.account = "none" /\ account = "none"
          /\ account' = "active" /\ opened' = opened + 1
          /\ granted' = [granted EXCEPT ![v.code] = @ + 1]
       \/ /\ v.account = "inactive" \/ (v.account = "none" /\ account # "none")
          /\ UNCHANGED <<account, granted, opened>>
    /\ UNCHANGED <<sent, ticks, heldTwice>>

\* The handlers of app/api/user.py delete, restore, activate and deactivate the
\* account, and can give it another number, or this number to another account.
AccountChanges(new) ==
    /\ new # account
    /\ new = "none" => account \in {"active", "inactive"}
    /\ account' = new
    /\ UNCHANGED <<code, limits, verifying, granted, sent, ticks, wrong, heldTwice, opened>>

Less(n) == IF n = 0 THEN 0 ELSE n - 1
\* Keys of Redis that have no time left are gone.
RunOut ==
    /\ ticks < MaxTicks /\ ticks' = ticks + 1
    /\ code' = IF code.left > 1 THEN [code EXCEPT !.left = @ - 1] ELSE NoCode
    /\ limits' = [sends |-> 0, fails |-> IF limits.window > 1 THEN limits.fails ELSE 0,
                  window |-> Less(limits.window), lock |-> Less(limits.lock)]
    /\ UNCHANGED <<account, verifying, granted, sent, wrong, heldTwice, opened>>

SignInNext ==
    \/ SendCode \/ RunOut
    \/ \E r \in Verifying : BeginVerify(r) \/ MatchCode(r) \/ AnswerWrong(r) \/ AcceptCode(r)
    \/ \E new \in AccountState : AccountChanges(new)
SignInSpec == SignInInit /\ [][SignInNext]_signInVars

SignInTypeOK ==
    /\ account \in AccountState /\ sent \in 0..MaxCodes /\ ticks \in 0..MaxTicks
    /\ code \in [id : 0..MaxCodes, left : 0..CodeLife]
    /\ limits.sends \in 0..SendLimit /\ limits.lock \in 0..LockLife /\ limits.window \in 0..LockLife
    /\ limits.fails \in 0..(FailLimit + Cardinality(Verifying) - 1)
    /\ granted \in [1..MaxCodes -> Nat] /\ opened \in Nat /\ wrong \in [0..MaxTicks -> Nat]

-----------------------------------------------------------------------------
\* A code gives one token, unless two verifications held it at once; what was not
\* sent gives none, and an account is opened with a code that was sent to its number.
CodeUsedOnce ==
    /\ \A c \in DOMAIN granted :
        /\ granted[c] > 1 => c \in heldTwice
        /\ granted[c] > 0 => c <= sent
    /\ opened > 0 => \E c \in DOMAIN granted : granted[c] > 0
WrongSince(n) == TotalOf([t \in 0..MaxTicks |-> IF t >= n THEN wrong[t] ELSE 0])
\* Of the wrong answers since the last right one, no more fall into the time of a
\* lock than fill two windows, and those that were under way.
GuessesBounded ==
    WrongSince(ticks - LockLife + 1) <= 2 * FailLimit - 2 + Cardinality(Verifying) - 1
=============================================================================
