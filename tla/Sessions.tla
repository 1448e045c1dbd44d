------------------------------- MODULE Sessions -------------------------------
(***************************************************************************)
(* The sessions of an account: tokens, and the keys in Redis that end them   *)
(* before they expire (app/core/dependencies.py, app/core/security.py, the   *)
(* logout handlers of app/api/auth.py, and deletion in app/api/user.py).     *)
(*                                                                         *)
(* A token holds the second it was issued in, and is good to the end of the  *)
(* second it expires in.  A cut-off holds the time to the fraction of a      *)
(* second, so a token of the same second is older.                           *)
(*                                                                         *)
(* Redis answers here: when it does not, get_current_user lets every token   *)
(* pass that has not expired.                                                *)
(***************************************************************************)
EXTENDS Naturals, FiniteSets

CONSTANTS
    Member,          \* accounts
    TokenLife,       \* seconds a token is good for
    MaxTokens,       \* bound: tokens issued
    MaxNow           \* bound: seconds

ASSUME SessionsAssumption == TokenLife \in Nat \ {0} /\ MaxTokens \in Nat /\ MaxNow \in Nat \ {0}

VARIABLES
    clock,           \* the second
    gone,            \* accounts that are deleted
    idle,            \* accounts that are not active
    tokens,          \* tokens issued
    blocked,         \* the blocklist: token ids, and their time left there
    cut,             \* logout_all of each account: when, and its time left
    leaving          \* accounts whose deletion has cut the sessions and not committed

sessionVars == <<clock, gone, idle, tokens, blocked, cut, leaving>>

NotCut == [at |-> 0, left |-> 0]
SessionsInit ==
    /\ clock = 1 /\ gone = {} /\ idle = {} /\ leaving = {}
    /\ tokens = {} /\ blocked = {} /\ cut = [a \in Member |-> NotCut]

Expires(t) == t.at + TokenLife
CutOff(t) == cut[t.account].left > 0 /\ t.at <= cut[t.account].at
\* get_current_user: the blocklist, the cut-off, and the row, which is read again
\* even when the account is cached.
Admits(t) ==
    /\ clock <= Expires(t)
    /\ ~\E b \in blocked : b.id = t.id
    /\ ~CutOff(t)
    /\ t.account \notin gone
AdmitsActive(t) == Admits(t) /\ t.account \notin idle

-----------------------------------------------------------------------------
\* A verification that began before a deletion still gives the account a token.
Issue(a) ==
    /\ Cardinality(tokens) < MaxTokens
    /\ tokens' = tokens \cup {[id |-> Cardinality(tokens) + 1, account |-> a,
                               at |-> clock, ended |-> FALSE]}
    /\ UNCHANGED <<clock, gone, idle, blocked, cut, leaving>>

Ended(which) == tokens' = {IF t \in which THEN [t EXCEPT !.ended = TRUE] ELSE t : t \in tokens}
\* Mutant: the blocklist keeps a token for a second.
BlockedBriefly(t) == 1
BlockedFor(t) == Expires(t) - clock
\* logout: on the blocklist for the seconds the token has left, if it has any.
Logout(t) ==
    /\ Admits(t)
    /\ blocked' = blocked \cup {b \in {[id |-> t.id, left |-> BlockedFor(t)]} : b.left > 0}
    /\ Ended({t})
    /\ UNCHANGED <<clock, gone, idle, cut, leaving>>
\* Mutant: tokens of the second of a cut are spared.
CutBefore(a) == [at |-> clock - 1, left |-> TokenLife]
CutNow(a) == [at |-> clock, left |-> TokenLife]
LogoutAll(t) ==
    /\ Admits(t)
    /\ cut' = [cut EXCEPT ![t.account] = CutNow(t.account)]
    /\ Ended({o \in tokens : o.account = t.account})
    /\ UNCHANGED <<clock, gone, idle, blocked, leaving>>

\* delete_user cuts the sessions off, and commits at the end of the request.
CutSessions(a) ==
    /\ a \notin gone \cup leaving
    /\ leaving' = leaving \cup {a}
    /\ cut' = [cut EXCEPT ![a] = CutNow(a)]
    /\ Ended({t \in tokens : t.account = a})
    /\ UNCHANGED <<clock, gone, idle, blocked>>
CommitDelete(a) ==
    /\ a \in leaving /\ leaving' = leaving \ {a}
    /\ gone' \in {gone, gone \cup {a}}
    /\ UNCHANGED <<clock, idle, tokens, blocked, cut>>
\* restore_user leaves the cut-off as it is.
RestoreMember(a) ==
    /\ a \in gone
    /\ gone' = gone \ {a}
    /\ UNCHANGED <<clock, idle, tokens, blocked, cut, leaving>>
\* update_role_status and update_user
SetActive(a, active) ==
    /\ a \notin gone
    /\ idle' = IF active THEN idle \ {a} ELSE idle \cup {a}
    /\ UNCHANGED <<clock, gone, tokens, blocked, cut, leaving>>

\* Keys of Redis that have no time left are gone.
PassSecond ==
    /\ clock < MaxNow /\ clock' = clock + 1
    /\ blocked' = {[b EXCEPT !.left = @ - 1] : b \in {b \in blocked : b.left > 1}}
    /\ cut' = [a \in Member |-> IF cut[a].left > 1 THEN [cut[a] EXCEPT !.left = @ - 1] ELSE NotCut]
    /\ UNCHANGED <<gone, idle, tokens, leaving>>

SessionsNext ==
    \/ PassSecond
    \/ \E t \in tokens : Logout(t) \/ LogoutAll(t)
    \/ \E a \in Member :
        \/ Issue(a) \/ CutSessions(a) \/ CommitDelete(a) \/ RestoreMember(a)
        \/ \E active \in BOOLEAN : SetActive(a, active)
SessionsSpec == SessionsInit /\ [][SessionsNext]_sessionVars

SessionsTypeOK ==
    /\ clock \in 1..MaxNow /\ gone \subseteq Member /\ idle \subseteq Member /\ leaving \subseteq Member
    /\ tokens \subseteq [id : 1..MaxTokens, account : Member, at : 1..MaxNow, ended : BOOLEAN]
    /\ blocked \subseteq [id : 1..MaxTokens, left : 1..TokenLife]
    /\ cut \in [Member -> [at : 0..MaxNow, left : 0..TokenLife]]

-----------------------------------------------------------------------------
\* A session that was logged out or cut off admits no request again, not when its
\* account is restored, either; but for the second it expires in, when the keys
\* are gone and the token is not.
EndedStaysEnded == \A t \in tokens : t.ended /\ clock < Expires(t) => ~Admits(t)
\* Any other session of an account that is there admits its requests until it
\* expires, if it is not of the second of a cut.
OthersGoOn ==
    \A t \in tokens :
        ~t.ended /\ clock <= Expires(t) /\ t.account \notin gone /\ cut[t.account].at # t.at
            => Admits(t) /\ (t.account \notin idle => AdmitsActive(t))
SessionsHold == EndedStaysEnded /\ OthersGoOn
=============================================================================
