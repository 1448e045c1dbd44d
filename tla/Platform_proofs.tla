-------------------------- MODULE Platform_proofs ---------------------------
(***************************************************************************)
(* What holds of the platform's components for any number of users, tokens,  *)
(* roles, groups and requests: each component's inductive invariant is       *)
(* proved of its own steps, and the behaviours of MCPlatform, which show one *)
(* component at a time, inherit it.                                          *)
(***************************************************************************)
EXTENDS MCPlatform, FiniteSetTheorems, SequenceTheorems, WellFoundedInduction, TLAPS

-----------------------------------------------------------------------------
(* Sessions. *)

\* Tokens are numbered, and none is of a second to come.
TokensNumbered ==
    /\ IsFiniteSet(tokens)
    /\ \A t \in tokens : t.id \in 1..Cardinality(tokens) /\ t.at <= clock
    /\ \A t, u \in tokens : t.id = u.id => t = u
\* What is on the blocklist was ended.
BlockedWereEnded ==
    \A b \in blocked : /\ b.id <= Cardinality(tokens)
                       /\ \A t \in tokens : t.id = b.id => t.ended
\* A cut lasts as long as a token of its second, and what it left are later tokens.
CutsLast ==
    \A a \in Member :
        /\ cut[a].left > 0 => cut[a].left + clock = cut[a].at + TokenLife
        /\ cut[a].left = 0 => cut[a] = NotCut
        /\ cut[a].at <= clock
        /\ \A t \in tokens : t.account = a /\ ~t.ended => t.at >= cut[a].at
\* An ended token is on the blocklist, or cut off, for as long as it has left.
EndedIsKept ==
    \A t \in tokens : t.ended /\ clock < Expires(t) =>
        \/ \E b \in blocked : b.id = t.id /\ b.left + clock = Expires(t)
        \/ CutOff(t)
SessionsInv ==
    SessionsTypeOK /\ TokensNumbered /\ BlockedWereEnded /\ CutsLast /\ EndedIsKept

\* From the invariant, what the run checks.
LEMMA SessionsInvHold == SessionsInv => SessionsHold
<1> SUFFICES ASSUME SessionsInv PROVE SessionsHold
  OBVIOUS
<1>1. EndedStaysEnded
  BY DEF SessionsInv, EndedIsKept, EndedStaysEnded, Admits
<1>2. ASSUME NEW t \in tokens, ~t.ended, clock <= Expires(t), t.account \notin gone,
             cut[t.account].at # t.at
      PROVE  Admits(t)
  <2>1. /\ t.account \in Member /\ t.at \in Nat /\ cut[t.account].at \in Nat
        /\ t.at >= cut[t.account].at
    BY <1>2 DEF SessionsInv, SessionsTypeOK, CutsLast
  <2>2. ~CutOff(t)
    BY <1>2, <2>1 DEF CutOff
  <2>3. ~\E b \in blocked : b.id = t.id
    BY <1>2 DEF SessionsInv, BlockedWereEnded
  <2> QED BY <1>2, <2>2, <2>3 DEF Admits
<1> QED BY <1>1, <1>2 DEF SessionsHold, OthersGoOn, AdmitsActive

LEMMA SessionsInitInv == SessionsInit => SessionsInv
<1> SUFFICES ASSUME SessionsInit PROVE SessionsInv
  OBVIOUS
<1>1. /\ clock = 1 /\ gone = {} /\ idle = {} /\ leaving = {} /\ tokens = {} /\ blocked = {}
      /\ \A a \in Member : cut[a] = NotCut
      /\ cut \in [Member -> [at : 0..MaxNow, left : 0..TokenLife]]
  BY SessionsAssumption DEF SessionsInit, NotCut
<1>2. SessionsTypeOK
  BY <1>1, SessionsAssumption DEF SessionsTypeOK
<1>3. TokensNumbered /\ BlockedWereEnded /\ EndedIsKept
  BY <1>1, FS_EmptySet DEF TokensNumbered, BlockedWereEnded, EndedIsKept
<1>4. CutsLast
  BY <1>1 DEF CutsLast, NotCut
<1> QED BY <1>2, <1>3, <1>4 DEF SessionsInv

LEMMA IssueInv == ASSUME SessionsInv, NEW a \in Member, Issue(a) PROVE SessionsInv'
<1> PICK n : n = Cardinality(tokens)
  OBVIOUS
<1> PICK new : new = [id |-> n + 1, account |-> a, at |-> clock, ended |-> FALSE]
  OBVIOUS
<1>0. /\ IsFiniteSet(tokens) /\ n \in Nat /\ n < MaxTokens /\ MaxTokens \in Nat
      /\ tokens' = tokens \cup {new} /\ clock \in 1..MaxNow /\ MaxNow \in Nat
      /\ UNCHANGED <<clock, gone, idle, blocked, cut, leaving>>
  BY FS_CardinalityType, SessionsAssumption DEF SessionsInv, TokensNumbered, SessionsTypeOK, Issue
<1>1. /\ new \notin tokens /\ new.id = n + 1 /\ new.account = a /\ new.at = clock /\ ~new.ended
      /\ new \in [id : 1..MaxTokens, account : Member, at : 1..MaxNow, ended : BOOLEAN]
  BY <1>0 DEF SessionsInv, TokensNumbered
<1>2. Cardinality(tokens') = n + 1 /\ IsFiniteSet(tokens')
  BY <1>0, <1>1, FS_AddElement
<1>3. SessionsTypeOK'
  BY <1>0, <1>1 DEF SessionsInv, SessionsTypeOK
<1>4. TokensNumbered'
  <2>1. \A t \in tokens : t.id \in 1..n /\ t.at <= clock
    BY DEF SessionsInv, TokensNumbered
  <2>2. \A t \in tokens' : t.id \in 1..Cardinality(tokens') /\ t.at <= clock
    BY <1>0, <1>1, <1>2, <2>1
  <2>3. \A t, u \in tokens' : t.id = u.id => t = u
    <3>1. \A t \in tokens : t.id # new.id
      BY <1>0, <1>1, <2>1
    <3>2. \A t, u \in tokens : t.id = u.id => t = u
      BY DEF SessionsInv, TokensNumbered
    <3>3. \A t \in tokens' : t \in tokens \/ t = new
      BY <1>0
    <3> QED BY <3>1, <3>2, <3>3
  <2> QED BY <1>0, <1>2, <2>2, <2>3 DEF TokensNumbered
<1>5. BlockedWereEnded'
  <2>1. \A b \in blocked : b.id \in Nat /\ b.id <= n
    BY DEF SessionsInv, SessionsTypeOK, BlockedWereEnded
  <2> QED BY <1>0, <1>1, <1>2, <2>1 DEF SessionsInv, BlockedWereEnded
<1>6. CutsLast'
  BY <1>0, <1>1 DEF SessionsInv, CutsLast
<1>7. EndedIsKept'
  BY <1>0, <1>1 DEF SessionsInv, EndedIsKept, Expires, CutOff
<1> QED BY <1>3, <1>4, <1>5, <1>6, <1>7 DEF SessionsInv

\* Ending some tokens neither loses nor renumbers any.
LEMMA EndedTokens ==
    ASSUME SessionsInv, NEW which \in SUBSET tokens, Ended(which), clock' = clock
    PROVE  /\ TokensNumbered' /\ Cardinality(tokens') = Cardinality(tokens)
           /\ tokens' \subseteq [id : 1..MaxTokens, account : Member, at : 1..MaxNow, ended : BOOLEAN]
           /\ \A t \in tokens' : \E u \in tokens :
                 /\ t.id = u.id /\ t.account = u.account /\ t.at = u.at
                 /\ t.ended <=> u.ended \/ u \in which
<1> DEFINE f == [t \in tokens |-> IF t \in which THEN [t EXCEPT !.ended = TRUE] ELSE t]
<1>1. /\ IsFiniteSet(tokens) /\ Cardinality(tokens) \in Nat
      /\ tokens \subseteq [id : 1..MaxTokens, account : Member, at : 1..MaxNow, ended : BOOLEAN]
  BY FS_CardinalityType DEF SessionsInv, TokensNumbered, SessionsTypeOK
<1>2. \A t \in tokens :
        /\ f[t].id = t.id /\ f[t].account = t.account /\ f[t].at = t.at
        /\ f[t].ended <=> t.ended \/ t \in which
        /\ f[t] \in [id : 1..MaxTokens, account : Member, at : 1..MaxNow, ended : BOOLEAN]
  BY <1>1
<1>3. tokens' = {f[t] : t \in tokens}
  BY DEF Ended
<1> HIDE DEF f
<1>4. f \in Bijection(tokens, tokens')
  <2>1. \A t, u \in tokens : f[t] = f[u] => t = u
    BY <1>2 DEF SessionsInv, TokensNumbered
  <2>2. f \in [tokens -> tokens']
    BY <1>3 DEF f
  <2>3. \A u \in tokens' : \E t \in tokens : f[t] = u
    BY <1>3
  <2> QED BY <2>1, <2>2, <2>3 DEF Bijection, Injection, IsInjective, Surjection
<1>5. IsFiniteSet(tokens') /\ Cardinality(tokens') = Cardinality(tokens)
  BY <1>1, <1>4, FS_Bijection DEF ExistsBijection
<1>6. TokensNumbered'
  <2>1. \A t \in tokens : t.id \in 1..Cardinality(tokens) /\ t.at <= clock
    BY DEF SessionsInv, TokensNumbered
  <2>2. \A u \in tokens' : u.id \in 1..Cardinality(tokens') /\ u.at <= clock'
    BY <1>2, <1>3, <1>5, <2>1
  <2>3. \A u, v \in tokens' : u.id = v.id => u = v
    BY <1>2, <1>3 DEF SessionsInv, TokensNumbered
  <2> QED BY <1>5, <2>2, <2>3 DEF TokensNumbered
<1> QED BY <1>2, <1>3, <1>5, <1>6

LEMMA LogoutInv == ASSUME SessionsInv, NEW t \in tokens, Logout(t) PROVE SessionsInv'
<1> PICK left : left = BlockedFor(t)
  OBVIOUS
<1>0. /\ t \in [id : 1..MaxTokens, account : Member, at : 1..MaxNow, ended : BOOLEAN]
      /\ t.at <= clock /\ clock \in 1..MaxNow /\ TokenLife \in Nat \ {0} /\ MaxNow \in Nat
      /\ MaxTokens \in Nat /\ left = t.at + TokenLife - clock /\ left \in Int /\ left <= TokenLife
      /\ Ended({t}) /\ UNCHANGED <<clock, gone, idle, cut, leaving>>
      /\ t.id \in 1..Cardinality(tokens) /\ IsFiniteSet(tokens) /\ Cardinality(tokens) \in Nat
  BY SessionsAssumption, FS_CardinalityType
     DEF SessionsInv, SessionsTypeOK, TokensNumbered, Logout, BlockedFor, Expires
<1>1. blocked' = IF left > 0 THEN blocked \cup {[id |-> t.id, left |-> left]} ELSE blocked
  BY DEF Logout
<1>2. /\ TokensNumbered' /\ Cardinality(tokens') = Cardinality(tokens)
      /\ tokens' \subseteq [id : 1..MaxTokens, account : Member, at : 1..MaxNow, ended : BOOLEAN]
      /\ \A n \in tokens' : \E o \in tokens :
            /\ n.id = o.id /\ n.account = o.account /\ n.at = o.at
            /\ n.ended <=> o.ended \/ o \in {t}
  BY <1>0, EndedTokens
<1>3. SessionsTypeOK'
  <2>1. left > 0 => [id |-> t.id, left |-> left] \in [id : 1..MaxTokens, left : 1..TokenLife]
    BY <1>0
  <2> QED BY <1>0, <1>1, <1>2, <2>1 DEF SessionsInv, SessionsTypeOK
<1>4. BlockedWereEnded'
  <2> SUFFICES ASSUME NEW b \in blocked'
               PROVE  b.id <= Cardinality(tokens) /\ \A n \in tokens' : n.id = b.id => n.ended
    BY <1>2 DEF BlockedWereEnded
  <2>1. CASE b \in blocked
    BY <1>2, <2>1 DEF SessionsInv, BlockedWereEnded
  <2>2. CASE b.id = t.id
    BY <1>0, <1>2, <2>2 DEF SessionsInv, TokensNumbered
  <2> QED BY <1>1, <2>1, <2>2
<1>5. CutsLast'
  BY <1>0, <1>2 DEF SessionsInv, CutsLast
<1>6. EndedIsKept'
  <2> SUFFICES ASSUME NEW n \in tokens', n.ended, clock < n.at + TokenLife
               PROVE  \/ \E b \in blocked' : b.id = n.id /\ b.left + clock = n.at + TokenLife
                      \/ cut[n.account].left > 0 /\ n.at <= cut[n.account].at
    BY <1>0 DEF EndedIsKept, Expires, CutOff
  <2>1. PICK o \in tokens : /\ n.id = o.id /\ n.account = o.account /\ n.at = o.at
                            /\ n.ended <=> o.ended \/ o \in {t}
    BY <1>2
  <2>2. CASE o.ended
    BY <1>1, <2>1, <2>2 DEF SessionsInv, EndedIsKept, Expires, CutOff
  <2>3. CASE o = t
    <3>1. left > 0 /\ left + clock = n.at + TokenLife
      BY <1>0, <2>1, <2>3
    <3>2. [id |-> t.id, left |-> left] \in blocked'
      BY <1>1, <3>1
    <3> QED BY <2>1, <2>3, <3>1, <3>2
  <2> QED BY <2>1, <2>2, <2>3
<1> QED BY <1>3, <1>2, <1>4, <1>5, <1>6 DEF SessionsInv

\* All of an account's sessions are cut off.
CutsAll(a) ==
    /\ cut' = [cut EXCEPT ![a] = CutNow(a)]
    /\ Ended({t \in tokens : t.account = a})
    /\ UNCHANGED <<clock, gone, idle, blocked>>

LEMMA CutsAllInv ==
    ASSUME SessionsInv, NEW a \in Member, CutsAll(a), leaving' \subseteq Member
    PROVE  SessionsInv'
<1>0. /\ clock \in 1..MaxNow /\ TokenLife \in Nat \ {0} /\ MaxNow \in Nat /\ UNCHANGED <<clock, blocked>>
      /\ \A m \in Member : cut'[m] = IF m = a THEN [at |-> clock, left |-> TokenLife] ELSE cut[m]
      /\ cut' \in [Member -> [at : 0..MaxNow, left : 0..TokenLife]]
  BY SessionsAssumption DEF SessionsInv, SessionsTypeOK, CutsAll, CutNow
<1>2. /\ TokensNumbered' /\ Cardinality(tokens') = Cardinality(tokens)
      /\ tokens' \subseteq [id : 1..MaxTokens, account : Member, at : 1..MaxNow, ended : BOOLEAN]
      /\ \A n \in tokens' : \E o \in tokens :
            /\ n.id = o.id /\ n.account = o.account /\ n.at = o.at
            /\ n.ended <=> o.ended \/ o \in {t \in tokens : t.account = a}
  BY EndedTokens DEF CutsAll
<1>3. SessionsTypeOK'
  BY <1>0, <1>2 DEF SessionsInv, SessionsTypeOK, CutsAll
<1>4. BlockedWereEnded'
  BY <1>0, <1>2 DEF SessionsInv, BlockedWereEnded
<1>a. \A n \in tokens' : n.at \in Nat /\ n.at <= clock /\ n.account \in Member
  BY <1>0, <1>2 DEF TokensNumbered
<1>5. CutsLast'
  <2> SUFFICES ASSUME NEW m \in Member
               PROVE  /\ cut'[m].left > 0 => cut'[m].left + clock = cut'[m].at + TokenLife
                      /\ cut'[m].left = 0 => cut'[m] = NotCut
                      /\ cut'[m].at <= clock
                      /\ \A n \in tokens' : n.account = m /\ ~n.ended => n.at >= cut'[m].at
    BY <1>0 DEF CutsLast, NotCut
  <2>1. CASE m = a
    BY <1>0, <1>2, <2>1
  <2>2. CASE m # a
    BY <1>0, <1>2, <2>2 DEF SessionsInv, CutsLast
  <2> QED BY <2>1, <2>2
<1>6. EndedIsKept'
  <2> SUFFICES ASSUME NEW n \in tokens', n.ended, clock < n.at + TokenLife
               PROVE  \/ \E b \in blocked : b.id = n.id /\ b.left + clock = n.at + TokenLife
                      \/ cut'[n.account].left > 0 /\ n.at <= cut'[n.account].at
    BY <1>0 DEF EndedIsKept, Expires, CutOff
  <2>1. PICK o \in tokens : /\ n.id = o.id /\ n.account = o.account /\ n.at = o.at
                            /\ n.ended <=> o.ended \/ o \in {t \in tokens : t.account = a}
    BY <1>2
  <2>2. CASE n.account = a
    BY <1>0, <1>a, <2>2
  <2>3. CASE n.account # a
    <3>1. o.ended /\ cut'[n.account] = cut[n.account]
      BY <1>0, <1>a, <2>1, <2>3
    <3> QED BY <2>1, <3>1 DEF SessionsInv, EndedIsKept, Expires, CutOff
  <2> QED BY <2>2, <2>3
<1> QED BY <1>3, <1>2, <1>4, <1>5, <1>6 DEF SessionsInv

LEMMA PassSecondInv == ASSUME SessionsInv, PassSecond PROVE SessionsInv'
<1>0. /\ clock \in 1..MaxNow /\ clock < MaxNow /\ clock' = clock + 1 /\ clock' \in 1..MaxNow
      /\ TokenLife \in Nat \ {0} /\ MaxNow \in Nat /\ UNCHANGED <<gone, idle, tokens, leaving>>
      /\ blocked' = {[b EXCEPT !.left = @ - 1] : b \in {b \in blocked : b.left > 1}}
      /\ \A t \in tokens : t.at \in Nat /\ t.at <= clock /\ t.account \in Member
      /\ \A b \in blocked : b \in [id : 1..MaxTokens, left : 1..TokenLife]
      /\ \A m \in Member : cut[m] \in [at : 0..MaxNow, left : 0..TokenLife]
  BY SessionsAssumption DEF SessionsInv, SessionsTypeOK, TokensNumbered, PassSecond
<1>1. \A c \in blocked' : \E b \in blocked :
         /\ c.id = b.id /\ c.left = b.left - 1 /\ c \in [id : 1..MaxTokens, left : 1..TokenLife]
  BY <1>0
<1>2. \A b \in blocked : b.left > 1 => \E c \in blocked' : c.id = b.id /\ c.left = b.left - 1
  <2> SUFFICES ASSUME NEW b \in blocked, b.left > 1
               PROVE  \E c \in blocked' : c.id = b.id /\ c.left = b.left - 1
    OBVIOUS
  <2>1. [b EXCEPT !.left = @ - 1] \in blocked'
    BY <1>0
  <2>2. [b EXCEPT !.left = @ - 1].id = b.id /\ [b EXCEPT !.left = @ - 1].left = b.left - 1
    BY <1>0
  <2> QED BY <2>1, <2>2
<1>3. \A m \in Member :
        \/ cut[m].left > 1 /\ cut'[m] = [at |-> cut[m].at, left |-> cut[m].left - 1]
        \/ cut[m].left <= 1 /\ cut'[m] = NotCut
  BY <1>0 DEF PassSecond
<1>4. cut' \in [Member -> [at : 0..MaxNow, left : 0..TokenLife]]
  <2>1. cut' = [m \in Member |-> cut'[m]]
    BY DEF PassSecond
  <2>2. ASSUME NEW m \in Member PROVE cut'[m] \in [at : 0..MaxNow, left : 0..TokenLife]
    <3>1. CASE cut'[m] = NotCut
      BY <1>0, <3>1 DEF NotCut
    <3>2. CASE cut[m].left > 1 /\ cut'[m] = [at |-> cut[m].at, left |-> cut[m].left - 1]
      <4>1. cut[m].at \in 0..MaxNow /\ cut[m].left - 1 \in 0..TokenLife
        BY <1>0, <3>2
      <4> QED BY <3>2, <4>1
    <3> QED BY <1>3, <3>1, <3>2
  <2> QED BY <2>1, <2>2
<1>5. SessionsTypeOK'
  BY <1>0, <1>1, <1>4 DEF SessionsInv, SessionsTypeOK
<1>6. TokensNumbered'
  BY <1>0 DEF SessionsInv, TokensNumbered
<1>7. BlockedWereEnded'
  BY <1>0, <1>1 DEF SessionsInv, BlockedWereEnded
<1>8. CutsLast'
  <2> SUFFICES ASSUME NEW m \in Member
               PROVE  /\ cut'[m].left > 0 => cut'[m].left + (clock + 1) = cut'[m].at + TokenLife
                      /\ cut'[m].left = 0 => cut'[m] = NotCut
                      /\ cut'[m].at <= clock + 1
                      /\ \A t \in tokens : t.account = m /\ ~t.ended => t.at >= cut'[m].at
    BY <1>0 DEF CutsLast, NotCut
  <2>1. CASE cut'[m] = NotCut
    BY <1>0, <2>1 DEF NotCut
  <2>2. CASE cut[m].left > 1 /\ cut'[m] = [at |-> cut[m].at, left |-> cut[m].left - 1]
    <3>1. /\ cut[m].left \in Nat /\ cut[m].at \in Nat /\ cut[m].left + clock = cut[m].at + TokenLife
          /\ cut[m].at <= clock
          /\ \A t \in tokens : t.account = m /\ ~t.ended => t.at >= cut[m].at
      BY <1>0, <2>2 DEF SessionsInv, CutsLast
    <3>2. cut'[m].at = cut[m].at /\ cut'[m].left = cut[m].left - 1
      BY <2>2
    <3> QED BY <1>0, <2>2, <3>1, <3>2
  <2> QED BY <1>3, <2>1, <2>2
<1>9. EndedIsKept'
  <2> SUFFICES ASSUME NEW t \in tokens, t.ended, clock + 1 < t.at + TokenLife
               PROVE  \/ \E b \in blocked' : b.id = t.id /\ b.left + (clock + 1) = t.at + TokenLife
                      \/ cut'[t.account].left > 0 /\ t.at <= cut'[t.account].at
    BY <1>0 DEF EndedIsKept, Expires, CutOff
  <2>1. CASE \E b \in blocked : b.id = t.id /\ b.left + clock = t.at + TokenLife
    <3> PICK b \in blocked : b.id = t.id /\ b.left + clock = t.at + TokenLife
      BY <2>1
    <3>1. b.left > 1 /\ b.left \in Nat
      BY <1>0
    <3>2. PICK c \in blocked' : c.id = b.id /\ c.left = b.left - 1
      BY <1>2, <3>1
    <3> QED BY <1>0, <3>1, <3>2
  <2>2. CASE cut[t.account].left > 0 /\ t.at <= cut[t.account].at
    <3> PICK c : c = cut[t.account]
      OBVIOUS
    <3>1. t.account \in Member /\ c.left \in Nat /\ c.at \in Nat /\ c.left + clock = c.at + TokenLife
      BY <1>0, <2>2 DEF SessionsInv, CutsLast
    <3>2. c.left > 1
      BY <1>0, <2>2, <3>1
    <3>3. cut'[t.account] = [at |-> c.at, left |-> c.left - 1]
      BY <1>3, <3>1, <3>2
    <3>4. cut'[t.account].at = c.at /\ cut'[t.account].left = c.left - 1
      BY <3>3
    <3> QED BY <2>2, <3>1, <3>2, <3>4
  <2> QED
    BY <1>0, <2>1, <2>2 DEF SessionsInv, EndedIsKept, Expires, CutOff
<1> QED BY <1>5, <1>6, <1>7, <1>8, <1>9 DEF SessionsInv

LEMMA SessionsNextInv == SessionsInv /\ [SessionsNext]_sessionVars => SessionsInv'
<1> SUFFICES ASSUME SessionsInv, [SessionsNext]_sessionVars PROVE SessionsInv'
  OBVIOUS
<1>0. \A t \in tokens : t.account \in Member
  BY DEF SessionsInv, SessionsTypeOK
<1>1. CASE PassSecond
  BY <1>1, PassSecondInv
<1>2. ASSUME NEW t \in tokens, Logout(t) PROVE SessionsInv'
  BY <1>2, LogoutInv
<1>3. ASSUME NEW t \in tokens, LogoutAll(t) PROVE SessionsInv'
  BY <1>0, <1>3, CutsAllInv DEF LogoutAll, CutsAll, SessionsInv, SessionsTypeOK
<1>4. ASSUME NEW a \in Member, Issue(a) PROVE SessionsInv'
  BY <1>4, IssueInv
<1>5. ASSUME NEW a \in Member, CutSessions(a) PROVE SessionsInv'
  BY <1>5, CutsAllInv DEF CutSessions, CutsAll, SessionsInv, SessionsTypeOK
<1>6. CASE /\ UNCHANGED <<clock, tokens, blocked, cut>>
           /\ gone' \subseteq Member /\ idle' \subseteq Member /\ leaving' \subseteq Member
  BY <1>6 DEF SessionsInv, SessionsTypeOK, TokensNumbered, BlockedWereEnded, CutsLast,
     EndedIsKept, Expires, CutOff
<1>7. gone \subseteq Member /\ idle \subseteq Member /\ leaving \subseteq Member
  BY DEF SessionsInv, SessionsTypeOK
<1>8. ASSUME NEW a \in Member, CommitDelete(a) \/ RestoreMember(a) PROVE SessionsInv'
  BY <1>6, <1>7, <1>8 DEF CommitDelete, RestoreMember
<1>9. ASSUME NEW a \in Member, NEW active \in BOOLEAN, SetActive(a, active) PROVE SessionsInv'
  BY <1>6, <1>7, <1>9 DEF SetActive
<1>10. CASE UNCHANGED sessionVars
  BY <1>6, <1>7, <1>10 DEF sessionVars
<1> QED
  BY <1>1, <1>2, <1>3, <1>4, <1>5, <1>8, <1>9, <1>10 DEF SessionsNext

\* A session that was logged out or cut off stays ended for as long as its token could be
\* good, also when its account is restored, and no other session is ended with it, for
\* any number of accounts, tokens and seconds.
THEOREM SessionsHoldAlways == SessionsSpec => []SessionsHold
<1>1. SessionsSpec => []SessionsInv
  BY SessionsInitInv, SessionsNextInv, PTL DEF SessionsSpec
<1> QED BY <1>1, SessionsInvHold, PTL

-----------------------------------------------------------------------------
(* Signing in. *)

\* Verifications that may still give an answer.
Begun == {r \in Verifying : verifying[r].phase = "begun"}
Holds(r, c) == verifying[r].phase = "matched" /\ verifying[r].code = c

SignInTyped ==
    /\ account \in AccountState /\ sent \in 0..MaxCodes /\ ticks \in 0..MaxTicks
    /\ code \in [id : 0..MaxCodes, left : 0..CodeLife]
    /\ limits \in [sends : 0..SendLimit, fails : Nat, window : 0..LockLife, lock : 0..LockLife]
    /\ verifying \in [Verifying -> [phase : {"none", "begun", "matched"}, account : AccountState,
                                    code : 0..MaxCodes]]
    /\ granted \in [1..MaxCodes -> Nat] /\ opened \in Nat
    /\ wrong \in [0..MaxTicks -> Nat]
\* A code that gave a token is not in Redis any more, and nobody holds it.
CodesSpent ==
    /\ code # NoCode => code.id \in 1..sent
    /\ \A r \in Verifying : verifying[r].phase = "matched" => verifying[r].code \in 1..sent
    /\ \A r, o \in Verifying : \A c \in 1..MaxCodes :
          r # o /\ Holds(r, c) /\ Holds(o, c) => c \in heldTwice
    /\ \A c \in 1..MaxCodes : c \notin heldTwice =>
          /\ granted[c] <= 1
          /\ granted[c] = 1 => code.id # c /\ \A r \in Verifying : ~Holds(r, c)
    /\ \A c \in 1..MaxCodes : granted[c] > 0 => c <= sent
    /\ opened > 0 => \E c \in 1..MaxCodes : granted[c] > 0
\* The wrong answers of the window are those since the tick that opened it, which has one.
WindowsCount ==
    /\ \A t \in 0..MaxTicks : t > ticks => wrong[t] = 0
    /\ limits.window = 0 => limits.fails = 0 /\ wrong[ticks] = 0
    /\ limits.window > 0 =>
          /\ limits.fails > 0 /\ ticks + limits.window - LockLife \in 0..ticks
          /\ WrongSince(ticks + limits.window - LockLife) = limits.fails
          /\ wrong[ticks + limits.window - LockLife] > 0
\* While the number is not locked the window is not full, and what is left of the
\* window before lacks its first answer.
UnlockedFew ==
    limits.lock = 0 => /\ limits.fails < FailLimit
                       /\ WrongSince(ticks - LockLife + 1) - limits.fails <= FailLimit - 2
\* While it is locked nobody begins: the answers of those under way are all that can
\* come.  A full window ends no later than the lock, and what was answered since the lock
\* was set is of a window that ends later.
LockedFew ==
    limits.lock > 0 =>
        /\ WrongSince(ticks - LockLife + 1) + Cardinality(Begun) <= 2 * FailLimit - 3 + Cardinality(Verifying)
        /\ limits.fails + Cardinality(Begun) <= FailLimit - 1 + Cardinality(Verifying)
        /\ limits.fails >= FailLimit =>
              limits.window <= limits.lock /\ WrongSince(ticks + limits.lock - LockLife + 1) = 0
        /\ limits.fails < FailLimit =>
              /\ limits.lock < LockLife
              /\ WrongSince(ticks + limits.lock - LockLife + 1) = limits.fails
              /\ limits.fails > 0 => limits.window > limits.lock
SignInInv == SignInTyped /\ CodesSpent /\ WindowsCount /\ UnlockedFew /\ LockedFew

LEMMA SignInNumbers ==
    /\ SendLimit \in Nat \ {0} /\ CodeLife \in Nat \ {0} /\ LockLife \in Nat \ {0}
    /\ FailLimit \in Nat /\ FailLimit >= 2 /\ MaxCodes \in Nat /\ MaxTicks \in Nat
    /\ IsFiniteSet(Verifying) /\ Cardinality(Verifying) \in Nat
BY SignInAssumption, FS_CardinalityType

LEMMA BegunCounted ==
    /\ IsFiniteSet(Begun) /\ Cardinality(Begun) \in Nat
    /\ Cardinality(Begun) <= Cardinality(Verifying)
<1>1. Begun \subseteq Verifying
  BY DEF Begun
<1> QED BY <1>1, SignInNumbers, FS_Subset, FS_CardinalityType

-----------------------------------------------------------------------------
\* How many wrong answers there are since a tick.
LEMMA SinceStep ==
    ASSUME wrong \in [0..MaxTicks -> Nat], NEW n \in Int
    PROVE  /\ WrongSince(n) \in Nat /\ WrongSince(n + 1) \in Nat
           /\ WrongSince(n + 1) <= WrongSince(n)
           /\ n \in 0..MaxTicks => WrongSince(n) = wrong[n] + WrongSince(n + 1)
<1> DEFINE F(k) == [t \in 0..MaxTicks |-> IF t >= k THEN wrong[t] ELSE 0]
<1>0. IsFiniteSet(0..MaxTicks)
  BY SignInNumbers, FS_Interval
<1>1. ASSUME NEW k \in Int
      PROVE  /\ Finitely(F(k)) /\ DOMAIN F(k) = 0..MaxTicks
             /\ \A t \in DOMAIN F(k) : F(k)[t] \in Nat
  <2>1. DOMAIN F(k) = 0..MaxTicks /\ \A t \in 0..MaxTicks : F(k)[t] \in Nat
    OBVIOUS
  <2> HIDE DEF F
  <2> QED BY <1>0, <2>1 DEF Finitely
<1>2. \A k \in Int : WrongSince(k) = TotalOf(F(k))
  BY DEF WrongSince
<1>3. n + 1 \in Int
  OBVIOUS
<1>4. \A t \in 0..MaxTicks : t # n => F(n + 1)[t] = F(n)[t]
  OBVIOUS
<1>5. n \in 0..MaxTicks => F(n)[n] = wrong[n] /\ F(n + 1)[n] = 0 /\ wrong[n] \in Nat
  OBVIOUS
<1> HIDE DEF F
<1>d. PICK f : f = F(n)
  OBVIOUS
<1>e. PICK g : g = F(n + 1)
  OBVIOUS
<1>c. f = F(n) /\ g = F(n + 1)
  BY <1>d, <1>e
<1>a. /\ Finitely(f) /\ DOMAIN f = 0..MaxTicks /\ \A t \in DOMAIN f : f[t] \in Nat
      /\ Finitely(g) /\ DOMAIN g = 0..MaxTicks /\ \A t \in DOMAIN g : g[t] \in Nat
  BY <1>1, <1>3, <1>c
<1>6. TotalOf(f) \in Nat /\ TotalOf(g) \in Nat
  BY <1>a, TotalNat
<1>b. WrongSince(n) = TotalOf(f) /\ WrongSince(n + 1) = TotalOf(g)
  BY <1>2, <1>3, <1>c
<1>7. CASE n \in 0..MaxTicks
  <2>1. TotalOf(g) = TotalOf(f) - f[n] + g[n]
    <3>1. /\ n \in DOMAIN f /\ g[n] \in Int /\ DOMAIN g = DOMAIN f
          /\ \A t \in DOMAIN f : t # n => g[t] = f[t]
      <4>1. \A t \in 0..MaxTicks : t # n => g[t] = f[t]
        BY <1>4, <1>c
      <4>2. n \in DOMAIN f /\ DOMAIN g = DOMAIN f
        BY <1>a, <1>7
      <4>3. g[n] \in Int
        BY <1>a, <1>7
      <4> QED BY <1>a, <4>1, <4>2, <4>3
    <3> QED BY <1>a, <3>1, TotalChanged
  <2>2. f[n] = wrong[n] /\ g[n] = 0 /\ wrong[n] \in Nat
    BY <1>5, <1>7, <1>c
  <2> QED BY <1>b, <1>6, <2>1, <2>2
<1>8. CASE n \notin 0..MaxTicks
  <2>1. TotalOf(g) = TotalOf(f)
    <3>1. \A t \in 0..MaxTicks : g[t] = f[t]
      BY <1>4, <1>8, <1>c
    <3> QED BY <1>a, <3>1, TotalSame
  <2> QED BY <1>b, <1>6, <1>8, <2>1
<1> QED BY <1>7, <1>8

LEMMA SinceNone ==
    ASSUME NEW n \in Int, \A t \in 0..MaxTicks : t >= n => wrong[t] = 0
    PROVE  WrongSince(n) = 0
BY TotalZero DEF WrongSince

\* The same, of any count of wrong answers.
WrongIn(w, n) == TotalOf([t \in 0..MaxTicks |-> IF t >= n THEN w[t] ELSE 0])

\* One wrong answer more in this tick.
LEMMA SinceAnswer ==
    ASSUME wrong \in [0..MaxTicks -> Nat], ticks \in 0..MaxTicks,
           wrong' = [wrong EXCEPT ![ticks] = @ + 1], NEW n \in Int
    PROVE  WrongIn(wrong', n) = WrongSince(n) + IF n <= ticks THEN 1 ELSE 0
<1> DEFINE f == [t \in 0..MaxTicks |-> IF t >= n THEN wrong[t] ELSE 0]
           g == [t \in 0..MaxTicks |-> IF t >= n THEN wrong'[t] ELSE 0]
<1>0. IsFiniteSet(0..MaxTicks)
  BY SignInNumbers, FS_Interval
<1>1. DOMAIN f = 0..MaxTicks /\ DOMAIN g = 0..MaxTicks /\ \A t \in DOMAIN f : f[t] \in Nat
  OBVIOUS
<1>2. \A t \in 0..MaxTicks : t # ticks => g[t] = f[t]
  OBVIOUS
<1>3. g[ticks] = f[ticks] + (IF n <= ticks THEN 1 ELSE 0) /\ g[ticks] \in Nat /\ f[ticks] \in Nat
  OBVIOUS
<1>4. WrongSince(n) = TotalOf(f) /\ WrongIn(wrong', n) = TotalOf(g)
  BY DEF WrongSince, WrongIn
<1> HIDE DEF f, g
<1>a. Finitely(f)
  BY <1>0, <1>1 DEF Finitely
<1>5. TotalOf(g) = TotalOf(f) - f[ticks] + g[ticks] /\ TotalOf(f) \in Nat
  <2>1. ticks \in DOMAIN f /\ DOMAIN g = DOMAIN f /\ \A t \in DOMAIN f : t # ticks => g[t] = f[t]
    BY <1>1, <1>2
  <2>2. g[ticks] \in Int
    BY <1>3
  <2>3. TotalOf(g) = TotalOf(f) - f[ticks] + g[ticks]
    BY <1>a, <2>1, <2>2, TotalChanged
  <2> QED BY <1>1, <1>a, <2>3, TotalNat
<1> QED BY <1>3, <1>4, <1>5

-----------------------------------------------------------------------------
LEMMA SignInInvHolds == SignInInv => SignInTypeOK /\ CodeUsedOnce /\ GuessesBounded
<1> SUFFICES ASSUME SignInInv PROVE SignInTypeOK /\ CodeUsedOnce /\ GuessesBounded
  OBVIOUS
<1> USE DEF SignInInv
<1>1. /\ limits.fails \in Nat /\ limits.sends \in 0..SendLimit
      /\ limits.lock \in 0..LockLife /\ limits.window \in 0..LockLife /\ ticks \in 0..MaxTicks
  BY DEF SignInTyped
<1>2. WrongSince(ticks - LockLife + 1) \in Nat
  <2>1. ticks - LockLife + 1 \in Int
    BY <1>1, SignInNumbers
  <2>2. wrong \in [0..MaxTicks -> Nat]
    BY DEF SignInTyped
  <2> QED BY <2>1, <2>2, SinceStep
<1>3. /\ limits.fails <= FailLimit - 1 + Cardinality(Verifying)
      /\ WrongSince(ticks - LockLife + 1) <= 2 * FailLimit - 3 + Cardinality(Verifying)
  <2>1. CASE limits.lock = 0
    BY <1>1, <1>2, <2>1, SignInNumbers DEF UnlockedFew
  <2>2. CASE limits.lock > 0
    BY <1>1, <1>2, <2>2, SignInNumbers, BegunCounted DEF LockedFew
  <2> QED BY <1>1, <2>1, <2>2
<1>4. SignInTypeOK
  <2>1. limits.fails \in 0..(FailLimit + Cardinality(Verifying) - 1)
    BY <1>1, <1>3, SignInNumbers
  <2> QED BY <1>1, <2>1 DEF SignInTyped, SignInTypeOK
<1>5. GuessesBounded
  <2>1. 2 * FailLimit - 3 + Cardinality(Verifying) = 2 * FailLimit - 2 + Cardinality(Verifying) - 1
    BY SignInNumbers
  <2> QED BY <1>3, <2>1 DEF GuessesBounded
<1>6. CodeUsedOnce
  <2>1. DOMAIN granted = 1..MaxCodes /\ granted \in [1..MaxCodes -> Nat]
    BY DEF SignInTyped
  <2>2. \A c \in 1..MaxCodes : granted[c] > 1 => c \in heldTwice
    <3> TAKE c \in 1..MaxCodes
    <3>1. granted[c] \in Nat
      BY <2>1
    <3>2. c \notin heldTwice => granted[c] <= 1
      BY DEF CodesSpent
    <3> QED BY <3>1, <3>2
  <2>3. \A c \in 1..MaxCodes : granted[c] > 0 => c <= sent
    BY DEF CodesSpent
  <2>4. opened > 0 => \E c \in 1..MaxCodes : granted[c] > 0
    BY DEF CodesSpent
  <2> QED BY <2>1, <2>2, <2>3, <2>4 DEF CodeUsedOnce
<1> QED BY <1>4, <1>5, <1>6

LEMMA SignInInitInv == SignInInit => SignInInv
<1> SUFFICES ASSUME SignInInit PROVE SignInInv
  OBVIOUS
<1> USE DEF SignInInit
<1>1. SignInTyped
  BY SignInNumbers DEF SignInTyped, NoCode, NoLimits, NotVerifying, AccountState, NoneWrong
<1>2. CodesSpent
  BY DEF CodesSpent, NoCode, NotVerifying, Holds
<1>3. \A t \in 0..MaxTicks : wrong[t] = 0
  BY DEF NoneWrong
<1>4. \A n \in Int : WrongSince(n) = 0
  BY <1>3, SinceNone
<1>5. limits.window = 0 /\ limits.lock = 0 /\ limits.fails = 0 /\ ticks = 0
  BY DEF NoLimits
<1>6. WindowsCount /\ UnlockedFew /\ LockedFew
  BY <1>3, <1>4, <1>5, SignInNumbers DEF WindowsCount, UnlockedFew, LockedFew
<1> QED BY <1>1, <1>2, <1>6 DEF SignInInv

\* What leaves the answers and the lock alone.
LEMMA WindowsKept ==
    ASSUME SignInInv, UNCHANGED <<wrong, ticks>>,
           limits'.fails = limits.fails, limits'.window = limits.window, limits'.lock = limits.lock,
           limits.lock > 0 => Begun' \subseteq Begun
    PROVE  WindowsCount' /\ UnlockedFew' /\ LockedFew'
<1>1. \A n : WrongSince(n)' = WrongSince(n)
  BY DEF WrongSince
<1>2. limits.lock > 0 => Cardinality(Begun') <= Cardinality(Begun) /\ Cardinality(Begun') \in Nat
  BY BegunCounted, FS_Subset, FS_CardinalityType
<1>3. WindowsCount'
  BY <1>1 DEF SignInInv, WindowsCount
<1>4. UnlockedFew'
  BY <1>1 DEF SignInInv, UnlockedFew
<1>5. LockedFew'
  <2> SUFFICES ASSUME limits.lock > 0 PROVE LockedFew'
    BY DEF LockedFew
  <2>1. ticks \in Nat /\ limits.fails \in Nat /\ LockLife \in Nat
    BY SignInNumbers DEF SignInInv, SignInTyped
  <2>2. WrongSince(ticks - LockLife + 1) \in Nat
    <3>1. ticks - LockLife + 1 \in Int
      BY <2>1
    <3>2. wrong \in [0..MaxTicks -> Nat]
      BY DEF SignInInv, SignInTyped
    <3> QED BY <3>1, <3>2, SinceStep
  <2> QED
    BY <1>1, <1>2, <2>1, <2>2, SignInNumbers, BegunCounted DEF SignInInv, LockedFew
<1> QED BY <1>3, <1>4, <1>5

-----------------------------------------------------------------------------
LEMMA SendCodeInv == SignInInv /\ SendCode => SignInInv'
<1> SUFFICES ASSUME SignInInv, SendCode PROVE SignInInv'
  OBVIOUS
<1> USE DEF SignInInv
<1>1. /\ limits.sends \in 0..SendLimit /\ limits.sends < SendLimit /\ sent \in 0..MaxCodes
      /\ sent < MaxCodes /\ sent' = sent + 1 /\ code' = [id |-> sent + 1, left |-> CodeLife]
      /\ UNCHANGED <<account, verifying, granted, ticks, wrong, heldTwice, opened>>
  BY DEF SendCode, SignInTyped
<1>2. limits' = [limits EXCEPT !.sends = @ + 1]
      /\ limits \in [sends : 0..SendLimit, fails : Nat, window : 0..LockLife, lock : 0..LockLife]
  BY DEF SendCode, SignInTyped
<1>3. /\ limits' \in [sends : 0..SendLimit, fails : Nat, window : 0..LockLife, lock : 0..LockLife]
      /\ limits'.fails = limits.fails /\ limits'.window = limits.window /\ limits'.lock = limits.lock
  BY <1>1, <1>2, SignInNumbers
<1>4. SignInTyped'
  <2>1. sent' \in 0..MaxCodes /\ code' \in [id : 0..MaxCodes, left : 0..CodeLife]
    BY <1>1, SignInNumbers
  <2> QED BY <1>1, <1>3, <2>1 DEF SignInTyped
<1>5. Begun' = Begun
  BY <1>1 DEF Begun
<1>6. WindowsCount' /\ UnlockedFew' /\ LockedFew'
  BY <1>1, <1>3, <1>5, WindowsKept
<1>7. CodesSpent'
  <2>1. code'.id = sent + 1 /\ code'.id \in 1..sent'
    BY <1>1
  <2>2. \A r \in Verifying : verifying'[r].phase = "matched" => verifying'[r].code \in 1..sent'
    BY <1>1 DEF CodesSpent
  <2>3. \A r, o \in Verifying : \A c \in 1..MaxCodes :
          r # o /\ Holds(r, c)' /\ Holds(o, c)' => c \in heldTwice'
    BY <1>1 DEF CodesSpent, Holds
  <2>4. \A c \in 1..MaxCodes : c \notin heldTwice' =>
          /\ granted'[c] <= 1
          /\ granted'[c] = 1 => code'.id # c /\ \A r \in Verifying : ~Holds(r, c)'
    <3> TAKE c \in 1..MaxCodes
    <3> HAVE c \notin heldTwice'
    <3>1. granted[c] <= 1 /\ (granted[c] = 1 => \A r \in Verifying : ~Holds(r, c))
      BY <1>1 DEF CodesSpent
    <3>2. granted[c] > 0 => c <= sent
      BY DEF CodesSpent
    <3>3. granted[c] = 1 => c # sent + 1
      BY <1>1, <3>2
    <3> QED BY <1>1, <2>1, <3>1, <3>3 DEF Holds
  <2>5. \A c \in 1..MaxCodes : granted'[c] > 0 => c <= sent'
    <3> TAKE c \in 1..MaxCodes
    <3>1. granted[c] > 0 => c <= sent
      BY DEF CodesSpent
    <3> QED BY <1>1, <3>1
  <2>6. opened' > 0 => \E c \in 1..MaxCodes : granted'[c] > 0
    BY <1>1 DEF CodesSpent
  <2> QED BY <2>1, <2>2, <2>3, <2>4, <2>5, <2>6 DEF CodesSpent
<1> QED BY <1>4, <1>6, <1>7

LEMMA AccountChangesInv ==
    ASSUME SignInInv, NEW new \in AccountState, AccountChanges(new) PROVE SignInInv'
<1>1. account' \in AccountState
      /\ UNCHANGED <<code, limits, verifying, granted, sent, ticks, wrong, heldTwice, opened>>
  BY DEF AccountChanges
<1>2. SignInTyped'
  BY <1>1 DEF SignInInv, SignInTyped
<1>3. CodesSpent'
  BY <1>1 DEF SignInInv, CodesSpent, Holds
<1>4. Begun' = Begun
  BY <1>1 DEF Begun
<1>5. WindowsCount' /\ UnlockedFew' /\ LockedFew'
  BY <1>1, <1>4, WindowsKept
<1> QED BY <1>2, <1>3, <1>5 DEF SignInInv

LEMMA BeginVerifyInv ==
    ASSUME SignInInv, NEW r \in Verifying, BeginVerify(r) PROVE SignInInv'
<1> USE DEF SignInInv
<1>1. /\ verifying' = [verifying EXCEPT ![r] = [phase |-> "begun", account |-> account, code |-> 0]]
      /\ UNCHANGED <<account, code, limits, granted, sent, ticks, wrong, heldTwice, opened>>
      /\ ~(limits.lock > 0)
  BY DEF BeginVerify, Locked
<1>2. SignInTyped'
  <2>1. [phase |-> "begun", account |-> account, code |-> 0]
          \in [phase : {"none", "begun", "matched"}, account : AccountState, code : 0..MaxCodes]
    BY SignInNumbers DEF SignInTyped
  <2> QED BY <1>1, <2>1 DEF SignInTyped
<1>3. \A q \in Verifying, c \in 1..MaxCodes : Holds(q, c)' => Holds(q, c)
  BY <1>1 DEF Holds, SignInTyped
<1>4. CodesSpent'
  <2>1. \A q \in Verifying : verifying'[q].phase = "matched" => verifying'[q] = verifying[q]
    BY <1>1 DEF SignInTyped
  <2> QED BY <1>1, <1>3, <2>1 DEF CodesSpent
<1>5. WindowsCount' /\ UnlockedFew' /\ LockedFew'
  BY <1>1, WindowsKept
<1> QED BY <1>2, <1>4, <1>5

LEMMA MatchCodeInv ==
    ASSUME SignInInv, NEW r \in Verifying, MatchCode(r) PROVE SignInInv'
<1> USE DEF SignInInv
<1>1. /\ verifying[r].phase = "begun" /\ code # NoCode
      /\ verifying' = [verifying EXCEPT ![r].phase = "matched", ![r].code = code.id]
      /\ heldTwice' = heldTwice \cup {c \in {code.id} : \E o \in Verifying \ {r} :
                                  verifying[o].phase = "matched" /\ verifying[o].code = c}
      /\ UNCHANGED <<account, code, limits, granted, sent, ticks, wrong, opened>>
  BY DEF MatchCode
<1>2. code.id \in 1..sent /\ sent \in 0..MaxCodes /\ code.id \in 0..MaxCodes
  BY <1>1 DEF SignInTyped, CodesSpent
<1>3. /\ verifying'[r].phase = "matched" /\ verifying'[r].code = code.id
      /\ verifying'[r].account \in AccountState
      /\ \A o \in Verifying : o # r => verifying'[o] = verifying[o]
  BY <1>1 DEF SignInTyped
<1>4. SignInTyped'
  <2>1. verifying' \in [Verifying -> [phase : {"none", "begun", "matched"}, account : AccountState,
                                    code : 0..MaxCodes]]
    BY <1>1, <1>2 DEF SignInTyped
  <2> QED BY <1>1, <2>1 DEF SignInTyped
<1>5. Begun' \subseteq Begun
  BY <1>3 DEF Begun
<1>6. WindowsCount' /\ UnlockedFew' /\ LockedFew'
  BY <1>1, <1>5, WindowsKept
<1>7. CodesSpent'
  <2>1. code' # NoCode => code'.id \in 1..sent'
    BY <1>1, <1>2
  <2>2. \A q \in Verifying : verifying'[q].phase = "matched" => verifying'[q].code \in 1..sent'
    BY <1>1, <1>2, <1>3 DEF CodesSpent
  <2>3. \A q \in Verifying : \A c \in 1..MaxCodes : Holds(q, c)' =>
          Holds(q, c) \/ (q = r /\ c = code.id)
    BY <1>3 DEF Holds
  <2>4. \A q, o \in Verifying : \A c \in 1..MaxCodes :
          q # o /\ Holds(q, c)' /\ Holds(o, c)' => c \in heldTwice'
    <3> TAKE q, o \in Verifying
    <3> TAKE c \in 1..MaxCodes
    <3> HAVE q # o /\ Holds(q, c)' /\ Holds(o, c)'
    <3>1. CASE q # r /\ o # r
      BY <1>1, <2>3, <3>1 DEF CodesSpent
    <3>2. CASE q = r
      <4>1. c = code.id
        BY <1>3, <3>2 DEF Holds
      <4>2. verifying[o].phase = "matched" /\ verifying[o].code = c
        BY <1>3, <3>2 DEF Holds
      <4> QED BY <1>1, <3>2, <4>1, <4>2
    <3>3. CASE o = r
      <4>1. c = code.id
        BY <1>3, <3>3 DEF Holds
      <4>2. verifying[q].phase = "matched" /\ verifying[q].code = c
        BY <1>3, <3>3 DEF Holds
      <4> QED BY <1>1, <3>3, <4>1, <4>2
    <3> QED BY <3>1, <3>2, <3>3
  <2>5. \A c \in 1..MaxCodes : c \notin heldTwice' =>
          /\ granted'[c] <= 1
          /\ granted'[c] = 1 => code'.id # c /\ \A q \in Verifying : ~Holds(q, c)'
    <3> TAKE c \in 1..MaxCodes
    <3> HAVE c \notin heldTwice'
    <3>1. c \notin heldTwice
      BY <1>1
    <3>2. granted[c] <= 1 /\ (granted[c] = 1 => code.id # c /\ \A q \in Verifying : ~Holds(q, c))
      BY <3>1 DEF CodesSpent
    <3> QED BY <1>1, <2>3, <3>2
  <2>6. \A c \in 1..MaxCodes : granted'[c] > 0 => c <= sent'
    BY <1>1 DEF CodesSpent
  <2>7. opened' > 0 => \E c \in 1..MaxCodes : granted'[c] > 0
    BY <1>1 DEF CodesSpent
  <2> QED BY <2>1, <2>2, <2>4, <2>5, <2>6, <2>7 DEF CodesSpent
<1> QED BY <1>4, <1>6, <1>7

\* A right answer clears the counts, whatever it finds of the account.
LEMMA AcceptCodeInv ==
    ASSUME SignInInv, NEW r \in Verifying, AcceptCode(r) PROVE SignInInv'
<1> USE DEF SignInInv
<1>1. /\ verifying[r].phase = "matched" /\ code' = NoCode
      /\ limits' = [limits EXCEPT !.fails = 0, !.window = 0, !.lock = 0] /\ wrong' = NoneWrong
      /\ verifying' = [verifying EXCEPT ![r] = NotVerifying]
      /\ UNCHANGED <<sent, ticks, heldTwice>>
  BY DEF AcceptCode, Spent
<1>2. \/ UNCHANGED <<granted, opened>> /\ account' \in AccountState
      \/ /\ granted' = [granted EXCEPT ![verifying[r].code] = @ + 1]
         /\ opened' \in Nat /\ account' \in AccountState
  BY DEF AcceptCode, SignInTyped, AccountState
<1>3. verifying[r].code \in 1..sent /\ sent \in 0..MaxCodes /\ verifying[r].code \in 1..MaxCodes
  BY SMTT(40), <1>1, SignInNumbers DEF CodesSpent, SignInTyped
<1>4. SignInTyped'
  <2>1. code' \in [id : 0..MaxCodes, left : 0..CodeLife]
    BY <1>1, SignInNumbers DEF NoCode
  <2>2. limits' \in [sends : 0..SendLimit, fails : Nat, window : 0..LockLife, lock : 0..LockLife]
    <3>1. limits \in [sends : 0..SendLimit, fails : Nat, window : 0..LockLife, lock : 0..LockLife]
      BY DEF SignInTyped
    <3>2. 0 \in Nat /\ 0 \in 0..LockLife
      BY SignInNumbers
    <3> QED BY <1>1, <3>1, <3>2
  <2>3. verifying' \in [Verifying -> [phase : {"none", "begun", "matched"}, account : AccountState,
                                    code : 0..MaxCodes]]
    <3>1. NotVerifying \in [phase : {"none", "begun", "matched"}, account : AccountState,
                            code : 0..MaxCodes]
      BY SignInNumbers DEF NotVerifying, AccountState
    <3> QED BY <1>1, <3>1 DEF SignInTyped
  <2>4. granted' \in [1..MaxCodes -> Nat] /\ opened' \in Nat /\ account' \in AccountState
    <3>1. granted \in [1..MaxCodes -> Nat] /\ opened \in Nat
      BY DEF SignInTyped
    <3>2. CASE UNCHANGED <<granted, opened>>
      BY <1>2, <3>1, <3>2
    <3>3. CASE granted' = [granted EXCEPT ![verifying[r].code] = @ + 1]
      <4>1. granted[verifying[r].code] + 1 \in Nat
        BY <1>3, <3>1
      <4> QED BY <1>2, <3>1, <3>3, <4>1
    <3> QED BY <1>2, <3>2, <3>3
  <2>5. wrong' \in [0..MaxTicks -> Nat]
    BY <1>1 DEF NoneWrong
  <2> QED BY <1>1, <2>1, <2>2, <2>3, <2>4, <2>5 DEF SignInTyped
<1>5. \A q \in Verifying, c \in 1..MaxCodes : Holds(q, c)' => Holds(q, c) /\ q # r
  BY <1>1 DEF Holds, SignInTyped, NotVerifying
<1>6. CodesSpent'
  <2>1. \A q \in Verifying : verifying'[q].phase = "matched" => verifying'[q] = verifying[q]
    BY <1>1 DEF SignInTyped, NotVerifying
  <2>2. code' = NoCode /\ code'.id = 0
    BY <1>1 DEF NoCode
  <2>3. \A c \in 1..MaxCodes : c \notin heldTwice' =>
          /\ granted'[c] <= 1
          /\ granted'[c] = 1 => code'.id # c /\ \A q \in Verifying : ~Holds(q, c)'
    <3> TAKE c \in 1..MaxCodes
    <3> HAVE c \notin heldTwice'
    <3>1. granted[c] <= 1 /\ (granted[c] = 1 => \A q \in Verifying : ~Holds(q, c)) /\ granted[c] \in Nat
      BY <1>1 DEF CodesSpent, SignInTyped
    <3>2. CASE c = verifying[r].code
      <4>1. Holds(r, c)
        BY <1>1, <3>2 DEF Holds
      <4>2. granted[c] = 0
        BY <3>1, <4>1
      <4>3. granted'[c] <= 1
        <5>1. granted \in [1..MaxCodes -> Nat]
          BY DEF SignInTyped
        <5>2. granted' = granted \/ granted' = [granted EXCEPT ![c] = @ + 1]
          BY <1>2, <3>2
        <5>3. [granted EXCEPT ![c] = @ + 1][c] = 1
          BY <4>2, <5>1
        <5>4. granted'[c] = 0 \/ granted'[c] = 1
          BY <4>2, <5>2, <5>3
        <5> QED BY <5>4
      <4>4. \A q \in Verifying : q # r => ~Holds(q, c)
        BY <1>1, <4>1 DEF CodesSpent
      <4> QED BY <1>5, <2>2, <4>3, <4>4
    <3>3. CASE c # verifying[r].code
      <4>1. granted'[c] = granted[c]
        BY <1>2, <3>3 DEF SignInTyped
      <4> QED BY <1>5, <2>2, <3>1, <4>1
    <3> QED BY <3>2, <3>3
  <2>5. \A c \in 1..MaxCodes : granted'[c] > 0 => c <= sent'
    <3> TAKE c \in 1..MaxCodes
    <3>1. granted'[c] = granted[c] \/ c = verifying[r].code
      BY <1>2 DEF SignInTyped
    <3> QED BY <1>1, <1>3, <3>1 DEF CodesSpent
  <2>6. opened' > 0 => \E c \in 1..MaxCodes : granted'[c] > 0
    <3>1. CASE UNCHANGED <<granted, opened>>
      BY <3>1 DEF CodesSpent
    <3>2. CASE granted' = [granted EXCEPT ![verifying[r].code] = @ + 1]
      <4>1. granted \in [1..MaxCodes -> Nat]
        BY DEF SignInTyped
      <4>2. granted'[verifying[r].code] = granted[verifying[r].code] + 1
        BY <1>3, <3>2, <4>1
      <4> QED BY <1>3, <4>1, <4>2
    <3> QED BY <1>2, <3>1, <3>2
  <2>7. \A q, o \in Verifying : \A c \in 1..MaxCodes :
          q # o /\ Holds(q, c)' /\ Holds(o, c)' => c \in heldTwice'
    BY <1>1, <1>5 DEF CodesSpent
  <2>8. \A q \in Verifying : verifying'[q].phase = "matched" => verifying'[q].code \in 1..sent'
    BY <1>1, <2>1 DEF CodesSpent
  <2> QED BY <2>2, <2>3, <2>5, <2>6, <2>7, <2>8 DEF CodesSpent
<1>7. \A t \in 0..MaxTicks : wrong'[t] = 0
  BY <1>1 DEF NoneWrong
<1>8. \A n \in Int : WrongSince(n)' = 0
  <2> TAKE n \in Int
  <2>1. \A s \in DOMAIN [t \in 0..MaxTicks |-> IF t >= n THEN wrong'[t] ELSE 0] :
           [t \in 0..MaxTicks |-> IF t >= n THEN wrong'[t] ELSE 0][s] = 0
    BY <1>7
  <2> QED BY <2>1, TotalZero DEF WrongSince
<1>9. limits'.window = 0 /\ limits'.lock = 0 /\ limits'.fails = 0 /\ ticks' \in 0..MaxTicks
  BY <1>1 DEF SignInTyped
<1>10. WindowsCount' /\ UnlockedFew' /\ LockedFew'
  <2>1. WrongSince(ticks - LockLife + 1)' = 0
    BY <1>1, <1>8, <1>9, SignInNumbers
  <2> QED BY <1>7, <1>9, <2>1, SignInNumbers DEF WindowsCount, UnlockedFew, LockedFew
<1> QED BY <1>4, <1>6, <1>10

\* Time passes: the oldest wrong answers fall out of the time of a lock.
LEMMA RunOutInv == SignInInv /\ RunOut => SignInInv'
<1> SUFFICES ASSUME SignInInv, RunOut PROVE SignInInv'
  OBVIOUS
<1> USE DEF SignInInv
<1>1. /\ ticks < MaxTicks /\ ticks' = ticks + 1
      /\ code' = IF code.left > 1 THEN [code EXCEPT !.left = @ - 1] ELSE NoCode
      /\ limits' = [sends |-> 0, fails |-> IF limits.window > 1 THEN limits.fails ELSE 0,
                    window |-> Less(limits.window), lock |-> Less(limits.lock)]
      /\ UNCHANGED <<account, verifying, granted, sent, wrong, heldTwice, opened>>
  BY DEF RunOut
<1>2. /\ ticks \in 0..MaxTicks /\ limits.fails \in Nat /\ limits.window \in 0..LockLife
      /\ limits.lock \in 0..LockLife /\ code.left \in 0..CodeLife /\ code.id \in 0..MaxCodes
      /\ wrong \in [0..MaxTicks -> Nat]
  BY DEF SignInTyped
<1>3. /\ limits'.fails = IF limits.window > 1 THEN limits.fails ELSE 0
      /\ limits'.window = Less(limits.window) /\ limits'.lock = Less(limits.lock)
      /\ limits'.window \in 0..LockLife /\ limits'.lock \in 0..LockLife
      /\ limits'.fails \in Nat /\ limits'.fails <= limits.fails
  <2>1. /\ limits'.fails = IF limits.window > 1 THEN limits.fails ELSE 0
        /\ limits'.window = Less(limits.window) /\ limits'.lock = Less(limits.lock)
    BY <1>1
  <2>2. \A n \in 0..LockLife : Less(n) \in 0..LockLife
    BY SignInNumbers DEF Less
  <2>3. limits'.fails \in Nat /\ limits'.fails <= limits.fails
    BY <1>2, <2>1
  <2> QED BY <1>2, <2>1, <2>2, <2>3
<1>4. code' = NoCode \/ (code'.id = code.id /\ code # NoCode)
  BY <1>1, <1>2 DEF NoCode, SignInTyped
<1>5. SignInTyped'
  <2>1. code' \in [id : 0..MaxCodes, left : 0..CodeLife]
    <3>1. code \in [id : 0..MaxCodes, left : 0..CodeLife]
      BY DEF SignInTyped
    <3>2. NoCode \in [id : 0..MaxCodes, left : 0..CodeLife]
      BY SignInNumbers DEF NoCode
    <3>3. code.left > 1 => code.left - 1 \in 0..CodeLife
      BY SMTT(40), <1>2, SignInNumbers
    <3> QED BY <1>1, <3>1, <3>2, <3>3
  <2>2. limits' \in [sends : 0..SendLimit, fails : Nat, window : 0..LockLife, lock : 0..LockLife]
    BY <1>1, <1>3, SignInNumbers
  <2>3. ticks' \in 0..MaxTicks
    BY SMTT(40), <1>1, <1>2, SignInNumbers
  <2> QED BY <1>1, <2>1, <2>2, <2>3 DEF SignInTyped
<1>6. CodesSpent'
  <2>1. code' # NoCode => code'.id \in 1..sent'
    BY <1>1, <1>4 DEF CodesSpent
  <2>2. \A c \in 1..MaxCodes : code'.id = c => code.id = c
    BY <1>4 DEF NoCode
  <2> QED BY <1>1, <2>1, <2>2 DEF CodesSpent, Holds
<1> DEFINE W == WrongSince(ticks - LockLife + 1)
           W2 == WrongSince(ticks - LockLife + 2)
           old == ticks + limits.window - LockLife
           mid == ticks + limits.lock - LockLife + 1
<1>a. \A n : WrongSince(n)' = WrongSince(n)
  BY <1>1 DEF WrongSince
<1>b. W \in Nat /\ W2 \in Nat /\ W2 <= W
  <2>1. ticks - LockLife + 1 \in Int /\ (ticks - LockLife + 1) + 1 = ticks - LockLife + 2
    BY <1>2, SignInNumbers
  <2> QED BY <1>2, <2>1, SinceStep
<1>c. WrongSince(ticks - LockLife + 1)' = W2
  <2>1. ticks' - LockLife + 1 = ticks - LockLife + 2
    BY <1>1, <1>2, SignInNumbers
  <2> QED BY <1>1, <2>1 DEF WrongSince
<1>d. Begun' = Begun
  BY <1>1 DEF Begun
\* The first answer of a window that ends now.
<1>e. ASSUME limits.window = 1 PROVE W2 <= limits.fails - 1 /\ limits.fails > 0
  <2>1. /\ limits.fails > 0 /\ old \in 0..ticks /\ WrongSince(old) = limits.fails /\ wrong[old] > 0
    BY <1>2, <1>e DEF WindowsCount
  <2>2. old = ticks - LockLife + 1 /\ old \in 0..MaxTicks /\ old + 1 = ticks - LockLife + 2 /\ old \in Int
    BY <1>2, <1>e, <2>1, SignInNumbers
  <2>3. WrongSince(old) = wrong[old] + WrongSince(old + 1)
    <3> HIDE DEF old
    <3> QED BY <1>2, <2>2, SinceStep
  <2>4. WrongSince(old + 1) = W2 /\ wrong[old] \in Nat
    BY <1>2, <2>2
  <2> QED BY <1>2, <1>b, <2>1, <2>3, <2>4
<1>f. ticks' + limits'.window - LockLife = old \/ limits'.window = 0
  <2>1. limits'.window = 0 \/ limits'.window = limits.window - 1
    BY <1>2, <1>3 DEF Less
  <2>2. ASSUME limits'.window = limits.window - 1 PROVE ticks' + limits'.window - LockLife = old
    <3>1. ticks \in Int /\ LockLife \in Int /\ limits.window \in Int
      BY <1>2, SignInNumbers
    <3>2. ticks' + limits'.window - LockLife = (ticks + 1) + (limits.window - 1) - LockLife
      BY <1>1, <2>2
    <3> QED BY <3>1, <3>2
  <2> QED BY <2>1, <2>2
<1>g. limits.lock = 1 => mid = ticks - LockLife + 2
  BY <1>2, SignInNumbers
<1>h. limits'.lock > 0 => ticks' + limits'.lock - LockLife + 1 = mid /\ limits'.lock = limits.lock - 1
                          /\ limits.lock > 0
  <2>1. limits'.lock > 0 => limits'.lock = limits.lock - 1 /\ limits.lock > 0
    BY <1>2, <1>3 DEF Less
  <2>2. ticks' = ticks + 1
    BY <1>1
  <2>3. ticks \in Int /\ limits.lock \in Int /\ LockLife \in Int
    BY <1>2, SignInNumbers
  <2> QED BY <2>1, <2>2, <2>3
<1>i. limits.window > 1 => limits'.window = limits.window - 1 /\ limits'.fails = limits.fails
  BY <1>2, <1>3, SignInNumbers DEF Less
<1>j. limits.window <= 1 => limits'.window = 0 /\ limits'.fails = 0
  BY <1>2, <1>3, SignInNumbers DEF Less
<1>k. limits.window = 0 => limits.fails = 0
  BY DEF WindowsCount
<1>7. WindowsCount'
  <2>1. \A t \in 0..MaxTicks : t > ticks' => wrong'[t] = 0
    <3>1. \A t \in 0..MaxTicks : t > ticks => wrong[t] = 0
      BY DEF WindowsCount
    <3>2. \A t \in 0..MaxTicks : t > ticks + 1 => t > ticks
      BY <1>2
    <3> QED BY <1>1, <3>1, <3>2
  <2>2. wrong'[ticks'] = 0
    <3>1. \A t \in 0..MaxTicks : t > ticks => wrong[t] = 0
      BY DEF WindowsCount
    <3>2. ticks + 1 \in 0..MaxTicks /\ ticks + 1 > ticks
      <4>1. ticks < MaxTicks
        BY <1>1
      <4>2. ticks \in Nat /\ MaxTicks \in Nat
        BY <1>2, SignInNumbers
      <4> QED BY <4>1, <4>2
    <3>3. ticks' = ticks + 1 /\ wrong' = wrong
      BY <1>1
    <3>4. wrong[ticks + 1] = 0
      BY <3>1, <3>2
    <3> QED BY <3>3, <3>4
  <2>3. limits'.window = 0 => limits'.fails = 0 /\ wrong'[ticks'] = 0
    BY <1>2, <1>i, <1>j, <2>2
  <2>4. ASSUME limits'.window > 0
        PROVE  /\ limits'.fails > 0 /\ ticks' + limits'.window - LockLife \in 0..ticks'
               /\ WrongSince(ticks + limits.window - LockLife)' = limits'.fails
               /\ wrong'[ticks' + limits'.window - LockLife] > 0
    <3>1. limits.window > 1 /\ limits'.fails = limits.fails
      BY <1>2, <1>i, <1>j, <2>4
    <3>2. limits.fails > 0 /\ old \in 0..ticks /\ WrongSince(old) = limits.fails /\ wrong[old] > 0
      BY <1>2, <3>1 DEF WindowsCount
    <3>3. ticks' + limits'.window - LockLife = old
      BY <1>f, <2>4, <1>3, SignInNumbers
    <3>4. WrongSince(ticks + limits.window - LockLife)' = WrongSince(old)
      BY <1>1, <3>3 DEF WrongSince
    <3>5. old \in 0..ticks'
      BY <1>1, <1>2, <3>2
    <3> QED BY <1>1, <3>1, <3>2, <3>3, <3>4, <3>5
  <2> QED BY <2>1, <2>3, <2>4 DEF WindowsCount
<1>8. UnlockedFew'
  <2> SUFFICES ASSUME limits'.lock = 0
               PROVE  limits'.fails < FailLimit /\ W2 - limits'.fails <= FailLimit - 2
    BY <1>c DEF UnlockedFew
  <2>1. limits.lock = 0 \/ limits.lock = 1
    BY <1>2, <1>3, SignInNumbers DEF Less
  <2>2. CASE limits.lock = 0
    <3>1. limits.fails < FailLimit /\ W - limits.fails <= FailLimit - 2
      BY <2>2 DEF UnlockedFew
    <3> HIDE DEF W, W2
    <3>2. CASE limits.window > 1
      BY <1>2, <1>b, <1>i, <3>1, <3>2, SignInNumbers
    <3>3. CASE limits.window = 1
      BY SMTT(40), <1>2, <1>b, <1>e, <1>j, <3>1, <3>3, SignInNumbers
    <3>4. CASE limits.window = 0
      BY <1>2, <1>b, <1>j, <1>k, <3>1, <3>4, SignInNumbers
    <3> QED BY <1>2, <3>2, <3>3, <3>4
  <2>3. CASE limits.lock = 1
    <3>1. CASE limits.fails >= FailLimit
      <4>1. limits.window <= 1 /\ W2 = 0
        BY <1>g, <2>3, <3>1 DEF LockedFew
      <4> QED BY <1>j, <4>1, SignInNumbers
    <3>2. CASE limits.fails < FailLimit
      <4>1. W2 = limits.fails /\ (limits.fails > 0 => limits.window > 1)
        BY <1>g, <2>3, <3>2 DEF LockedFew
      <4>2. limits'.fails = limits.fails
        BY <1>2, <1>i, <1>j, <4>1
      <4> QED BY <1>2, <3>2, <4>1, <4>2, SignInNumbers
    <3> QED BY <1>2, <3>1, <3>2, SignInNumbers
  <2> QED BY <2>1, <2>2, <2>3
<1>9. LockedFew'
  <2> SUFFICES ASSUME limits'.lock > 0 PROVE LockedFew'
    BY DEF LockedFew
  <2>1. /\ limits.lock > 0 /\ limits'.lock = limits.lock - 1
        /\ ticks' + limits'.lock - LockLife + 1 = mid
    BY <1>h
  <2>2. WrongSince(ticks + limits.lock - LockLife + 1)' = WrongSince(mid)
    BY <1>1, <2>1 DEF WrongSince
  <2>3. W2 + Cardinality(Begun) <= 2 * FailLimit - 3 + Cardinality(Verifying)
    <3>1. W + Cardinality(Begun) <= 2 * FailLimit - 3 + Cardinality(Verifying)
      BY <2>1 DEF LockedFew
    <3> HIDE DEF W, W2
    <3> QED BY <1>b, <3>1, BegunCounted, SignInNumbers
  <2>4. limits'.fails + Cardinality(Begun) <= FailLimit - 1 + Cardinality(Verifying)
    <3>1. limits.fails + Cardinality(Begun) <= FailLimit - 1 + Cardinality(Verifying)
      BY <2>1 DEF LockedFew
    <3> QED BY <1>2, <1>3, <3>1, BegunCounted, SignInNumbers
  <2>5. limits'.fails >= FailLimit => limits'.window <= limits'.lock /\ WrongSince(mid) = 0
    <3> SUFFICES ASSUME limits'.fails >= FailLimit PROVE limits'.window <= limits'.lock /\ WrongSince(mid) = 0
      OBVIOUS
    <3>1. limits.fails >= FailLimit
      BY <1>2, <1>3, SignInNumbers
    <3>2. limits.window <= limits.lock /\ WrongSince(mid) = 0
      BY <2>1, <3>1 DEF LockedFew
    <3>3. limits'.window <= limits'.lock
      BY SMTT(40), <1>2, <1>3, <1>i, <1>j, <2>1, <3>2, SignInNumbers
    <3> QED BY <3>2, <3>3
  <2>6. limits'.fails < FailLimit =>
          /\ limits'.lock < LockLife
          /\ WrongSince(mid) = limits'.fails
          /\ limits'.fails > 0 => limits'.window > limits'.lock
    <3> SUFFICES ASSUME limits'.fails < FailLimit
                 PROVE  /\ limits'.lock < LockLife
                        /\ WrongSince(mid) = limits'.fails
                        /\ limits'.fails > 0 => limits'.window > limits'.lock
      OBVIOUS
    <3>0. limits'.lock < LockLife
      BY <1>2, <2>1, SignInNumbers
    <3>1. CASE limits.fails >= FailLimit
      <4>1. WrongSince(mid) = 0
        BY <2>1, <3>1 DEF LockedFew
      <4>2. limits'.fails = 0
        BY <1>2, <1>i, <1>j, <3>1, SignInNumbers
      <4> QED BY <3>0, <4>1, <4>2
    <3>2. CASE limits.fails < FailLimit
      <4>1. WrongSince(mid) = limits.fails /\ (limits.fails > 0 => limits.window > limits.lock)
        BY <2>1, <3>2 DEF LockedFew
      <4>2. CASE limits.fails = 0
        <5>1. limits'.fails = 0
          BY <1>3, <4>2
        <5> QED BY <3>0, <4>1, <4>2, <5>1
      <4>3. CASE limits.fails > 0
        <5>1. limits.window > limits.lock /\ limits.window > 1
          BY SMTT(40), <1>2, <2>1, <4>1, <4>3, SignInNumbers
        <5>2. limits'.window = limits.window - 1 /\ limits'.fails = limits.fails
          BY <1>i, <5>1
        <5>3. limits'.window > limits'.lock
          BY SMTT(40), <1>2, <2>1, <5>1, <5>2, SignInNumbers
        <5> QED BY <3>0, <4>1, <5>2, <5>3
      <4> QED BY <1>2, <4>2, <4>3
    <3> QED BY <1>2, <3>1, <3>2, SignInNumbers
  <2> HIDE DEF W, W2, mid
  <2> QED BY <1>c, <1>d, <2>1, <2>2, <2>3, <2>4, <2>5, <2>6 DEF LockedFew
<1> QED BY <1>5, <1>6, <1>7, <1>8, <1>9

\* A wrong answer counts in the window, and in every span of time up to now.
LEMMA AnswerWrongInv ==
    ASSUME SignInInv, NEW r \in Verifying, AnswerWrong(r) PROVE SignInInv'
<1> USE DEF SignInInv
<1>1. /\ verifying[r].phase = "begun"
      /\ limits' = [limits EXCEPT !.fails = @ + 1,
                       !.window = IF limits.fails = 0 THEN LockLife ELSE @,
                       !.lock = IF limits.fails + 1 >= FailLimit THEN LockLife ELSE @]
      /\ wrong' = [wrong EXCEPT ![ticks] = @ + 1]
      /\ verifying' = [verifying EXCEPT ![r] = NotVerifying]
      /\ UNCHANGED <<account, code, granted, sent, ticks, heldTwice, opened>>
  BY DEF AnswerWrong, Failed
<1>2. /\ ticks \in 0..MaxTicks /\ limits.fails \in Nat /\ limits.window \in 0..LockLife
      /\ limits.lock \in 0..LockLife /\ wrong \in [0..MaxTicks -> Nat]
      /\ limits \in [sends : 0..SendLimit, fails : Nat, window : 0..LockLife, lock : 0..LockLife]
  BY DEF SignInTyped
<1>3. /\ limits'.fails = limits.fails + 1
      /\ limits'.window = IF limits.fails = 0 THEN LockLife ELSE limits.window
      /\ limits'.lock = IF limits.fails + 1 >= FailLimit THEN LockLife ELSE limits.lock
      /\ limits' \in [sends : 0..SendLimit, fails : Nat, window : 0..LockLife, lock : 0..LockLife]
  <2>1. limits.fails + 1 \in Nat /\ LockLife \in 0..LockLife
    BY <1>2, SignInNumbers
  <2> QED BY <1>1, <1>2, <2>1
<1>4. wrong' \in [0..MaxTicks -> Nat] /\ wrong'[ticks] = wrong[ticks] + 1
      /\ \A t \in 0..MaxTicks : t # ticks => wrong'[t] = wrong[t]
  <2>1. wrong[ticks] + 1 \in Nat
    BY <1>2
  <2> QED BY <1>1, <1>2, <2>1
<1>5. SignInTyped'
  <2>1. NotVerifying \in [phase : {"none", "begun", "matched"}, account : AccountState,
                          code : 0..MaxCodes]
    BY SignInNumbers DEF NotVerifying, AccountState
  <2>2. verifying' \in [Verifying -> [phase : {"none", "begun", "matched"}, account : AccountState,
                                    code : 0..MaxCodes]]
    BY <1>1, <2>1 DEF SignInTyped
  <2> QED BY <1>1, <1>3, <1>4, <2>2 DEF SignInTyped
<1>6. CodesSpent'
  <2>1. \A q \in Verifying, c \in 1..MaxCodes : Holds(q, c)' => Holds(q, c)
    BY <1>1 DEF Holds, SignInTyped, NotVerifying
  <2>2. \A q \in Verifying : verifying'[q].phase = "matched" => verifying'[q] = verifying[q]
    BY <1>1 DEF SignInTyped, NotVerifying
  <2> QED BY <1>1, <2>1, <2>2 DEF CodesSpent
<1>a. Begun' = Begun \ {r} /\ r \in Begun
  BY <1>1 DEF Begun, NotVerifying, SignInTyped
<1>b. Cardinality(Begun') = Cardinality(Begun) - 1 /\ Cardinality(Begun') \in Nat
  <2>1. Cardinality(Begun \ {r}) = Cardinality(Begun) - 1 /\ IsFiniteSet(Begun \ {r})
    BY <1>a, BegunCounted, FS_RemoveElement
  <2> QED BY <1>a, <2>1, FS_CardinalityType
<1>c. \A n \in Int : n <= ticks => WrongIn(wrong', n) = WrongSince(n) + 1
  BY <1>1, <1>2, SinceAnswer
<1>d. WrongSince(ticks + 1) = 0
  <2>1. \A t \in 0..MaxTicks : t >= ticks + 1 => wrong[t] = 0
    <3>1. \A t \in 0..MaxTicks : t >= ticks + 1 => t > ticks
      BY <1>2
    <3> QED BY <3>1 DEF WindowsCount
  <2>2. ticks + 1 \in Int
    BY <1>2
  <2> QED BY <2>1, <2>2, SinceNone
<1>e. WrongIn(wrong', ticks + 1) = 0
  <2>1. ticks + 1 \in Int /\ ~(ticks + 1 <= ticks)
    BY <1>2
  <2>2. WrongIn(wrong', ticks + 1) = WrongSince(ticks + 1) + 0
    BY <1>1, <1>2, <2>1, SinceAnswer
  <2> QED BY <1>d, <2>2
<1> DEFINE W == WrongSince(ticks - LockLife + 1)
           old == ticks + limits.window - LockLife
           mid == ticks + limits.lock - LockLife + 1
<1>f. W \in Nat /\ WrongSince(ticks - LockLife + 1)' = W + 1
  <2>1. ticks - LockLife + 1 \in Int /\ ticks - LockLife + 1 <= ticks
    BY <1>2, SignInNumbers
  <2>2. WrongSince(ticks - LockLife + 1)' = WrongIn(wrong', ticks - LockLife + 1)
    BY <1>1 DEF WrongSince, WrongIn
  <2>3. W \in Nat
    BY <1>2, <2>1, SinceStep
  <2> QED BY <1>c, <2>1, <2>2, <2>3
<1>g. limits.fails = 0 => limits.window = 0 /\ wrong[ticks] = 0
  BY <1>2 DEF WindowsCount
<1>h. limits.fails > 0 =>
        /\ limits.window > 0 /\ old \in 0..ticks /\ WrongSince(old) = limits.fails /\ wrong[old] > 0
  BY <1>2 DEF WindowsCount
<1>7. WindowsCount'
  <2>1. \A t \in 0..MaxTicks : t > ticks' => wrong'[t] = 0
    <3>1. \A t \in 0..MaxTicks : t > ticks => t # ticks /\ wrong[t] = 0
      BY <1>2 DEF WindowsCount
    <3> QED BY <1>1, <1>4, <3>1
  <2>2. limits'.window > 0 /\ limits'.fails > 0
    BY <1>2, <1>3, <1>h, SignInNumbers
  <2>3. CASE limits.fails = 0
    <3>1. ticks' + limits'.window - LockLife = ticks
      BY <1>1, <1>2, <1>3, <2>3, SignInNumbers
    <3>2. WrongSince(ticks) = 0
      <4>1. \A t \in 0..MaxTicks : t >= ticks => wrong[t] = 0
        <5>1. \A t \in 0..MaxTicks : t >= ticks => t = ticks \/ t > ticks
          BY <1>2
        <5> QED BY <1>g, <2>3, <5>1 DEF WindowsCount
      <4> QED BY <1>2, <4>1, SinceNone
    <3>3. WrongIn(wrong', ticks) = 1
      <4>1. ticks \in Int /\ ticks <= ticks
        BY <1>2
      <4> QED BY <1>c, <3>2, <4>1
    <3>4. WrongSince(ticks + limits.window - LockLife)' = WrongIn(wrong', ticks)
      BY <3>1 DEF WrongSince, WrongIn
    <3>5. wrong'[ticks] > 0
      BY <1>2, <1>4
    <3> QED BY <1>1, <1>2, <1>3, <2>1, <2>2, <2>3, <3>1, <3>3, <3>4, <3>5 DEF WindowsCount
  <2>4. CASE limits.fails > 0
    <3>1. ticks' + limits'.window - LockLife = old /\ old \in 0..ticks /\ old \in Int /\ old <= ticks
      BY <1>1, <1>2, <1>3, <1>h, <2>4
    <3>2. WrongSince(ticks + limits.window - LockLife)' = WrongSince(old) + 1
      <4>1. WrongSince(ticks + limits.window - LockLife)' = WrongIn(wrong', old)
        BY <3>1 DEF WrongSince, WrongIn
      <4> QED BY <1>c, <3>1, <4>1
    <3>3. wrong'[old] > 0
      <4>1. wrong[old] \in Nat /\ wrong[old] > 0
        <5>1. old \in 0..MaxTicks
          BY <1>2, <3>1, SignInNumbers
        <5> QED BY <1>2, <1>h, <2>4, <5>1
      <4>2. old \in 0..MaxTicks
        BY <1>2, <3>1, SignInNumbers
      <4>3. wrong'[old] = wrong[old] \/ wrong'[old] = wrong[old] + 1
        BY <1>4, <4>2
      <4> QED BY <4>1, <4>3
    <3> QED BY <1>1, <1>3, <1>h, <2>1, <2>2, <2>4, <3>1, <3>2, <3>3 DEF WindowsCount
  <2> QED BY <1>2, <2>3, <2>4
<1>8. UnlockedFew'
  <2> SUFFICES ASSUME limits'.lock = 0
               PROVE  limits'.fails < FailLimit /\ (W + 1) - limits'.fails <= FailLimit - 2
    BY <1>f DEF UnlockedFew
  <2>1. limits.lock = 0 /\ limits.fails + 1 < FailLimit
    BY <1>2, <1>3, SignInNumbers
  <2>2. W - limits.fails <= FailLimit - 2
    BY <2>1 DEF UnlockedFew
  <2> HIDE DEF W
  <2> QED BY <1>2, <1>3, <1>f, <2>1, <2>2, SignInNumbers
<1>9. LockedFew'
  <2> SUFFICES ASSUME limits'.lock > 0 PROVE LockedFew'
    BY DEF LockedFew
  <2>0. WrongSince(ticks - LockLife + 1)' = W + 1 /\ W \in Nat
    BY <1>f
  <2>1. (W + 1) + Cardinality(Begun') <= 2 * FailLimit - 3 + Cardinality(Verifying)
        /\ limits'.fails + Cardinality(Begun') <= FailLimit - 1 + Cardinality(Verifying)
    <3>1. CASE limits.lock > 0
      <4>1. /\ W + Cardinality(Begun) <= 2 * FailLimit - 3 + Cardinality(Verifying)
            /\ limits.fails + Cardinality(Begun) <= FailLimit - 1 + Cardinality(Verifying)
        BY <3>1 DEF LockedFew
      <4> HIDE DEF W
      <4>2. \A w, b, f, v, l \in Int :
              /\ w + b <= 2 * l - 3 + v => (w + 1) + (b - 1) <= 2 * l - 3 + v
              /\ f + b <= l - 1 + v => (f + 1) + (b - 1) <= l - 1 + v
        OBVIOUS
      <4>3. /\ W \in Int /\ Cardinality(Begun) \in Int /\ limits.fails \in Int
            /\ Cardinality(Verifying) \in Int /\ FailLimit \in Int
        BY <1>2, <2>0, SignInNumbers, BegunCounted
      <4>4. Cardinality(Begun') = Cardinality(Begun) - 1 /\ limits'.fails = limits.fails + 1
        BY <1>3, <1>b
      <4> QED BY <4>1, <4>2, <4>3, <4>4
    <3>2. CASE limits.lock = 0
      <4>1. limits.fails + 1 = FailLimit /\ W - limits.fails <= FailLimit - 2
        BY <1>2, <1>3, <3>2, SignInNumbers DEF UnlockedFew
      <4> HIDE DEF W
      <4>2. Cardinality(Begun') <= Cardinality(Verifying) - 1
        BY <1>b, SignInNumbers, BegunCounted
      <4>3. \A w, b, f, v, l \in Int : f + 1 = l /\ w - f <= l - 2 /\ b <= v - 1 =>
              (w + 1) + b <= 2 * l - 3 + v /\ (f + 1) + b <= l - 1 + v
        OBVIOUS
      <4>4. /\ W \in Int /\ Cardinality(Begun') \in Int /\ limits.fails \in Int
            /\ Cardinality(Verifying) \in Int /\ FailLimit \in Int
        BY <1>2, <1>b, <2>0, SignInNumbers
      <4>5. limits'.fails = limits.fails + 1
        BY <1>3
      <4> QED BY <4>1, <4>2, <4>3, <4>4, <4>5
    <3> QED BY <1>2, <3>1, <3>2
  <2>2. CASE limits.fails + 1 >= FailLimit /\ limits.lock = 0
    <3>1. limits'.lock = LockLife /\ limits'.fails >= FailLimit
      BY <1>2, <1>3, <2>2
    <3>2. limits'.window <= limits'.lock
      BY <1>2, <1>3, <3>1, SignInNumbers
    <3>3. WrongSince(ticks + limits.lock - LockLife + 1)' = 0
      <4>1. ticks' + limits'.lock - LockLife + 1 = ticks + 1
        BY <1>1, <1>2, <3>1, SignInNumbers
      <4>2. WrongSince(ticks + limits.lock - LockLife + 1)' = WrongIn(wrong', ticks + 1)
        BY <4>1 DEF WrongSince, WrongIn
      <4> QED BY <1>e, <4>2
    <3> HIDE DEF W
    <3>4. ~(limits'.fails < FailLimit)
      BY <1>2, <1>3, <3>1, SignInNumbers
    <3> QED BY <2>0, <2>1, <3>2, <3>3, <3>4 DEF LockedFew
  <2>3. CASE limits.fails + 1 >= FailLimit /\ limits.lock > 0
    <3>1. limits'.lock = LockLife /\ limits'.fails >= FailLimit
      BY <1>2, <1>3, <2>3
    <3>2. limits'.window <= limits'.lock
      BY <1>2, <1>3, <3>1, SignInNumbers
    <3>3. WrongSince(ticks + limits.lock - LockLife + 1)' = 0
      <4>1. ticks' + limits'.lock - LockLife + 1 = ticks + 1
        BY <1>1, <1>2, <3>1, SignInNumbers
      <4>2. WrongSince(ticks + limits.lock - LockLife + 1)' = WrongIn(wrong', ticks + 1)
        BY <4>1 DEF WrongSince, WrongIn
      <4> QED BY <1>e, <4>2
    <3> HIDE DEF W
    <3>4. ~(limits'.fails < FailLimit)
      BY <1>2, <1>3, <3>1, SignInNumbers
    <3> QED BY <2>0, <2>1, <3>2, <3>3, <3>4 DEF LockedFew
  <2>4. CASE limits.fails + 1 < FailLimit
    <3>1. limits'.lock = limits.lock /\ limits.lock > 0 /\ limits'.fails < FailLimit
          /\ limits.fails < FailLimit
      BY <1>2, <1>3, <2>4, SignInNumbers
    <3>2. /\ limits.lock < LockLife /\ WrongSince(mid) = limits.fails
          /\ limits.fails > 0 => limits.window > limits.lock
      BY <3>1 DEF LockedFew
    <3>3. mid \in Int /\ mid <= ticks
      BY <1>2, <3>2, SignInNumbers
    <3>4. WrongSince(ticks + limits.lock - LockLife + 1)' = WrongSince(mid) + 1
      <4>1. WrongSince(ticks + limits.lock - LockLife + 1)' = WrongIn(wrong', mid)
        <5>1. ticks' + limits'.lock - LockLife + 1 = mid
          BY <1>1, <3>1
        <5> HIDE DEF mid
        <5> QED BY <5>1 DEF WrongSince, WrongIn
      <4> QED BY <1>c, <3>3, <4>1
    <3>5. limits'.window > limits'.lock
      BY SMTT(40), <1>2, <1>3, <1>g, <3>1, <3>2, SignInNumbers
    <3> HIDE DEF W
    <3>6. ~(limits'.fails >= FailLimit)
      BY <1>2, <1>3, <3>1, SignInNumbers
    <3>7. WrongSince(ticks + limits.lock - LockLife + 1)' = limits'.fails /\ limits'.lock < LockLife
      BY <1>3, <3>1, <3>2, <3>4
    <3> QED BY <2>0, <2>1, <3>5, <3>6, <3>7 DEF LockedFew
  <2> QED BY <1>2, <2>2, <2>3, <2>4, SignInNumbers
<1> QED BY <1>5, <1>6, <1>7, <1>8, <1>9

-----------------------------------------------------------------------------
LEMMA SignInNextInv == SignInInv /\ [SignInNext]_signInVars => SignInInv'
<1> SUFFICES ASSUME SignInInv, [SignInNext]_signInVars PROVE SignInInv'
  OBVIOUS
<1>1. CASE SendCode
  BY <1>1, SendCodeInv
<1>2. CASE RunOut
  BY <1>2, RunOutInv
<1>3. ASSUME NEW r \in Verifying,
             BeginVerify(r) \/ MatchCode(r) \/ AnswerWrong(r) \/ AcceptCode(r)
      PROVE  SignInInv'
  BY <1>3, BeginVerifyInv, MatchCodeInv, AnswerWrongInv, AcceptCodeInv
<1>4. ASSUME NEW new \in AccountState, AccountChanges(new) PROVE SignInInv'
  BY <1>4, AccountChangesInv
<1>5. CASE UNCHANGED signInVars
  <2>1. UNCHANGED signInVars
    BY <1>5
  <2>2. UNCHANGED <<account, code, limits, verifying, granted, sent, ticks, wrong, heldTwice, opened>>
    BY <2>1 DEF signInVars
  <2>3. Begun' = Begun
    BY <2>2 DEF Begun
  <2>4. WindowsCount' /\ UnlockedFew' /\ LockedFew'
    BY <2>2, <2>3, WindowsKept
  <2>5. SignInTyped'
    BY <2>2 DEF SignInInv, SignInTyped
  <2>6. CodesSpent'
    BY <2>2 DEF SignInInv, CodesSpent, Holds
  <2> QED BY <2>4, <2>5, <2>6 DEF SignInInv
<1> QED BY <1>1, <1>2, <1>3, <1>4, <1>5 DEF SignInNext

\* A code opens one session unless two verifications held it at once, and few guesses
\* fall into the time of a lock, however many verifications overlap (verify_otp,
\* record_failed_otp_attempt).
THEOREM SignInHoldsAlways == SignInSpec => [](CodeUsedOnce /\ GuessesBounded)
<1>1. SignInSpec => []SignInInv
  BY SignInInitInv, SignInNextInv, PTL DEF SignInSpec
<1>2. SignInInv => CodeUsedOnce /\ GuessesBounded
  BY SignInInvHolds
<1> QED BY <1>1, <1>2, PTL

-----------------------------------------------------------------------------
(* The users of a company. *)

UserRows == [known : {TRUE}, mobile : Mobile, role : Staff, is_active : BOOLEAN, is_deleted : BOOLEAN]
UserTables == [UserId -> UserRows \cup {Free}]
LogRows == [field : Fields, old : Mobile \cup Staff \cup BOOLEAN, new : Mobile \cup Staff \cup BOOLEAN]
LogGroups == [group : Nat, of : SUBSET LogRows]

\* Whom a request makes, and what its logs tell: nothing, when it leaves the mobile number
\* and the role of whom it changes, or all it changes in one user's fields.
MadeBy(q) == {u \in DOMAIN q.new : ~q.view[u].known}
LogsNothing(q) ==
    /\ q.logged = {}
    /\ \A u \in DOMAIN q.new : q.view[u].known =>
          q.new[u].mobile = q.view[u].mobile /\ q.new[u].role = q.view[u].role
LogsOf(q, u) ==
    /\ DOMAIN q.new = {u} /\ q.view[u].known
    /\ q.logged = {<<u, f, q.view[u][f], q.new[u][f]>> : f \in Differing(q.view[u], q.new[u])}
FlushedIs(q) ==
    /\ q.phase = "flushed"
    /\ q = [phase |-> "flushed", view |-> q.view, new |-> q.new, logged |-> q.logged, raise |-> q.raise]
    /\ q.view \in UserTables /\ q.raise \in BOOLEAN
    /\ DOMAIN q.new \subseteq UserId /\ \A u \in DOMAIN q.new : q.new[u] \in UserRows
    /\ MadeBy(q) = {} \/ (WithinQuota(q.view) /\ \E u \in UserId : MadeBy(q) = {u})
    /\ LogsNothing(q) \/ \E u \in UserId : LogsOf(q, u)
OpenedIs(q) == q.phase = "open" /\ q = [phase |-> "open", view |-> q.view] /\ q.view \in UserTables
MissedIs(q) == q.phase = "missed" /\ q = [phase |-> "missed", version |-> q.version, rows |-> q.rows] /\ q.version \in Nat
RequestIs(q) == q = NoRequest \/ OpenedIs(q) \/ FlushedIs(q) \/ MissedIs(q)

UsersShaped ==
    /\ users \in UserTables /\ born \in UserTables /\ trail \in [UserId -> Seq(LogGroups)]
    /\ userList = [key |-> userList.key, kept |-> userList.kept] /\ userList.key \in Nat /\ userList.key > 0
    /\ \A a \in userList.kept : a.version \in Nat /\ a.version <= userList.key
    /\ administering = [r \in Administering |-> administering[r]]
    /\ \A r \in Administering : RequestIs(administering[r])
    /\ \A r \in Administering : administering[r].phase = "missed" => administering[r].version <= userList.key
    /\ changes \in 0..MaxChanges /\ listShown \in BOOLEAN
\* A row stays once it is there, and only rows that are there have logs.
RowsStay ==
    /\ \A r \in Administering : administering[r].phase \in {"open", "flushed"} =>
          \A u \in UserId : administering[r].view[u].known => users[u].known
    /\ \A u \in UserId : trail[u] # <<>> => users[u].known
\* While none overlapped, a request is alone and sees the users as they are.
OneAtATime ==
    "overlap" \notin crossings =>
        \A r \in Administering : administering[r].phase # "none" =>
            /\ \A o \in Administering \ {r} : administering[o].phase = "none"
            /\ administering[r].phase \in {"open", "flushed"} => administering[r].view = users
            /\ administering[r].phase = "missed" => administering[r].rows = ListOf(users)
ListFresh ==
    crossings = {} =>
        /\ \A a \in userList.kept : a.version = userList.key => a.rows = ListOf(users)
        /\ \A r \in Administering : administering[r].phase = "flushed" /\ administering[r].raise =>
              \A a \in userList.kept : a.version # userList.key
\* The users who count, and the requests that may still make one on the room they saw.
Within == Counted(users) \ outgrown
MayMake(q) == \/ q.phase = "open" /\ WithinQuota(q.view)
              \/ q.phase = "flushed" /\ MadeBy(q) # {}
Makers == {r \in Administering : MayMake(administering[r])}
QuotaCounted ==
    /\ Cardinality(Within) + Cardinality(Makers) <= UserQuota + Cardinality(Administering) - 1
    /\ "overlap" \notin crossings => Cardinality(Within) <= UserQuota

\* What the logs before the i-th left of a field, of one user.
LeftBy(logs, first, f, i) ==
    LET before == {j \in 1..i - 1 : \E l \in logs[j].of : l.field = f}
        latest == CHOOSE j \in before : \A k \in before : k <= j IN
    IF before = {} THEN first ELSE (CHOOSE l \in logs[latest].of : l.field = f).new
LogsSingle == \A u \in UserId : \A i \in DOMAIN trail[u] : \A l, m \in trail[u][i].of : l.field = m.field => l = m
\* The logs of one user's field tell what it became.
Tells(logs, first, f, now) ==
    /\ now = LeftBy(logs, first, f, Len(logs) + 1)
    /\ \A i \in DOMAIN logs : \A l \in logs[i].of : l.field = f => l.old = LeftBy(logs, first, f, i)
TrailTells ==
    "overlap" \notin crossings =>
        \A u \in UserId : users[u].known =>
            \A f \in Fields : (u \in unlogged => f # "is_active") =>
                Tells(trail[u], born[u][f], f, users[u][f])
UsersInv ==
    /\ UsersShaped /\ RowsStay /\ OneAtATime /\ ListFresh /\ QuotaCounted
    /\ LogsSingle /\ TrailTells /\ UserListCurrent

LEMMA UserNumbers ==
    /\ UserQuota \in Nat /\ UserQuota > 0 /\ MaxUsers \in Nat /\ MaxChanges \in Nat
    /\ IsFiniteSet(Administering) /\ Cardinality(Administering) \in Nat /\ Cardinality(Administering) > 0
    /\ IsFiniteSet(UserId) /\ Free.known = FALSE /\ Free.is_deleted = FALSE
<1>1. IsFiniteSet(UserId)
  BY UserAssumption, FS_Interval DEF UserId
<1>2. Cardinality(Administering) \in Nat /\ Cardinality(Administering) # 0
  BY UserAssumption, FS_CardinalityType, FS_EmptySet
<1> QED BY <1>1, <1>2, UserAssumption DEF Free

LEMMA LeastOf == ASSUME NEW S \in SUBSET Nat, S # {} PROVE \E j \in S : \A k \in S : j <= k
<1>1. PICK j \in S : \A k \in S : ~(<<k, j>> \in OpToRel(<, Nat))
  BY NatLessThanWellFounded, WFMin, Zenon
<1>2. \A k \in S : k < j => <<k, j>> \in OpToRel(<, Nat)
  BY Zenon DEF OpToRel
<1>3. \A k \in S : ~(k < j)
  BY <1>1, <1>2, Zenon
<1> QED BY <1>3

LEMMA LogsShaped ==
    ASSUME NEW logs \in Seq(LogGroups)
    PROVE  Len(logs) \in Nat /\ DOMAIN logs = 1..Len(logs) /\ \A i \in 1..Len(logs) : logs[i] \in LogGroups
BY ElementOfSeq

\* Logs added later change nothing of what earlier ones left.
LEMMA LeftSame ==
    ASSUME NEW logs, NEW more, NEW first, NEW f, NEW i \in Nat,
           \A j \in 1..i - 1 : more[j] = logs[j]
    PROVE  LeftBy(more, first, f, i) = LeftBy(logs, first, f, i)
<1> DEFINE before == {j \in 1..i - 1 : \E l \in logs[j].of : l.field = f}
           latest == CHOOSE j \in before : \A k \in before : k <= j
<1>1. {j \in 1..i - 1 : \E l \in more[j].of : l.field = f} = before
  OBVIOUS
<1>2. CASE before = {}
  BY <1>1, <1>2 DEF LeftBy
<1>3. CASE before # {}
  <2>1. \E j \in before : \A k \in before : k <= j
    <3> DEFINE T == {i - j : j \in before}
    <3>1. T \in SUBSET Nat /\ T # {}
      <4>1. \A j \in before : i - j \in Nat
        OBVIOUS
      <4> QED BY <1>3, <4>1
    <3>2. PICK t \in T : \A k \in T : t <= k
      BY <3>1, LeastOf
    <3>3. PICK j \in before : t = i - j
      OBVIOUS
    <3>4. \A k \in before : i - j <= i - k
      BY <3>2, <3>3
    <3>5. \A k \in before : k \in Int
      OBVIOUS
    <3>6. \A k \in before : k <= j
      BY <3>4, <3>5
    <3> QED BY <3>6
  <2>2. latest \in before
    BY <2>1
  <2>3. more[latest] = logs[latest]
    BY <2>2
  <2>4. LeftBy(logs, first, f, i) = (CHOOSE l \in logs[latest].of : l.field = f).new
    BY <1>3 DEF LeftBy
  <2>5. LeftBy(more, first, f, i) = (CHOOSE l \in more[latest].of : l.field = f).new
    BY <1>1, <1>3 DEF LeftBy
  <2> QED BY <2>3, <2>4, <2>5
<1> QED BY <1>2, <1>3

\* A group of logs that has none of a field leaves it; one that has, leaves its new value.
LEMMA LeftMissing ==
    ASSUME NEW logs, NEW first, NEW f, NEW n \in Nat, ~\E l \in logs[n].of : l.field = f
    PROVE  LeftBy(logs, first, f, n + 1) = LeftBy(logs, first, f, n)
<1> DEFINE A == {j \in 1..(n + 1) - 1 : \E l \in logs[j].of : l.field = f}
           B == {j \in 1..n - 1 : \E l \in logs[j].of : l.field = f}
<1>1. \A j \in A : j \in B
  <2>1. \A j \in 1..(n + 1) - 1 : j = n \/ j \in 1..n - 1
    OBVIOUS
  <2> QED BY <2>1
<1>2. \A j \in B : j \in A
  <2>1. \A j \in 1..n - 1 : j \in 1..(n + 1) - 1
    OBVIOUS
  <2> QED BY <2>1
<1>3. A = B
  <2> HIDE DEF A, B
  <2>2. \A x : x \in A <=> x \in B
    BY <1>1, <1>2
  <2>3. \A X, Y : (\A x : x \in X <=> x \in Y) => X = Y
    OBVIOUS
  <2> QED BY <2>2, <2>3, Zenon
<1>4. LeftBy(logs, first, f, n + 1) = IF A = {} THEN first ELSE (CHOOSE l \in logs[CHOOSE j \in A : \A k \in A : k <= j].of : l.field = f).new
  BY Zenon DEF LeftBy
<1>5. LeftBy(logs, first, f, n) = IF B = {} THEN first ELSE (CHOOSE l \in logs[CHOOSE j \in B : \A k \in B : k <= j].of : l.field = f).new
  BY Zenon DEF LeftBy
<1> HIDE DEF A, B
<1> QED BY <1>3, <1>4, <1>5
LEMMA LeftLogged ==
    ASSUME NEW logs, NEW first, NEW f, NEW n \in Nat \ {0}, NEW l \in logs[n].of, l.field = f,
           \A m, k \in logs[n].of : m.field = k.field => m = k
    PROVE  LeftBy(logs, first, f, n + 1) = l.new
<1> DEFINE before == {j \in 1..(n + 1) - 1 : \E m \in logs[j].of : m.field = f}
           latest == CHOOSE j \in before : \A k \in before : k <= j
<1>1. n \in before /\ \A k \in before : k <= n /\ k \in Int
  OBVIOUS
<1>2. latest \in before /\ \A k \in before : k <= latest
  BY <1>1
<1>3. latest = n
  BY <1>1, <1>2
<1>4. (CHOOSE m \in logs[n].of : m.field = f) = l
  OBVIOUS
<1> QED BY <1>1, <1>3, <1>4 DEF LeftBy

LEMMA UsersInvHolds ==
    UsersInv => /\ UsersTypeOK /\ UserQuotaHeld /\ TrailReplays /\ UserListCurrent /\ UserViewsAgree
<1> SUFFICES ASSUME UsersInv PROVE UsersTypeOK /\ UserQuotaHeld /\ TrailReplays /\ UserViewsAgree
  BY DEF UsersInv
<1>1. \A u \in UserId : users[u].known => users[u] \in UserRows
  BY UserNumbers DEF UsersInv, UsersShaped, UserTables
<1>2. UsersTypeOK
  BY <1>1 DEF UsersInv, UsersShaped, UsersTypeOK, Known, UserRows
<1>3. UserQuotaHeld
  <2>1. Within \subseteq UserId
    BY DEF Within, Counted, Present, Known
  <2>2. Cardinality(Within) \in Nat
    BY <2>1, UserNumbers, FS_Subset, FS_CardinalityType
  <2>3. Cardinality(Makers) \in Nat
    <3>1. Makers \subseteq Administering
      BY DEF Makers
    <3> QED BY <3>1, UserNumbers, FS_Subset, FS_CardinalityType
  <2>4. /\ Cardinality(Within) + Cardinality(Makers) <= UserQuota + Cardinality(Administering) - 1
        /\ "overlap" \notin crossings => Cardinality(Within) <= UserQuota
    BY DEF UsersInv, QuotaCounted
  <2>5. Cardinality(Within) <= UserQuota + (Cardinality(Administering) - 1)
    BY <2>2, <2>3, <2>4, UserNumbers
  <2>6. "overlap" \notin crossings => Cardinality(Within) <= UserQuota + 0
    BY <2>2, <2>4, UserNumbers
  <2> QED BY <2>5, <2>6 DEF UserQuotaHeld, Within
<1>4. TrailReplays
  <2> SUFFICES ASSUME "overlap" \notin crossings, NEW u \in Known(users),
                      NEW f \in Fields \ (IF u \in unlogged THEN {"is_active"} ELSE {})
               PROVE  /\ users[u][f] = Left(u, f, Len(trail[u]) + 1)
                      /\ \A i \in DOMAIN trail[u] : \A l \in trail[u][i].of :
                             l.field = f => l.old = Left(u, f, i)
    BY DEF TrailReplays
  <2>1. u \in UserId /\ users[u].known /\ f \in Fields /\ (u \in unlogged => f # "is_active")
    BY DEF Known
  <2>2. Tells(trail[u], born[u][f], f, users[u][f])
    BY <2>1 DEF UsersInv, TrailTells
  <2>3. \A i : Left(u, f, i) = LeftBy(trail[u], born[u][f], f, i)
    BY DEF Left, LeftBy
  <2> QED BY <2>2, <2>3 DEF Tells
<1>5. UserViewsAgree
  <2>1. ASSUME NEW u \in UserId, GetUser(u) PROVE RoleCounts[users[u].role] >= 1
    <3> DEFINE s == users[u].role
               mine == {v \in Present(users) : users[v].role = s}
    <3>1. u \in Present(users) /\ u \in mine /\ mine \subseteq UserId
      BY <2>1 DEF GetUser, Present, Known
    <3>2. s \in Staff
      BY <1>1, <3>1 DEF Present, Known, UserRows
    <3>3. RoleCounts[s] = Cardinality(mine)
      BY <3>2 DEF RoleCounts
    <3>4. IsFiniteSet(mine) /\ Cardinality(mine) \in Nat
      BY <3>1, UserNumbers, FS_Subset, FS_CardinalityType
    <3>5. Cardinality(mine) # 0
      BY <3>1, <3>4, FS_EmptySet
    <3> QED BY <3>3, <3>4, <3>5
  <2>2. ASSUME NEW u \in UserId, Logs(u) # {} PROVE users[u].known
    <3>1. trail[u] # <<>>
      BY <2>2 DEF Logs
    <3> QED BY <3>1 DEF UsersInv, RowsStay
  <2> QED BY <2>1, <2>2 DEF UserViewsAgree
<1> QED BY <1>2, <1>3, <1>4, <1>5

LEMMA UserSets ==
    /\ \A S \in SUBSET UserId : IsFiniteSet(S) /\ Cardinality(S) \in Nat
    /\ \A R \in SUBSET Administering :
          IsFiniteSet(R) /\ Cardinality(R) \in Nat /\ Cardinality(R) <= Cardinality(Administering)
<1>1. ASSUME NEW S \in SUBSET UserId PROVE IsFiniteSet(S) /\ Cardinality(S) \in Nat
  BY UserNumbers, FS_Subset, FS_CardinalityType
<1>2. ASSUME NEW R \in SUBSET Administering
      PROVE  IsFiniteSet(R) /\ Cardinality(R) \in Nat /\ Cardinality(R) <= Cardinality(Administering)
  BY UserNumbers, FS_Subset, FS_CardinalityType
<1> QED BY <1>1, <1>2

LEMMA UsersInitInv == UsersInit => UsersInv
<1> SUFFICES ASSUME UsersInit PROVE UsersInv
  OBVIOUS
<1> DEFINE first == NewUser(CHOOSE m \in Mobile : TRUE, CHOOSE s \in Staff : TRUE)
<1>0. PICK active \in BOOLEAN :
          users = [u \in UserId |-> IF u = 1 THEN [first EXCEPT !.is_active = active] ELSE Free]
  BY DEF UsersInit
<1>1. [first EXCEPT !.is_active = active] \in UserRows
  BY UserAssumption DEF NewUser, UserRows
<1>2. users \in UserTables
  BY <1>0, <1>1 DEF UserTables
<1>3. /\ trail = [u \in UserId |-> <<>>] /\ userList = [NoAnswers EXCEPT !.key = 1]
      /\ administering = [r \in Administering |-> NoRequest] /\ changes = 0 /\ listShown = TRUE
      /\ crossings = {} /\ unlogged = {} /\ outgrown = {} /\ born = users
  BY DEF UsersInit
<1>4. userList = [key |-> 1, kept |-> {}]
  BY <1>3 DEF NoAnswers
<1>5. trail \in [UserId -> Seq(LogGroups)]
  BY <1>3
<1>6. \A r \in Administering : administering[r] = NoRequest /\ administering[r].phase = "none"
  BY <1>3 DEF NoRequest
<1>7. UsersShaped
  <2>1. administering = [r \in Administering |-> administering[r]]
    BY <1>3
  <2>2. /\ \A r \in Administering : RequestIs(administering[r])
        /\ \A r \in Administering : administering[r].phase # "missed"
    BY <1>6 DEF RequestIs
  <2>3. changes \in 0..MaxChanges /\ listShown \in BOOLEAN
    BY <1>3, UserNumbers
  <2>4. userList = [key |-> userList.key, kept |-> userList.kept] /\ userList.key = 1 /\ userList.kept = {}
    BY <1>4
  <2>5. born \in UserTables
    BY <1>2, <1>3
  <2> QED BY <1>2, <1>5, <2>1, <2>2, <2>3, <2>4, <2>5 DEF UsersShaped
<1>8. RowsStay /\ OneAtATime /\ ListFresh
  BY <1>3, <1>4, <1>6 DEF RowsStay, OneAtATime, ListFresh
<1>9. QuotaCounted
  <2>1. Within \subseteq {1}
    BY <1>0, UserNumbers DEF Within, Counted, Present, Known
  <2>2. Cardinality(Within) <= 1 /\ Cardinality(Within) \in Nat
    <3>1. IsFiniteSet({1}) /\ Cardinality({1}) = 1
      BY FS_Singleton
    <3>2. IsFiniteSet(Within) /\ Cardinality(Within) <= Cardinality({1})
      BY <2>1, <3>1, FS_Subset
    <3> QED BY <3>1, <3>2, FS_CardinalityType
  <2>3. Makers = {}
    BY <1>6 DEF Makers, MayMake
  <2>4. Cardinality(Makers) = 0
    BY <2>3, FS_EmptySet
  <2> QED BY <2>2, <2>4, UserNumbers DEF QuotaCounted
<1>10. LogsSingle
  BY <1>3 DEF LogsSingle
<1>11. TrailTells
  <2>1. ASSUME NEW u \in UserId, NEW f PROVE Tells(trail[u], users[u][f], f, users[u][f])
    <3>1. Len(trail[u]) = 0 /\ DOMAIN trail[u] = {}
      BY <1>3
    <3>2. {j \in 1..(Len(trail[u]) + 1) - 1 : \E l \in trail[u][j].of : l.field = f} = {}
      BY <3>1
    <3>3. LeftBy(trail[u], users[u][f], f, Len(trail[u]) + 1) = users[u][f]
      BY <3>2, Zenon DEF LeftBy
    <3> QED BY <3>1, <3>3 DEF Tells
  <2> QED BY <2>1, <1>3 DEF TrailTells
<1> QED BY <1>3, <1>7, <1>8, <1>9, <1>10, <1>11 DEF UsersInv, UserListCurrent

LEMMA UserSlots ==
    ASSUME UsersShaped, NEW r \in Administering, NEW q, administering' = [administering EXCEPT ![r] = q]
    PROVE  /\ administering' = [o \in Administering |-> administering'[o]]
           /\ administering'[r] = q
           /\ \A o \in Administering \ {r} : administering'[o] = administering[o]
BY DEF UsersShaped

\* No user and no room to make one is added.
LEMMA QuotaStays ==
    ASSUME QuotaCounted, Within' \subseteq Within, Makers' \subseteq Makers, crossings \subseteq crossings'
    PROVE  QuotaCounted'
<1>1. Within \in SUBSET UserId /\ Makers \in SUBSET Administering
  BY DEF Within, Counted, Present, Known, Makers
<1>2. /\ IsFiniteSet(Within) /\ Cardinality(Within) \in Nat /\ Cardinality(Within') \in Nat
      /\ Cardinality(Within') <= Cardinality(Within)
  BY <1>1, UserSets, FS_Subset
<1>3. /\ Cardinality(Makers) \in Nat /\ Cardinality(Makers') \in Nat
      /\ Cardinality(Makers') <= Cardinality(Makers)
  BY <1>1, UserSets, FS_Subset
<1>4. Cardinality(Within) + Cardinality(Makers) <= UserQuota + Cardinality(Administering) - 1
  BY DEF QuotaCounted
<1>5. Cardinality(Within') + Cardinality(Makers') <= UserQuota + Cardinality(Administering) - 1
  BY <1>2, <1>3, <1>4, UserNumbers
<1>6. "overlap" \notin crossings' => Cardinality(Within) <= UserQuota
  BY DEF QuotaCounted
<1>7. "overlap" \notin crossings' => Cardinality(Within') <= UserQuota
  BY <1>2, <1>6, UserNumbers
<1> QED BY <1>5, <1>7 DEF QuotaCounted

LEMMA TrailStays ==
    ASSUME UsersInv, UNCHANGED <<users, trail, unlogged, born>>, crossings \subseteq crossings'
    PROVE  LogsSingle' /\ TrailTells'
<1>1. LogsSingle'
  BY Zenon DEF UsersInv, LogsSingle
<1>2. TrailTells'
  BY DEF UsersInv, TrailTells
<1> QED BY <1>1, <1>2

\* A request that ends, with nothing written.
LEMMA EndedInv ==
    ASSUME UsersInv, NEW r \in Administering, administering' = [administering EXCEPT ![r] = NoRequest],
           UNCHANGED <<users, trail, userList, changes, crossings, unlogged, outgrown, born>>,
           listShown' \in BOOLEAN, UserListCurrent'
    PROVE  UsersInv'
<1>0. UsersShaped
  BY DEF UsersInv
<1>1. /\ administering' = [o \in Administering |-> administering'[o]] /\ administering'[r] = NoRequest
      /\ \A o \in Administering \ {r} : administering'[o] = administering[o]
  BY <1>0, UserSlots
<1>2. \A o \in Administering : administering'[o] = NoRequest \/ administering'[o] = administering[o]
  BY <1>1
<1>3. NoRequest.phase = "none" /\ RequestIs(NoRequest)
  BY DEF NoRequest, RequestIs
<1>4. UsersShaped'
  <2>1. \A o \in Administering : RequestIs(administering'[o])
    BY <1>0, <1>2, <1>3 DEF UsersShaped
  <2>2. \A o \in Administering : administering'[o].phase = "missed" => administering'[o].version <= userList.key
    BY <1>0, <1>2, <1>3 DEF UsersShaped
  <2> QED BY <1>0, <1>1, <2>1, <2>2 DEF UsersShaped
<1>5. RowsStay'
  BY <1>2, <1>3 DEF UsersInv, RowsStay
<1>6. OneAtATime'
  <2> SUFFICES ASSUME "overlap" \notin crossings, NEW o \in Administering, administering'[o].phase # "none"
               PROVE  /\ \A p \in Administering \ {o} : administering'[p].phase = "none"
                      /\ administering'[o].phase \in {"open", "flushed"} => administering'[o].view = users
                      /\ administering'[o].phase = "missed" => administering'[o].rows = ListOf(users)
    BY DEF OneAtATime, ListOf, Present, Known
  <2>1. administering'[o] = administering[o]
    BY <1>2, <1>3
  <2>2. \A p \in Administering \ {o} : administering[p].phase = "none"
    BY <2>1 DEF UsersInv, OneAtATime
  <2> QED BY <1>2, <1>3, <2>1, <2>2 DEF UsersInv, OneAtATime
<1>7. ListFresh'
  BY <1>2, <1>3 DEF UsersInv, ListFresh, ListOf, Present, Known
<1>8. QuotaCounted'
  <2>1. Within' = Within
    BY DEF Within, Counted, Present, Known
  <2>2. Makers' \subseteq Makers
    BY <1>2, <1>3 DEF Makers, MayMake
  <2> QED BY <2>1, <2>2, QuotaStays DEF UsersInv
<1>9. LogsSingle' /\ TrailTells'
  BY TrailStays
<1> QED BY <1>4, <1>5, <1>6, <1>7, <1>8, <1>9 DEF UsersInv

LEMMA FailInv == ASSUME UsersInv, NEW r \in Administering, Fail(r) PROVE UsersInv'
BY EndedInv DEF Fail, NothingListed, UserListCurrent

LEMMA OpenRequestInv == ASSUME UsersInv, NEW r \in Administering, OpenRequest(r) PROVE UsersInv'
<1>0. /\ UsersShaped /\ administering[r].phase = "none"
      /\ administering' = [administering EXCEPT ![r] = [phase |-> "open", view |-> users]]
      /\ crossings' = crossings \cup
             (IF \E o \in Administering \ {r} : administering[o].phase # "none" THEN {"overlap"} ELSE {})
      /\ listShown' = TRUE /\ UNCHANGED <<users, trail, userList, changes, unlogged, outgrown, born>>
  BY DEF OpenRequest, UsersInv, NothingListed
<1> DEFINE q == [phase |-> "open", view |-> users]
<1>1. /\ administering' = [o \in Administering |-> administering'[o]] /\ administering'[r] = q
      /\ \A o \in Administering \ {r} : administering'[o] = administering[o]
  BY <1>0, UserSlots
<1>2. crossings \subseteq crossings'
  BY <1>0
<1>3. "overlap" \notin crossings' =>
          "overlap" \notin crossings /\ \A o \in Administering \ {r} : administering[o].phase = "none"
  BY <1>0
<1>4. UsersShaped'
  <2>1. RequestIs(q)
    BY <1>0 DEF RequestIs, OpenedIs, UsersShaped
  <2>2. \A o \in Administering : RequestIs(administering'[o])
    BY <1>0, <1>1, <2>1 DEF UsersShaped
  <2>3. \A o \in Administering : administering'[o].phase = "missed" => administering'[o].version <= userList.key
    BY <1>0, <1>1 DEF UsersShaped
  <2> QED BY <1>0, <1>1, <2>2, <2>3 DEF UsersShaped
<1>5. RowsStay'
  <2>1. \A o \in Administering : administering'[o].phase \in {"open", "flushed"} =>
            \A u \in UserId : administering'[o].view[u].known => users[u].known
    BY <1>1 DEF UsersInv, RowsStay
  <2> QED BY <1>0, <2>1 DEF UsersInv, RowsStay
<1>6. OneAtATime'
  <2> SUFFICES ASSUME "overlap" \notin crossings', NEW o \in Administering, administering'[o].phase # "none"
               PROVE  /\ \A p \in Administering \ {o} : administering'[p].phase = "none"
                      /\ administering'[o].phase \in {"open", "flushed"} => administering'[o].view = users
                      /\ administering'[o].phase = "missed" => administering'[o].rows = ListOf(users)
    BY <1>0 DEF OneAtATime, ListOf, Present, Known
  <2>1. o = r
    BY <1>1, <1>3
  <2> QED BY <1>1, <1>3, <2>1
<1>7. ListFresh'
  <2> SUFFICES ASSUME crossings' = {}
               PROVE  /\ \A a \in userList.kept : a.version = userList.key => a.rows = ListOf(users)
                      /\ \A o \in Administering : administering'[o].phase = "flushed" /\ administering'[o].raise =>
                             \A a \in userList.kept : a.version # userList.key
    BY <1>0 DEF ListFresh, ListOf, Present, Known
  <2>1. crossings = {}
    BY <1>2
  <2> QED BY <1>1, <2>1 DEF UsersInv, ListFresh
<1>8. QuotaCounted'
  <2>1. Within' = Within
    BY <1>0 DEF Within, Counted, Present, Known
  <2>2. Makers \subseteq Administering /\ Makers' \subseteq Makers \cup {r}
    BY <1>1 DEF Makers, MayMake
  <2>3. CASE ~WithinQuota(users)
    <3>1. Makers' \subseteq Makers
      BY <1>1, <2>3 DEF Makers, MayMake
    <3> QED BY <1>2, <2>1, <3>1, QuotaStays DEF UsersInv
  <2>4. CASE WithinQuota(users)
    <3>1. Counted(users) \in SUBSET UserId /\ Within \subseteq Counted(users)
      BY DEF Within, Counted, Present, Known
    <3>2. /\ Cardinality(Counted(users)) \in Nat /\ Cardinality(Within) \in Nat
          /\ Cardinality(Within) <= Cardinality(Counted(users))
      BY <3>1, UserSets, FS_Subset
    <3>3. Cardinality(Counted(users)) < UserQuota
      BY <2>4 DEF WithinQuota
    <3>4. Makers' \in SUBSET Administering
      BY <2>2
    <3>5. Cardinality(Makers') \in Nat /\ Cardinality(Makers') <= Cardinality(Administering)
      BY <3>4, UserSets
    <3>6. Cardinality(Within) + Cardinality(Makers') <= UserQuota + Cardinality(Administering) - 1
      BY <3>2, <3>3, <3>5, UserNumbers
    <3>7. Cardinality(Within) <= UserQuota
      BY <3>2, <3>3, UserNumbers
    <3> QED BY <2>1, <3>6, <3>7 DEF QuotaCounted
  <2> QED BY <2>3, <2>4
<1>9. LogsSingle' /\ TrailTells'
  BY <1>0, <1>2, TrailStays
<1> QED BY <1>0, <1>4, <1>5, <1>6, <1>7, <1>8, <1>9 DEF UsersInv, UserListCurrent

\* What is kept under the version in force, while nothing broke the order.
LEMMA UserListKept ==
    ASSUME UsersInv
    PROVE  /\ GetCacheVersion(userList) = userList.key
           /\ crossings = {} => \A rows \in CacheGetJson(userList, "users", userList.key) : rows = ListOf(users)
<1>1. userList = [key |-> userList.key, kept |-> userList.kept] /\ userList.key \in Nat /\ userList.key > 0
  BY DEF UsersInv, UsersShaped
<1>2. GetCacheVersion(userList) = userList.key
  BY <1>1 DEF GetCacheVersion
<1>3. ASSUME crossings = {}, NEW rows \in CacheGetJson(userList, "users", userList.key) PROVE rows = ListOf(users)
  <2>1. PICK a \in userList.kept : a.version = userList.key /\ rows = a.rows
    BY <1>3 DEF CacheGetJson
  <2> QED BY <1>3, <2>1 DEF UsersInv, ListFresh
<1> QED BY <1>2, <1>3

LEMMA ListUsersInv == ASSUME UsersInv, NEW r \in Administering, ListUsers(r) PROVE UsersInv'
<1>0. /\ UsersShaped /\ administering[r].phase = "open"
      /\ UNCHANGED <<users, trail, userList, changes, crossings, unlogged, outgrown, born>>
  BY DEF ListUsers, AtWork, UsersInv
<1> DEFINE v == userList.key
           hits == CacheGetJson(userList, "users", v)
           q == [phase |-> "missed", version |-> v, rows |-> ListOf(administering[r].view)]
<1>1. \/ \E rows \in hits :
             /\ listShown' = (rows = ListOf(users))
             /\ administering' = [administering EXCEPT ![r] = NoRequest]
      \/ hits = {} /\ administering' = [administering EXCEPT ![r] = q] /\ listShown' = TRUE
  BY UserListKept, <1>0 DEF ListUsers, NothingListed, UsersShaped
<1>2. CASE \E rows \in hits :
             /\ listShown' = (rows = ListOf(users))
             /\ administering' = [administering EXCEPT ![r] = NoRequest]
  <2>1. PICK rows \in hits :
             /\ listShown' = (rows = ListOf(users))
             /\ administering' = [administering EXCEPT ![r] = NoRequest]
    BY <1>2
  <2>2. listShown' \in BOOLEAN
    BY <2>1
  <2>3. UserListCurrent'
    BY <1>0, <2>1, UserListKept DEF UserListCurrent
  <2> QED BY <1>0, <2>1, <2>2, <2>3, EndedInv
<1>3. CASE administering' = [administering EXCEPT ![r] = q] /\ listShown' = TRUE
  <2>1. /\ administering' = [o \in Administering |-> administering'[o]] /\ administering'[r] = q
        /\ \A o \in Administering \ {r} : administering'[o] = administering[o]
    BY <1>0, <1>3, UserSlots
  <2>2. UsersShaped'
    <3>1. RequestIs(q)
      BY <1>0 DEF RequestIs, MissedIs, UsersShaped
    <3>2. \A o \in Administering : RequestIs(administering'[o])
      BY <1>0, <2>1, <3>1 DEF UsersShaped
    <3>3. v <= v
      BY <1>0 DEF UsersShaped
    <3>4. \A o \in Administering : administering'[o].phase = "missed" => administering'[o].version <= userList.key
      BY <1>0, <2>1, <3>3 DEF UsersShaped
    <3> QED BY <1>0, <1>3, <2>1, <3>2, <3>4 DEF UsersShaped
  <2>3. RowsStay'
    <3>1. \A o \in Administering : administering'[o].phase \in {"open", "flushed"} =>
              \A u \in UserId : administering'[o].view[u].known => users[u].known
      BY <2>1 DEF UsersInv, RowsStay
    <3> QED BY <1>0, <3>1 DEF UsersInv, RowsStay
  <2>4. OneAtATime'
    <3> SUFFICES ASSUME "overlap" \notin crossings, NEW o \in Administering, administering'[o].phase # "none"
                 PROVE  /\ \A p \in Administering \ {o} : administering'[p].phase = "none"
                        /\ administering'[o].phase \in {"open", "flushed"} => administering'[o].view = users
                        /\ administering'[o].phase = "missed" => administering'[o].rows = ListOf(users)
      BY <1>0 DEF OneAtATime, ListOf, Present, Known
    <3>1. /\ \A p \in Administering \ {r} : administering[p].phase = "none"
          /\ administering[r].view = users
      BY <1>0 DEF UsersInv, OneAtATime
    <3>2. o = r
      BY <2>1, <3>1
    <3> QED BY <2>1, <3>1, <3>2
  <2>5. ListFresh'
    <3> SUFFICES ASSUME crossings = {}
                 PROVE  /\ \A a \in userList.kept : a.version = userList.key => a.rows = ListOf(users)
                        /\ \A o \in Administering : administering'[o].phase = "flushed" /\ administering'[o].raise =>
                               \A a \in userList.kept : a.version # userList.key
      BY <1>0 DEF ListFresh, ListOf, Present, Known
    <3> QED BY <2>1 DEF UsersInv, ListFresh
  <2>6. QuotaCounted'
    <3>1. Within' = Within
      BY <1>0 DEF Within, Counted, Present, Known
    <3>2. Makers' \subseteq Makers
      BY <2>1 DEF Makers, MayMake
    <3> QED BY <1>0, <3>1, <3>2, QuotaStays DEF UsersInv
  <2>7. LogsSingle' /\ TrailTells'
    BY <1>0, TrailStays
  <2> QED BY <1>3, <2>2, <2>3, <2>4, <2>5, <2>6, <2>7 DEF UsersInv, UserListCurrent
<1> QED BY <1>1, <1>2, <1>3

LEMMA KeepUsersInv == ASSUME UsersInv, NEW r \in Administering, KeepUsers(r) PROVE UsersInv'
<1> DEFINE q == administering[r]
<1>0. /\ UsersShaped /\ q.phase = "missed"
      /\ userList' = CacheSetJson(userList, "users", q.version, q.rows, 1)
      /\ listShown' = (q.rows = ListOf(users))
      /\ administering' = [administering EXCEPT ![r] = NoRequest]
      /\ UNCHANGED <<users, trail, changes, crossings, unlogged, outgrown, born>>
  BY DEF KeepUsers, UsersInv
<1>1. /\ administering' = [o \in Administering |-> administering'[o]] /\ administering'[r] = NoRequest
      /\ \A o \in Administering \ {r} : administering'[o] = administering[o]
  BY <1>0, UserSlots
<1>2. \A o \in Administering : administering'[o] = NoRequest \/ administering'[o] = administering[o]
  BY <1>1
<1>3. NoRequest.phase = "none" /\ RequestIs(NoRequest)
  BY DEF NoRequest, RequestIs
<1>4. q.version \in Nat /\ q.version <= userList.key
  <2>1. RequestIs(q) /\ (q.phase = "missed" => q.version <= userList.key)
    BY <1>0 DEF UsersShaped
  <2>2. MissedIs(q)
    BY <1>0, <2>1 DEF RequestIs, NoRequest, OpenedIs, FlushedIs
  <2> QED BY <1>0, <2>1, <2>2 DEF MissedIs
<1> HIDE DEF q
<1>5. /\ userList' = [key |-> userList'.key, kept |-> userList'.kept] /\ userList'.key = userList.key
      /\ \A a \in userList'.kept : a \in userList.kept \/ (a.version = q.version /\ a.rows = q.rows)
  <2> DEFINE more == {a \in userList.kept : ~(a.list = "users" /\ a.version = q.version)}
                       \cup {[list |-> "users", version |-> q.version, rows |-> q.rows, left |-> 1]}
  <2>1. userList = [key |-> userList.key, kept |-> userList.kept]
    BY <1>0 DEF UsersShaped
  <2>2. userList' = [userList EXCEPT !.kept = more]
    BY <1>0 DEF CacheSetJson
  <2>3. \A a \in more : a \in userList.kept \/ (a.version = q.version /\ a.rows = q.rows)
    OBVIOUS
  <2> HIDE DEF more
  <2>4. userList' = [key |-> userList.key, kept |-> more]
    BY <2>1, <2>2
  <2> QED BY <2>3, <2>4
<1>6. UsersShaped'
  <2>1. \A o \in Administering : RequestIs(administering'[o])
    BY <1>0, <1>2, <1>3 DEF UsersShaped
  <2>2. \A o \in Administering : administering'[o].phase = "missed" => administering'[o].version <= userList'.key
    BY <1>0, <1>2, <1>3, <1>5 DEF UsersShaped
  <2>3. \A a \in userList'.kept : a.version \in Nat /\ a.version <= userList'.key
    BY <1>0, <1>4, <1>5 DEF UsersShaped
  <2>4. listShown' \in BOOLEAN
    BY <1>0
  <2> QED BY <1>0, <1>1, <1>5, <2>1, <2>2, <2>3, <2>4 DEF UsersShaped
<1>7. RowsStay'
  BY <1>0, <1>2, <1>3 DEF UsersInv, RowsStay
<1>8. "overlap" \notin crossings => q.rows = ListOf(users) /\ \A o \in Administering : administering'[o].phase = "none"
  <2> SUFFICES ASSUME "overlap" \notin crossings
               PROVE  q.rows = ListOf(users) /\ \A o \in Administering : administering'[o].phase = "none"
    OBVIOUS
  <2>1. q.rows = ListOf(users) /\ \A o \in Administering \ {r} : administering[o].phase = "none"
    BY <1>0 DEF UsersInv, OneAtATime, q
  <2> QED BY <2>1, <1>1, <1>3
<1>9. OneAtATime'
  BY <1>0, <1>8 DEF OneAtATime
<1>10. ListFresh'
  <2> SUFFICES ASSUME crossings = {}
               PROVE  /\ \A a \in userList'.kept : a.version = userList'.key => a.rows = ListOf(users)
                      /\ \A o \in Administering : administering'[o].phase = "flushed" /\ administering'[o].raise =>
                             \A a \in userList'.kept : a.version # userList'.key
    BY <1>0 DEF ListFresh, ListOf, Present, Known
  <2>1. q.rows = ListOf(users) /\ \A o \in Administering : administering'[o].phase = "none"
    BY <1>8
  <2>2. \A a \in userList.kept : a.version = userList.key => a.rows = ListOf(users)
    BY DEF UsersInv, ListFresh
  <2> QED BY <1>5, <2>1, <2>2
<1>11. QuotaCounted'
  <2>1. Within' = Within
    BY <1>0 DEF Within, Counted, Present, Known
  <2>2. Makers' \subseteq Makers
    BY <1>2, <1>3 DEF Makers, MayMake
  <2> QED BY <1>0, <2>1, <2>2, QuotaStays DEF UsersInv
<1>12. LogsSingle' /\ TrailTells'
  BY <1>0, TrailStays
<1>13. UserListCurrent'
  BY <1>0, <1>8 DEF UserListCurrent
<1> QED BY <1>6, <1>7, <1>9, <1>10, <1>11, <1>12, <1>13 DEF UsersInv

\* A handler that is through: what it leaves is of a flushed request's kind.
LEMMA FlushInv ==
    ASSUME UsersInv, NEW r \in Administering, NEW new, NEW told, NEW raise,
           AtWork(r), Flush(r, new, told, raise),
           FlushedIs([phase |-> "flushed", view |-> View(r), new |-> new, logged |-> told, raise |-> raise])
    PROVE  UsersInv'
<1>1. PICK q : q = [phase |-> "flushed", view |-> View(r), new |-> new, logged |-> told, raise |-> raise]
  OBVIOUS
<1>2. FlushedIs(q) /\ q.phase = "flushed" /\ q.view = administering[r].view /\ q.raise = raise /\ raise \in BOOLEAN
  BY <1>1 DEF FlushedIs, View
<1>3. /\ UsersShaped /\ administering[r].phase = "open"
      /\ changes < MaxChanges /\ changes' = changes + 1
      /\ administering' = [administering EXCEPT ![r] = q]
      /\ userList' = IF raise THEN RaisedFirst(userList) ELSE userList
      /\ listShown' = TRUE /\ UNCHANGED <<users, trail, crossings, unlogged, outgrown, born>>
  BY <1>1 DEF Flush, AtWork, UsersInv, NothingListed, View
<1>4. /\ administering' = [o \in Administering |-> administering'[o]] /\ administering'[r] = q
      /\ \A o \in Administering \ {r} : administering'[o] = administering[o]
  BY <1>3, UserSlots
<1>5. /\ userList = [key |-> userList.key, kept |-> userList.kept] /\ userList.key \in Nat /\ userList.key > 0
      /\ \A a \in userList.kept : a.version \in Nat /\ a.version <= userList.key
  BY <1>3 DEF UsersShaped
<1>6. userList' = [key |-> userList'.key, kept |-> userList.kept]
  BY <1>3, <1>5 DEF RaisedFirst, BumpCacheVersion
<1>7. userList'.key = IF raise THEN userList.key + 1 ELSE userList.key
  BY <1>3, <1>5 DEF RaisedFirst, BumpCacheVersion
<1>8. userList'.key \in Nat /\ userList'.key >= userList.key /\ userList'.kept = userList.kept
  BY <1>5, <1>6, <1>7
<1>9. UsersShaped'
  <2>1. RequestIs(q)
    BY <1>2 DEF RequestIs
  <2>2. \A o \in Administering : RequestIs(administering'[o])
    BY <1>3, <1>4, <2>1 DEF UsersShaped
  <2>3. ASSUME NEW o \in Administering, administering'[o].phase = "missed"
        PROVE  administering'[o].version <= userList'.key
    <3>1. administering'[o] = administering[o] /\ RequestIs(administering[o]) /\ administering[o].version <= userList.key
      BY <1>2, <1>3, <1>4, <2>3 DEF UsersShaped
    <3>2. administering[o].version \in Nat
      BY <3>1, <2>3 DEF RequestIs, MissedIs, OpenedIs, FlushedIs, NoRequest
    <3> QED BY <1>5, <1>8, <3>1, <3>2
  <2>4. \A a \in userList'.kept : a.version \in Nat /\ a.version <= userList'.key
    BY <1>5, <1>8
  <2>5. changes' \in 0..MaxChanges /\ listShown' \in BOOLEAN
    BY <1>3, UserNumbers DEF UsersShaped
  <2>6. userList'.key > 0
    BY <1>5, <1>8
  <2> QED BY <1>3, <1>4, <1>6, <1>8, <2>2, <2>3, <2>4, <2>5, <2>6 DEF UsersShaped
<1>10. RowsStay'
  <2>1. \A o \in Administering : administering'[o].phase \in {"open", "flushed"} =>
            \A u \in UserId : administering'[o].view[u].known => users[u].known
    BY <1>2, <1>3, <1>4 DEF UsersInv, RowsStay
  <2> QED BY <1>3, <2>1 DEF UsersInv, RowsStay
<1>11. "overlap" \notin crossings =>
          q.view = users /\ \A o \in Administering \ {r} : administering'[o].phase = "none"
  BY <1>2, <1>3, <1>4 DEF UsersInv, OneAtATime
<1>12. OneAtATime'
  <2> SUFFICES ASSUME "overlap" \notin crossings, NEW o \in Administering, administering'[o].phase # "none"
               PROVE  /\ \A p \in Administering \ {o} : administering'[p].phase = "none"
                      /\ administering'[o].phase \in {"open", "flushed"} => administering'[o].view = users
                      /\ administering'[o].phase = "missed" => administering'[o].rows = ListOf(users)
    BY <1>3 DEF OneAtATime, ListOf, Present, Known
  <2>1. o = r
    BY <1>11
  <2> QED BY <1>2, <1>4, <1>11, <2>1
<1>13. ListFresh'
  <2> SUFFICES ASSUME crossings = {}
               PROVE  /\ \A a \in userList'.kept : a.version = userList'.key => a.rows = ListOf(users)
                      /\ \A o \in Administering : administering'[o].phase = "flushed" /\ administering'[o].raise =>
                             \A a \in userList'.kept : a.version # userList'.key
    BY <1>3 DEF ListFresh, ListOf, Present, Known
  <2>1. \A a \in userList.kept : a.version = userList.key => a.rows = ListOf(users)
    BY DEF UsersInv, ListFresh
  <2>2. raise => \A a \in userList.kept : a.version # userList.key + 1
    BY <1>5
  <2>3. \A a \in userList'.kept : a.version = userList'.key => a.rows = ListOf(users)
    BY <1>7, <1>8, <2>1, <2>2
  <2>4. ASSUME NEW o \in Administering, administering'[o].phase = "flushed", administering'[o].raise
        PROVE  \A a \in userList'.kept : a.version # userList'.key
    <3>1. o = r
      BY <1>11, <2>4
    <3>2. raise
      BY <1>2, <1>4, <2>4, <3>1
    <3> QED BY <1>7, <1>8, <2>2, <3>2
  <2> QED BY <2>3, <2>4
<1>14. QuotaCounted'
  <2>1. Within' = Within
    BY <1>3 DEF Within, Counted, Present, Known
  <2>2. MayMake(q) => MayMake(administering[r])
    BY <1>2, <1>3 DEF FlushedIs, MayMake
  <2>3. Makers' \subseteq Makers
    <3>1. Makers' = {o \in Administering : MayMake(administering'[o])}
      BY DEF Makers
    <3> QED BY <1>4, <2>2, <3>1 DEF Makers
  <2> QED BY <1>3, <2>1, <2>3, QuotaStays DEF UsersInv
<1>15. LogsSingle' /\ TrailTells'
  BY <1>3, TrailStays
<1> QED BY <1>3, <1>9, <1>10, <1>12, <1>13, <1>14, <1>15 DEF UsersInv, UserListCurrent

\* What an open request sees of a user.
LEMMA ViewedUser ==
    ASSUME UsersInv, NEW r \in Administering, AtWork(r)
    PROVE  /\ View(r) \in UserTables
           /\ \A u \in Known(View(r)) : u \in UserId /\ View(r)[u] \in UserRows /\ View(r)[u].known = TRUE /\ users[u].known
<1>1. RequestIs(administering[r]) /\ administering[r].phase = "open"
  BY DEF UsersInv, UsersShaped, AtWork
<1>2. View(r) \in UserTables
  BY <1>1 DEF RequestIs, OpenedIs, MissedIs, FlushedIs, NoRequest, View
<1>3. \A u \in UserId : View(r)[u].known => View(r)[u] \in UserRows /\ users[u].known
  BY <1>1, <1>2, UserNumbers DEF UserTables, UsersInv, RowsStay, View
<1>4. \A u \in UserId : View(r)[u] \in UserRows => View(r)[u].known = TRUE
  BY DEF UserRows
<1> QED BY <1>2, <1>3, <1>4 DEF Known

LEMMA CreateUserInv ==
    ASSUME UsersInv, NEW r \in Administering, NEW m \in Mobile, NEW s \in Staff, CreateUser(r, m, s)
    PROVE  UsersInv'
<1> DEFINE free == {u \in UserId \ Known(users) : \A o \in Administering :
                       administering[o].phase = "flushed" => u \notin DOMAIN administering[o].new}
           least == CHOOSE u \in free : \A o \in free : u <= o
           new == [o \in {least} |-> NewUser(m, s)]
           q == [phase |-> "flushed", view |-> View(r), new |-> new, logged |-> {}, raise |-> FALSE]
<1>1. AtWork(r) /\ WithinQuota(View(r)) /\ free # {} /\ Flush(r, new, {}, FALSE)
  BY DEF CreateUser
<1>2. free \in SUBSET Nat
  BY DEF UserId
<1>3. \E u \in free : \A o \in free : u <= o
  BY <1>1, <1>2, LeastOf
<1>4. least \in UserId /\ ~users[least].known
  <2>1. least \in free
    BY <1>3
  <2> QED BY <2>1 DEF Known
<1> HIDE DEF least
<1>5. ~View(r)[least].known
  BY <1>1, <1>4, ViewedUser DEF Known
<1>6. NewUser(m, s) \in UserRows
  BY DEF NewUser, UserRows
<1>7. MadeBy(q) = {least} /\ LogsNothing(q)
  BY <1>5 DEF MadeBy, LogsNothing
<1>8. /\ View(r) \in UserTables /\ DOMAIN new \subseteq UserId /\ \A u \in DOMAIN new : new[u] \in UserRows
  BY <1>1, <1>4, <1>6, ViewedUser
<1>9. FlushedIs(q)
  BY <1>1, <1>4, <1>7, <1>8 DEF FlushedIs
<1> QED BY <1>1, <1>9, FlushInv

\* Rows of users the request saw, with no log of them.
LEMMA UnloggedInv ==
    ASSUME UsersInv, NEW r \in Administering, NEW new, NEW raise \in BOOLEAN, AtWork(r),
           DOMAIN new \subseteq Known(View(r)), Flush(r, new, {}, raise),
           \A u \in DOMAIN new : /\ new[u] \in UserRows /\ new[u].mobile = View(r)[u].mobile
                                 /\ new[u].role = View(r)[u].role
    PROVE  UsersInv'
<1> DEFINE q == [phase |-> "flushed", view |-> View(r), new |-> new, logged |-> {}, raise |-> raise]
<1>1. \A u \in DOMAIN new : u \in UserId /\ View(r)[u].known
  BY ViewedUser
<1>2. MadeBy(q) = {} /\ LogsNothing(q)
  BY <1>1 DEF MadeBy, LogsNothing
<1>3. FlushedIs(q)
  BY <1>1, <1>2, ViewedUser DEF FlushedIs
<1> QED BY <1>3, FlushInv

LEMMA DeleteUserInv ==
    ASSUME UsersInv, NEW r \in Administering, NEW u \in UserId, DeleteUser(r, u) \/ RestoreUser(r, u)
    PROVE  UsersInv'
<1>1. AtWork(r) /\ u \in Known(View(r))
  BY DEF DeleteUser, RestoreUser, Present
<1>2. View(r)[u] \in UserRows
  BY <1>1, ViewedUser
<1>3. ASSUME NEW b \in BOOLEAN, Flush(r, [o \in {u} |-> [View(r)[u] EXCEPT !.is_deleted = b]], {}, TRUE)
      PROVE  UsersInv'
  <2> DEFINE row == [View(r)[u] EXCEPT !.is_deleted = b]
             new == [o \in {u} |-> row]
  <2>1. row \in UserRows /\ row.mobile = View(r)[u].mobile /\ row.role = View(r)[u].role
    BY <1>2 DEF UserRows
  <2> HIDE DEF row
  <2>2. DOMAIN new = {u} /\ new[u] = row
    OBVIOUS
  <2>3. Flush(r, new, {}, TRUE)
    BY <1>3 DEF row
  <2> HIDE DEF new
  <2> QED BY <1>1, <2>1, <2>2, <2>3, UnloggedInv
<1> QED BY <1>3 DEF DeleteUser, RestoreUser

LEMMA UpdateRoleStatusInv ==
    ASSUME UsersInv, NEW r \in Administering, NEW s \in Staff, NEW active \in BOOLEAN, UpdateRoleStatus(r, s, active)
    PROVE  UsersInv'
<1> DEFINE of == {u \in Present(View(r)) : View(r)[u].role = s}
           new == [u \in of |-> [View(r)[u] EXCEPT !.is_active = active]]
<1>1. AtWork(r) /\ Flush(r, new, {}, FALSE)
  BY DEF UpdateRoleStatus
<1>2. DOMAIN new \subseteq Known(View(r))
  BY DEF Present
<1>3. ASSUME NEW u \in DOMAIN new
      PROVE  new[u] \in UserRows /\ new[u].mobile = View(r)[u].mobile /\ new[u].role = View(r)[u].role
  <2>1. View(r)[u] \in UserRows
    BY <1>1, <1>2, ViewedUser
  <2>2. new[u] = [View(r)[u] EXCEPT !.is_active = active]
    OBVIOUS
  <2> QED BY <2>1, <2>2 DEF UserRows
<1> HIDE DEF new
<1> QED BY <1>1, <1>2, <1>3, UnloggedInv

LEMMA UpdateUserInv ==
    ASSUME UsersInv, NEW r \in Administering, NEW u \in UserId, NEW m \in Mobile, NEW s \in Staff,
           NEW active \in BOOLEAN, UpdateUser(r, u, m, s, active)
    PROVE  UsersInv'
<1> DEFINE old == View(r)[u]
           row == [old EXCEPT !.mobile = m, !.role = s, !.is_active = active]
           new == [o \in {u} |-> row]
           told == {<<u, f, old[f], row[f]>> : f \in Differing(old, row)}
           q == [phase |-> "flushed", view |-> View(r), new |-> new, logged |-> told, raise |-> TRUE]
<1>1. AtWork(r) /\ u \in Known(View(r)) /\ Flush(r, new, told, TRUE)
  BY DEF UpdateUser, Present
<1>2. old \in UserRows /\ old.known = TRUE /\ View(r) \in UserTables
  BY <1>1, ViewedUser
<1>3. row \in UserRows
  BY <1>2 DEF UserRows
<1>4. DOMAIN new = {u} /\ new[u] = row /\ told = {<<u, f, View(r)[u][f], new[u][f]>> : f \in Differing(View(r)[u], new[u])}
  OBVIOUS
<1> HIDE DEF told, new, row
<1>5. MadeBy(q) = {} /\ LogsOf(q, u)
  BY <1>2, <1>4 DEF MadeBy, LogsOf
<1>6. FlushedIs(q)
  BY <1>2, <1>3, <1>4, <1>5 DEF FlushedIs
<1> QED BY <1>1, <1>6, FlushInv

LEMMA RowFields == ASSUME NEW row \in UserRows, NEW f \in Fields PROVE row[f] \in Mobile \cup Staff \cup BOOLEAN
BY DEF UserRows, Fields

\* A row merged at the commit; unchanged meanwhile, it is the row the request wrote.
LEMMA MergedUser ==
    ASSUME NEW new \in UserRows, NEW old \in UserRows, NEW now \in UserRows
    PROVE  LET row == [c \in DOMAIN now |-> IF ~old.known \/ new[c] # old[c] THEN new[c] ELSE now[c]]
           IN  row \in UserRows /\ (old = now => row = new)
<1> DEFINE row == [c \in DOMAIN now |-> IF ~old.known \/ new[c] # old[c] THEN new[c] ELSE now[c]]
<1>1. DOMAIN now = {"known", "mobile", "role", "is_active", "is_deleted"} /\ DOMAIN new = DOMAIN now /\ old.known = TRUE
  BY DEF UserRows
<1>2. row = [c \in DOMAIN now |-> IF new[c] # old[c] THEN new[c] ELSE now[c]]
  BY <1>1
<1>3. row \in UserRows
  BY <1>2 DEF UserRows
<1>4. ASSUME old = now PROVE row = new
  <2>1. \A c \in DOMAIN now : row[c] = new[c]
    BY <1>2, <1>4
  <2>2. row = [c \in DOMAIN now |-> new[c]]
    BY <1>2, <1>4
  <2>3. new = [c \in DOMAIN new |-> new[c]]
    BY DEF UserRows
  <2> QED BY <1>1, <2>2, <2>3
<1> QED BY <1>3, <1>4

\* A group of logs of what a field was and becomes keeps what the logs tell.
LEMMA TellsMore ==
    ASSUME NEW logs \in Seq(LogGroups), NEW G \in LogGroups, NEW first, NEW f, NEW now, NEW next,
           Tells(logs, first, f, now), \A l, m \in G.of : l.field = m.field => l = m,
           \A l \in G.of : l.field = f => l.old = now /\ l.new = next,
           (~\E l \in G.of : l.field = f) => next = now
    PROVE  Tells(Append(logs, G), first, f, next)
<1> DEFINE more == Append(logs, G)
           n == Len(logs)
<1>1. /\ n \in Nat /\ Len(more) = n + 1 /\ DOMAIN more = 1..n + 1 /\ DOMAIN logs = 1..n
      /\ more[n + 1] = G /\ \A i \in 1..n : more[i] = logs[i]
  BY LogsShaped
<1> HIDE DEF more, n
<1>2. \A i \in 1..n + 1 : i \in Nat /\ \A j \in 1..i - 1 : j \in 1..n
  BY <1>1
<1>3. ASSUME NEW i \in 1..n + 1 PROVE LeftBy(more, first, f, i) = LeftBy(logs, first, f, i)
  <2>1. i \in Nat /\ \A j \in 1..i - 1 : more[j] = logs[j]
    BY <1>1, <1>2
  <2> QED BY <2>1, LeftSame
<1>4. /\ now = LeftBy(logs, first, f, n + 1)
      /\ \A i \in 1..n : \A l \in logs[i].of : l.field = f => l.old = LeftBy(logs, first, f, i)
  BY <1>1 DEF Tells, n
<1>5. n + 1 \in 1..n + 1 /\ n + 1 \in Nat \ {0} /\ \A i \in 1..n : i \in 1..n + 1
  BY <1>1
<1>6. next = LeftBy(more, first, f, n + 1 + 1)
  <2>1. CASE \E l \in G.of : l.field = f
    <3>1. PICK l \in G.of : l.field = f
      BY <2>1
    <3>2. l \in more[n + 1].of /\ \A m, k \in more[n + 1].of : m.field = k.field => m = k
      BY <1>1
    <3>3. LeftBy(more, first, f, n + 1 + 1) = l.new
      BY <1>5, <3>1, <3>2, LeftLogged
    <3> QED BY <3>1, <3>3
  <2>2. CASE ~\E l \in G.of : l.field = f
    <3>1. ~\E l \in more[n + 1].of : l.field = f
      BY <1>1, <2>2
    <3>2. LeftBy(more, first, f, n + 1 + 1) = LeftBy(more, first, f, n + 1)
      BY <1>5, <3>1, LeftMissing
    <3> QED BY <1>3, <1>4, <1>5, <2>2, <3>2
  <2> QED BY <2>1, <2>2
<1>7. ASSUME NEW i \in 1..n + 1, NEW l \in more[i].of, l.field = f PROVE l.old = LeftBy(more, first, f, i)
  <2>1. CASE i \in 1..n
    <3>1. more[i] = logs[i] /\ LeftBy(more, first, f, i) = LeftBy(logs, first, f, i)
      BY <1>1, <1>3, <1>5, <2>1
    <3> QED BY <1>4, <1>7, <2>1, <3>1
  <2>2. CASE i = n + 1
    <3>1. l \in G.of /\ LeftBy(more, first, f, i) = now
      BY <1>1, <1>3, <1>4, <1>5, <2>2, <1>7
    <3> QED BY <1>7, <3>1
  <2>3. i \in 1..n \/ i = n + 1
    BY <1>1
  <2> QED BY <2>1, <2>2, <2>3
<1>8. Len(more) + 1 = n + 1 + 1
  BY <1>1
<1>9. Tells(more, first, f, next)
  BY <1>1, <1>6, <1>7, <1>8 DEF Tells
<1> QED BY <1>9 DEF more

LEMMA TellsNothing == ASSUME NEW first, NEW f PROVE Tells(<<>>, first, f, first)
<1>1. Len(<<>>) = 0 /\ DOMAIN <<>> = {}
  OBVIOUS
<1>2. {j \in 1..(Len(<<>>) + 1) - 1 : \E l \in <<>>[j].of : l.field = f} = {}
  BY <1>1
<1>3. LeftBy(<<>>, first, f, Len(<<>>) + 1) = first
  BY <1>2, Zenon DEF LeftBy
<1> QED BY <1>1, <1>3 DEF Tells

LEMMA CommitInv == ASSUME UsersInv, NEW r \in Administering, Commit(r) PROVE UsersInv'
<1>1. PICK q : q = administering[r]
  OBVIOUS
<1> DEFINE made == MadeBy(q)
           mine(u) == {l \in q.logged : l[1] = u}
           group(u) == [group |-> changes,
                        of |-> {[field |-> l[2], old |-> l[3], new |-> l[4]] : l \in mine(u)}]
<1>2. PICK rows : rows = [u \in UserId |-> IF u \in DOMAIN q.new THEN Merged(u, q.view[u], q.new[u]) ELSE users[u]]
  OBVIOUS
<1>3. q.phase = "flushed" /\ UsersShaped /\ \A u \in made : ~users[u].known
  BY <1>1 DEF Commit, UsersInv, MadeBy
<1>4. users' = rows /\ changes' = changes /\ userList' = userList /\ listShown' = TRUE
  BY <1>1, <1>2 DEF Commit, NothingListed
<1>5. trail' = [u \in UserId |-> IF mine(u) = {} THEN trail[u] ELSE Append(trail[u], group(u))]
  BY <1>1 DEF Commit
<1>6. /\ crossings' = crossings \cup (IF q.raise THEN {} ELSE {"unraised"})
      /\ unlogged' = unlogged \cup {u \in Known(users) \cap DOMAIN q.new :
             users[u].is_active # rows[u].is_active /\ q.logged = {}}
  BY <1>1, <1>2 DEF Commit
<1>7. /\ born' = [u \in UserId |-> IF u \in made THEN rows[u] ELSE born[u]]
      /\ outgrown' = (outgrown \cup (Counted(rows) \ (Counted(users) \cup made)))
      /\ administering' = [administering EXCEPT ![r] = NoRequest]
  BY <1>1, <1>2 DEF Commit, MadeBy
<1>8. FlushedIs(q)
  <2>1. RequestIs(q)
    BY <1>1, <1>3 DEF UsersShaped
  <2> QED BY <1>3, <2>1 DEF RequestIs, OpenedIs, MissedIs, NoRequest
<1>9. /\ q.view \in UserTables /\ DOMAIN q.new \subseteq UserId /\ \A u \in DOMAIN q.new : q.new[u] \in UserRows
      /\ made = {} \/ (WithinQuota(q.view) /\ \E u \in UserId : made = {u})
      /\ LogsNothing(q) \/ \E u \in UserId : LogsOf(q, u)
  BY <1>8 DEF FlushedIs
<1>10. \A u \in UserId : q.view[u].known => q.view[u] \in UserRows /\ users[u].known
  <2>1. \A u \in UserId : q.view[u].known => users[u].known
    BY <1>1, <1>3 DEF UsersInv, RowsStay
  <2> QED BY <1>9, <2>1, UserNumbers DEF UserTables
<1>11. users \in UserTables /\ \A u \in UserId : users[u].known => users[u] \in UserRows /\ users[u].known = TRUE
  <2>1. users \in UserTables
    BY <1>3 DEF UsersShaped
  <2>2. \A u \in UserId : users[u].known => users[u] \in UserRows
    BY <2>1, UserNumbers DEF UserTables
  <2> QED BY <2>1, <2>2 DEF UserRows
<1>12. made \subseteq DOMAIN q.new /\ made \subseteq UserId
  BY <1>9 DEF MadeBy
<1>13. ASSUME NEW u \in DOMAIN q.new
       PROVE  /\ rows[u] \in UserRows
              /\ u \in made => rows[u] = q.new[u]
              /\ u \notin made => q.view[u].known /\ users[u].known /\ (q.view[u] = users[u] => rows[u] = q.new[u])
  <2>0. u \in UserId /\ q.new[u] \in UserRows /\ rows[u] = Merged(u, q.view[u], q.new[u])
    BY <1>2, <1>9
  <2>1. CASE u \in made
    <3>1. rows[u] = q.new[u]
      BY <1>3, <2>0, <2>1 DEF Merged
    <3> QED BY <2>0, <2>1, <3>1
  <2>2. CASE u \notin made
    <3>1. q.view[u].known
      BY <2>2 DEF MadeBy
    <3>2. q.view[u] \in UserRows /\ users[u].known /\ users[u] \in UserRows
      BY <1>10, <1>11, <2>0, <3>1
    <3>3. rows[u] = [c \in DOMAIN users[u] |-> IF ~q.view[u].known \/ q.new[u][c] # q.view[u][c]
                                                THEN q.new[u][c] ELSE users[u][c]]
      BY <2>0, <3>2 DEF Merged
    <3>4. rows[u] \in UserRows /\ (q.view[u] = users[u] => rows[u] = q.new[u])
      BY <2>0, <3>2, <3>3, MergedUser
    <3> QED BY <2>2, <3>1, <3>2, <3>4
  <2> QED BY <2>1, <2>2
<1>14. \A u \in UserId \ DOMAIN q.new : rows[u] = users[u]
  BY <1>2
<1>15. rows \in UserTables
  <2>1. \A u \in UserId : rows[u] \in UserRows \cup {Free}
    BY <1>11, <1>13, <1>14 DEF UserTables
  <2> QED BY <1>2, <2>1 DEF UserTables
<1>16. \A u \in UserId : users[u].known => rows[u].known
  BY <1>13, <1>14 DEF UserRows
<1>17. /\ administering' = [o \in Administering |-> administering'[o]] /\ administering'[r] = NoRequest
       /\ \A o \in Administering \ {r} : administering'[o] = administering[o]
  BY <1>3, <1>7, UserSlots
<1>18. \A o \in Administering : administering'[o] = NoRequest \/ administering'[o] = administering[o]
  BY <1>17
<1>19. NoRequest.phase = "none" /\ RequestIs(NoRequest)
  BY DEF NoRequest, RequestIs
\* What the logs of the request are, of one user.
<1>20. ASSUME NEW u \in UserId, mine(u) # {}
       PROVE  /\ u \in DOMAIN q.new /\ u \notin made
              /\ group(u).of = {[field |-> f, old |-> q.view[u][f], new |-> q.new[u][f]] : f \in Differing(q.view[u], q.new[u])}
  <2>1. PICK w \in UserId : LogsOf(q, w)
    BY <1>9, <1>20 DEF LogsNothing
  <2>2. /\ DOMAIN q.new = {w} /\ q.view[w].known
        /\ q.logged = {<<w, f, q.view[w][f], q.new[w][f]>> : f \in Differing(q.view[w], q.new[w])}
    BY <2>1 DEF LogsOf
  <2>3. u = w
    BY <1>20, <2>2
  <2>4. mine(u) = q.logged
    BY <2>2, <2>3
  <2>5. group(u).of = {[field |-> l[2], old |-> l[3], new |-> l[4]] : l \in q.logged}
    BY <2>4
  <2>6. {[field |-> l[2], old |-> l[3], new |-> l[4]] : l \in q.logged} =
            {[field |-> f, old |-> q.view[u][f], new |-> q.new[u][f]] : f \in Differing(q.view[u], q.new[u])}
    <3> DEFINE T(f) == <<u, f, q.view[u][f], q.new[u][f]>>
               L(f) == [field |-> f, old |-> q.view[u][f], new |-> q.new[u][f]]
               M(l) == [field |-> l[2], old |-> l[3], new |-> l[4]]
               D == Differing(q.view[u], q.new[u])
    <3>1. q.logged = {T(f) : f \in D}
      BY <2>2, <2>3
    <3>2. \A f \in D : M(T(f)) = L(f)
      OBVIOUS
    <3> HIDE DEF T, L, M, D
    <3>3. {M(l) : l \in {T(f) : f \in D}} = {L(f) : f \in D}
      BY <3>2
    <3>4. {M(l) : l \in q.logged} = {L(f) : f \in D}
      BY <3>1, <3>3
    <3> QED BY <3>4 DEF L, M, D
  <2> QED BY <2>2, <2>3, <2>5, <2>6 DEF MadeBy
<1>21. ASSUME NEW u \in UserId, mine(u) # {} PROVE group(u) \in LogGroups
  <2>1. u \in DOMAIN q.new /\ q.view[u] \in UserRows /\ q.new[u] \in UserRows
    BY <1>9, <1>10, <1>20, <1>21 DEF MadeBy
  <2>2. \A f \in Fields : q.view[u][f] \in Mobile \cup Staff \cup BOOLEAN /\ q.new[u][f] \in Mobile \cup Staff \cup BOOLEAN
    BY <2>1, RowFields
  <2>3. \A f \in Fields : [field |-> f, old |-> q.view[u][f], new |-> q.new[u][f]] \in LogRows
    BY <2>2 DEF LogRows
  <2>4. group(u).of \subseteq LogRows
    BY <1>20, <1>21, <2>3 DEF Differing
  <2>5. changes \in Nat
    BY <1>3, UserNumbers DEF UsersShaped
  <2> HIDE DEF mine
  <2> QED BY <2>4, <2>5 DEF LogGroups
<1>22. ASSUME NEW u \in UserId
       PROVE  /\ trail[u] \in Seq(LogGroups)
              /\ mine(u) = {} => trail'[u] = trail[u]
              /\ mine(u) # {} => trail'[u] = Append(trail[u], group(u))
  BY <1>3, <1>5 DEF UsersShaped
<1> HIDE DEF mine, group
<1>23. UsersShaped'
  <2>1. \A o \in Administering : RequestIs(administering'[o])
    BY <1>3, <1>18, <1>19 DEF UsersShaped
  <2>2. \A o \in Administering : administering'[o].phase = "missed" => administering'[o].version <= userList.key
    BY <1>3, <1>18, <1>19 DEF UsersShaped
  <2>3. \A u \in UserId : trail'[u] \in Seq(LogGroups)
    BY SMTT(40), <1>21, <1>22
  <2>4. trail' \in [UserId -> Seq(LogGroups)]
    BY <1>5, <2>3
  <2>5. born' \in UserTables
    <3>1. born \in UserTables
      BY <1>3 DEF UsersShaped
    <3> QED BY <1>7, <1>12, <1>15, <3>1 DEF UserTables
  <2>6. changes \in 0..MaxChanges
    BY <1>3 DEF UsersShaped
  <2> QED BY <1>3, <1>4, <1>15, <1>17, <2>1, <2>2, <2>4, <2>5, <2>6 DEF UsersShaped
<1>24. RowsStay'
  <2>1. ASSUME NEW u \in UserId, trail'[u] # <<>> PROVE rows[u].known
    <3>1. CASE mine(u) = {}
      <4>1. trail[u] # <<>>
        BY <1>22, <2>1, <3>1
      <4> QED BY <1>16, <4>1 DEF UsersInv, RowsStay
    <3>2. CASE mine(u) # {}
      BY <1>13, <1>16, <1>20, <3>2
    <3> QED BY <3>1, <3>2
  <2>2. ASSUME NEW o \in Administering, administering'[o].phase \in {"open", "flushed"},
               NEW u \in UserId, administering'[o].view[u].known
        PROVE  rows[u].known
    <3>1. administering'[o] = administering[o]
      BY <1>18, <1>19, <2>2
    <3>2. users[u].known
      BY <2>2, <3>1 DEF UsersInv, RowsStay
    <3> QED BY <1>16, <3>2
  <2> QED BY <1>4, <2>1, <2>2 DEF RowsStay
<1>25. crossings \subseteq crossings' /\ ("overlap" \notin crossings' => "overlap" \notin crossings)
  BY <1>6
<1>26. ASSUME "overlap" \notin crossings
       PROVE  q.view = users /\ \A o \in Administering : administering'[o].phase = "none"
  BY <1>1, <1>3, <1>17, <1>19, <1>26 DEF UsersInv, OneAtATime
<1>27. OneAtATime'
  BY <1>25, <1>26 DEF OneAtATime
<1>28. ListFresh'
  <2> SUFFICES ASSUME crossings' = {}
               PROVE  /\ \A a \in userList.kept : a.version # userList.key
                      /\ \A o \in Administering : administering'[o].phase # "flushed"
    BY <1>4 DEF ListFresh
  <2>1. crossings = {} /\ q.raise
    BY <1>6
  <2>2. \A a \in userList.kept : a.version # userList.key
    BY <1>1, <1>3, <2>1 DEF UsersInv, ListFresh
  <2>3. \A o \in Administering : administering'[o].phase = "none"
    BY <1>26, <2>1
  <2> QED BY <2>2, <2>3
<1>29. QuotaCounted'
  <2>1. Within' \subseteq Within \cup made
    BY <1>4, <1>7 DEF Within, Counted, Present, Known
  <2>2. Makers' \subseteq Makers \ {r}
    <3>1. Makers' = {o \in Administering : MayMake(administering'[o])}
      BY DEF Makers
    <3>2. ~MayMake(NoRequest)
      BY <1>19 DEF MayMake
    <3> QED BY <1>17, <3>1, <3>2 DEF Makers
  <2>3. CASE made = {}
    BY <1>25, <2>1, <2>2, <2>3, QuotaStays DEF UsersInv
  <2>4. CASE WithinQuota(q.view) /\ \E u \in UserId : made = {u}
    <3>1. PICK u \in UserId : made = {u}
      BY <2>4
    <3>2. r \in Makers
      BY <1>1, <1>3, <3>1 DEF Makers, MayMake
    <3>3. Within \in SUBSET UserId /\ Makers \in SUBSET Administering /\ Within \cup {u} \in SUBSET UserId
      BY DEF Within, Counted, Present, Known, Makers
    <3>4. Within' \in SUBSET UserId /\ Makers' \in SUBSET Administering
      BY <2>1, <2>2, <3>1, <3>3
    <3>5. Cardinality(Within \cup {u}) <= Cardinality(Within) + 1
      <4>1. IsFiniteSet(Within) /\ Cardinality(Within) \in Nat
        BY <3>3, UserSets
      <4>2. Cardinality(Within \cup {u}) = IF u \in Within THEN Cardinality(Within) ELSE Cardinality(Within) + 1
        BY <4>1, FS_AddElement
      <4> QED BY <4>1, <4>2
    <3>6. Cardinality(Within') <= Cardinality(Within) + 1
      <4>1. IsFiniteSet(Within \cup {u}) /\ Within' \subseteq Within \cup {u}
        BY <2>1, <3>1, <3>3, UserSets
      <4>2. Cardinality(Within') <= Cardinality(Within \cup {u})
        BY <4>1, FS_Subset
      <4> QED BY <3>3, <3>4, <3>5, <4>2, UserSets
    <3>7. Cardinality(Makers') <= Cardinality(Makers) - 1
      <4>1. IsFiniteSet(Makers) /\ Cardinality(Makers) \in Nat
        BY <3>3, UserSets
      <4>2. Cardinality(Makers \ {r}) = Cardinality(Makers) - 1
        BY <3>2, <4>1, FS_RemoveElement
      <4>3. IsFiniteSet(Makers \ {r})
        BY <3>3, UserSets
      <4> QED BY <2>2, <4>2, <4>3, FS_Subset
    <3>8. Cardinality(Within) + Cardinality(Makers) <= UserQuota + Cardinality(Administering) - 1
      BY DEF UsersInv, QuotaCounted
    <3>9. /\ Cardinality(Within) \in Nat /\ Cardinality(Makers) \in Nat
          /\ Cardinality(Within') \in Nat /\ Cardinality(Makers') \in Nat
      BY <3>3, <3>4, UserSets
    <3>10. Cardinality(Within') + Cardinality(Makers') <= UserQuota + Cardinality(Administering) - 1
      BY <3>6, <3>7, <3>8, <3>9, UserNumbers
    <3>11. ASSUME "overlap" \notin crossings PROVE Cardinality(Within') <= UserQuota
      <4>1. Cardinality(Counted(users)) < UserQuota
        BY <1>26, <2>4, <3>11 DEF WithinQuota
      <4>2. Counted(users) \in SUBSET UserId /\ Within \subseteq Counted(users)
        BY DEF Within, Counted, Present, Known
      <4>3. Cardinality(Counted(users)) \in Nat /\ Cardinality(Within) <= Cardinality(Counted(users))
        BY <4>2, UserSets, FS_Subset
      <4> QED BY <3>6, <3>9, <4>1, <4>3, UserNumbers
    <3> QED BY <1>25, <3>10, <3>11 DEF QuotaCounted
  <2> QED BY <1>9, <2>3, <2>4
<1>30. ASSUME NEW u \in UserId, mine(u) # {}
       PROVE  \A l, m \in group(u).of : l.field = m.field => l = m
  BY <1>20, <1>30
<1>31. LogsSingle'
  <2> SUFFICES ASSUME NEW u \in UserId, NEW i \in DOMAIN trail'[u]
               PROVE  \A l, m \in trail'[u][i].of : l.field = m.field => l = m
    BY DEF LogsSingle
  <2>1. \A j \in DOMAIN trail[u] : \A l, m \in trail[u][j].of : l.field = m.field => l = m
    BY DEF UsersInv, LogsSingle
  <2>2. CASE mine(u) = {}
    BY <1>22, <2>1, <2>2
  <2>3. CASE mine(u) # {}
    <3>1. /\ Len(trail[u]) \in Nat /\ DOMAIN trail[u] = 1..Len(trail[u])
          /\ DOMAIN trail'[u] = 1..Len(trail[u]) + 1 /\ trail'[u][Len(trail[u]) + 1] = group(u)
          /\ \A j \in 1..Len(trail[u]) : trail'[u][j] = trail[u][j]
      BY <1>22, <2>3, LogsShaped
    <3>2. i \in 1..Len(trail[u]) \/ i = Len(trail[u]) + 1
      BY <3>1
    <3> QED BY <1>30, <2>1, <2>3, <3>1, <3>2
  <2> QED BY <2>2, <2>3
<1>32. TrailTells'
  <2> SUFFICES ASSUME "overlap" \notin crossings, NEW u \in UserId, rows[u].known,
                      NEW f \in Fields, u \in unlogged' => f # "is_active"
               PROVE  Tells(trail'[u], born'[u][f], f, rows[u][f])
    BY <1>4, <1>25 DEF TrailTells
  <2>1. q.view = users
    BY <1>26
  <2>2. users[u].known => Tells(trail[u], born[u][f], f, users[u][f])
    BY <1>6 DEF UsersInv, TrailTells
  <2>3. CASE u \notin DOMAIN q.new
    <3>1. mine(u) = {} /\ u \notin made
      BY <1>12, <1>20, <2>3
    <3> QED BY <1>7, <1>14, <1>22, <2>2, <2>3, <3>1
  <2>4. CASE u \in made
    <3>1. mine(u) = {} /\ ~users[u].known
      BY <1>3, <1>20, <2>4
    <3>2. trail'[u] = <<>>
      BY <1>22, <3>1 DEF UsersInv, RowsStay
    <3>3. born'[u] = rows[u]
      BY <1>7, <2>4
    <3> QED BY <3>2, <3>3, TellsNothing
  <2>5. CASE u \in DOMAIN q.new /\ u \notin made
    <3>1. born'[u] = born[u] /\ users[u].known /\ rows[u] = q.new[u]
      BY <1>7, <1>13, <2>1, <2>5
    <3>2. Tells(trail[u], born[u][f], f, users[u][f])
      BY <2>2, <3>1
    <3>3. CASE mine(u) = {}
      <4>1. rows[u][f] = users[u][f]
        <5>1. CASE LogsNothing(q)
          <6>1. rows[u].mobile = users[u].mobile /\ rows[u].role = users[u].role /\ q.logged = {}
            BY <2>1, <2>5, <3>1, <5>1 DEF LogsNothing
          <6>2. u \in Known(users) \cap DOMAIN q.new
            BY <2>5, <3>1 DEF Known
          <6>3. f = "is_active" => rows[u].is_active = users[u].is_active
            BY <1>6, <6>1, <6>2
          <6> QED BY <6>1, <6>3 DEF Fields
        <5>2. CASE \E w \in UserId : LogsOf(q, w)
          <6>1. PICK w \in UserId : LogsOf(q, w)
            BY <5>2
          <6>2. u = w /\ q.logged = {<<u, g, q.view[u][g], q.new[u][g]>> : g \in Differing(q.view[u], q.new[u])}
            BY <2>5, <6>1 DEF LogsOf
          <6>3. Differing(q.view[u], q.new[u]) = {}
            <7>1. \A g \in Differing(q.view[u], q.new[u]) : <<u, g, q.view[u][g], q.new[u][g]>> \in mine(u)
              BY <6>2 DEF mine
            <7> QED BY <3>3, <7>1
          <6> QED BY <2>1, <3>1, <6>3 DEF Differing
        <5> QED BY <1>9, <5>1, <5>2
      <4> QED BY <1>22, <3>1, <3>2, <3>3, <4>1
    <3>4. CASE mine(u) # {}
      <4>1. /\ trail'[u] = Append(trail[u], group(u)) /\ group(u) \in LogGroups /\ trail[u] \in Seq(LogGroups)
            /\ \A l, m \in group(u).of : l.field = m.field => l = m
        BY <1>21, <1>22, <1>30, <3>4
      <4>2. group(u).of = {[field |-> g, old |-> users[u][g], new |-> rows[u][g]] : g \in Differing(users[u], rows[u])}
        BY <1>20, <2>1, <3>1, <3>4
      <4>3. \A l \in group(u).of : l.field = f => l.old = users[u][f] /\ l.new = rows[u][f]
        BY <4>2
      <4>4. (~\E l \in group(u).of : l.field = f) => rows[u][f] = users[u][f]
        <5> SUFFICES ASSUME rows[u][f] # users[u][f] PROVE \E l \in group(u).of : l.field = f
          OBVIOUS
        <5>1. f \in Differing(users[u], rows[u])
          BY DEF Differing
        <5>2. [field |-> f, old |-> users[u][f], new |-> rows[u][f]] \in group(u).of
          BY <4>2, <5>1
        <5>3. [field |-> f, old |-> users[u][f], new |-> rows[u][f]].field = f
          OBVIOUS
        <5> QED BY <5>2, <5>3
      <4>5. Tells(Append(trail[u], group(u)), born[u][f], f, rows[u][f])
        BY <3>2, <4>1, <4>3, <4>4, TellsMore
      <4> QED BY <3>1, <4>1, <4>5
    <3> QED BY <3>3, <3>4
  <2> QED BY <2>3, <2>4, <2>5
<1> QED BY <1>4, <1>23, <1>24, <1>27, <1>28, <1>29, <1>31, <1>32 DEF UsersInv, UserListCurrent

LEMMA UsersNextInv == UsersInv /\ [UsersNext]_userVars => UsersInv'
<1> SUFFICES ASSUME UsersInv, [UsersNext]_userVars PROVE UsersInv'
  OBVIOUS
<1>1. CASE UNCHANGED userVars
  <2>1. UNCHANGED <<users, trail, userList, administering, changes, listShown, crossings, unlogged, outgrown, born>>
    BY <1>1 DEF userVars
  <2>2. UsersShaped' /\ RowsStay' /\ UserListCurrent'
    BY <2>1 DEF UsersInv, UsersShaped, RowsStay, UserListCurrent
  <2>3. OneAtATime' /\ ListFresh'
    BY <2>1 DEF UsersInv, OneAtATime, ListFresh, ListOf, Present, Known
  <2>4. QuotaCounted'
    <3>1. Within' = Within /\ Makers' = Makers
      BY <2>1 DEF Within, Makers, Counted, Present, Known
    <3> QED BY <2>1, <3>1, QuotaStays DEF UsersInv
  <2>5. LogsSingle' /\ TrailTells'
    BY <2>1, TrailStays
  <2> QED BY <2>2, <2>3, <2>4, <2>5 DEF UsersInv
<1>2. ASSUME NEW r \in Administering, OpenRequest(r) \/ Commit(r) \/ Fail(r) \/ ListUsers(r) \/ KeepUsers(r)
      PROVE  UsersInv'
  BY <1>2, OpenRequestInv, CommitInv, FailInv, ListUsersInv, KeepUsersInv
<1>3. ASSUME NEW r \in Administering, NEW m \in Mobile, NEW s \in Staff, CreateUser(r, m, s) PROVE UsersInv'
  BY <1>3, CreateUserInv
<1>4. ASSUME NEW r \in Administering, NEW u \in UserId, DeleteUser(r, u) \/ RestoreUser(r, u) PROVE UsersInv'
  BY <1>4, DeleteUserInv
<1>5. ASSUME NEW r \in Administering, NEW u \in UserId, NEW m \in Mobile, NEW s \in Staff, NEW active \in BOOLEAN,
             UpdateUser(r, u, m, s, active)
      PROVE  UsersInv'
  BY <1>5, UpdateUserInv
<1>6. ASSUME NEW r \in Administering, NEW s \in Staff, NEW active \in BOOLEAN, UpdateRoleStatus(r, s, active)
      PROVE  UsersInv'
  BY <1>6, UpdateRoleStatusInv
<1> QED BY <1>1, <1>2, <1>3, <1>4, <1>5, <1>6 DEF UsersNext

\* No more users are active than the plan allows but for the ones restored or made active
\* again, overlapping requests exceeding it by one each at most; the audit trail of each
\* field leads from the user as created to the user as it is; and the cached list of
\* users answered is current, but for what raises no version (app/api/user.py).
THEOREM UsersStandAlways == UsersSpec => [](UserQuotaHeld /\ TrailReplays /\ UserListCurrent /\ UserViewsAgree)
<1>1. UsersInv => UserQuotaHeld /\ TrailReplays /\ UserListCurrent /\ UserViewsAgree
  BY UsersInvHolds
<1> QED BY <1>1, UsersInitInv, UsersNextInv, PTL DEF UsersSpec

-----------------------------------------------------------------------------
(* Roles and permissions. *)

Snapshots == [phase : {"open"}, row : [RoleName -> Nat], mine : [RoleName -> SUBSET Permission],
              at : Nat]
\* A request's view is the tables as they were when as many requests had written; a
\* role without a row has no permissions of its own.
SlotsSee ==
    /\ ruling \in [Ruling -> {Nobody} \cup Snapshots]
    /\ \A s \in Ruling : ruling[s].phase = "open" =>
          /\ ruling[s].at <= rules
          /\ ruling[s].at = rules => (ruling[s].row = companyRole /\ ruling[s].mine = own)
RolesInv ==
    /\ RolesTypeOK /\ SlotsSee /\ LogShowsRole
    /\ \A r \in RoleName : companyRole[r] = 0 => own[r] = {}

LEMMA RoleNames ==
    /\ Custom \subseteq RoleName /\ Admin \in RoleName /\ Admin \notin Custom /\ Admin \notin BuiltIn
    /\ BuiltIn \cap Custom = {} /\ \A p \in Person : RoleOf[p] \in RoleName
    /\ MaxRules \in Nat
    /\ \A codes \in Payload : codes \subseteq Permission
    /\ \A c \in Code : ModuleOf[c] \notin Code /\ ModuleOf[c] # Anything
    /\ Anything \notin Code
<1>1. \A codes \in Payload : codes \subseteq Permission
  <2> TAKE codes \in Payload
  <2>1. codes \subseteq UNION Payload
    OBVIOUS
  <2> QED BY <2>1, RoleAssumption DEF Permission, Modules
<1> QED BY <1>1, RoleAssumption DEF RoleName, Admin

\* Spelling out what covers much, and taking away what is revoked, leaves what was
\* covered and is not revoked.
LEMMA ExpandedCovers ==
    ASSUME NEW held, NEW revoked, NEW codes, held \cap revoked = {}, NEW c \in codes \cap Code
    PROVE  HasPermission(Expanded(held, revoked, codes), c) <=> c \notin revoked /\ Covered(held, c)
<1> DEFINE touched == {ModuleOf[d] : d \in revoked \cap Code}
           all == IF Anything \in held THEN codes \cap Code ELSE {}
           single == {d \in codes \cap Code : ModuleOf[d] \in touched \cap held}
           E == ((held \cup all \cup single) \ ({Anything} \cup touched)) \ revoked
<1>1. CASE revoked = {}
  <2>1. Expanded(held, revoked, codes) = held
    BY <1>1 DEF Expanded
  <2> QED BY <1>1, <2>1 DEF HasPermission, Covered
<1>2. CASE revoked # {}
  <2>1. Expanded(held, revoked, codes) = E
    BY <1>2 DEF Expanded
  <2>2. c # Anything /\ c \notin touched /\ ModuleOf[c] \notin all /\ ModuleOf[c] \notin single
        /\ ModuleOf[c] # Anything
    BY RoleNames
  <2>3. c \in revoked => ModuleOf[c] \in touched
    OBVIOUS
  <2>4. Anything \notin E
    OBVIOUS
  <2>5. Anything \in held => c \in all
    OBVIOUS
  <2>6. c \in E <=> c \notin revoked /\ (c \in held \/ c \in all \/ c \in single)
    <3> HIDE DEF touched, all, single
    <3> QED BY <2>2
  <2>7. ModuleOf[c] \in E <=> ModuleOf[c] \in held /\ ModuleOf[c] \notin touched
    <3> HIDE DEF touched, all, single
    <3> QED BY <2>2
  <2>8. c \in all => Anything \in held
    OBVIOUS
  <2>9. c \in single <=> ModuleOf[c] \in touched /\ ModuleOf[c] \in held
    OBVIOUS
  <2> HIDE DEF E, touched, all, single
  <2> QED BY <2>1, <2>3, <2>4, <2>5, <2>6, <2>7, <2>8, <2>9 DEF HasPermission, Covered
<1> QED BY <1>1, <1>2

LEMMA EffectiveCovers == RolesTypeOK => EffectiveIsCoverage
<1> SUFFICES ASSUME RolesTypeOK, NEW p \in Person, NEW c \in catalogue \cap Code
             PROVE  LET o == overrides[p]
                        given == RoleGives(RoleOf[p]) \cup (IF RoleOf[p] = Admin THEN {} ELSE o.granted) IN
                    HasPermission(Effective(p), c) <=> c \notin o.revoked /\ Covered(given \ o.revoked, c)
  BY DEF EffectiveIsCoverage
<1> DEFINE o == overrides[p]
           role == RoleGives(RoleOf[p])
<1>1. CASE RoleOf[p] = Admin
  <2> DEFINE modules == {ModuleOf[d] : d \in o.revoked \cap Code}
  <2>1. Effective(p) = (role \ o.revoked) \ modules /\ role = catalogue \ {Anything}
    BY <1>1 DEF Effective, RoleGives
  <2>2. c \in role /\ c # Anything /\ ModuleOf[c] # Anything /\ Anything \notin role
    BY <2>1, RoleNames
  <2>3. c \notin modules /\ (c \in o.revoked => ModuleOf[c] \in modules)
    BY RoleNames
  <2> HIDE DEF modules, role, o
  <2>4. HasPermission(Effective(p), c) <=> c \notin o.revoked
    BY <2>1, <2>2, <2>3 DEF HasPermission
  <2>5. c \notin o.revoked => Covered((role \cup {}) \ o.revoked, c)
    BY <2>2 DEF Covered
  <2> QED BY <1>1, <2>4, <2>5 DEF role, o
<1>2. CASE RoleOf[p] # Admin
  <2> DEFINE given == role \cup o.granted
  <2>1. Effective(p) = Expanded(given \ o.revoked, o.revoked, catalogue)
    BY <1>2 DEF Effective
  <2>2. (given \ o.revoked) \cap o.revoked = {}
    OBVIOUS
  <2> HIDE DEF given, o
  <2>3. HasPermission(Effective(p), c) <=> c \notin o.revoked /\ Covered(given \ o.revoked, c)
    BY <2>1, <2>2, ExpandedCovers
  <2> QED BY <1>2, <2>3 DEF given, o
<1> QED BY <1>1, <1>2

LEMMA ListedEffective == RolesInv => ListedIsEffective
<1> SUFFICES ASSUME RolesInv, NEW p \in Person,
                    overrides[p].granted \cup overrides[p].revoked = {}
             PROVE  LET r == RoleOf[p] IN
                    /\ ListedNow(r) \subseteq Effective(p)
                    /\ r \notin Custom \/ companyRole[r] = 0 \/ shared[r] = {} => ListedNow(r) = Effective(p)
  BY DEF ListedIsEffective
<1> DEFINE r == RoleOf[p]
<1>0. overrides[p].granted = {} /\ overrides[p].revoked = {}
  OBVIOUS
<1>1. r \in RoleName /\ r \in BuiltIn \cup Custom \cup {Admin}
  BY RoleNames DEF RoleName
<1>2. CASE r = Admin
  <2>1. Effective(p) = catalogue \ {Anything}
    BY <1>0, <1>2 DEF Effective, RoleGives
  <2>2. ListedNow(r) = catalogue \ {Anything}
    BY <1>2 DEF ListedNow, Listed
  <2> QED BY <2>1, <2>2
<1>3. CASE r # Admin
  <2>1. Effective(p) = RoleGives(r)
    BY <1>0, <1>3 DEF Effective, Expanded
  <2>2. RoleGives(r) = (IF companyRole[r] # 0 THEN own[r] ELSE {}) \cup (IF r \in Custom THEN shared[r] ELSE {})
    BY <1>3 DEF RoleGives
  <2>3. ListedNow(r) = IF companyRole[r] # 0 THEN own[r] ELSE IF r \in BuiltIn THEN {} ELSE shared[r]
    BY <1>3 DEF ListedNow, Listed
  <2>4. r \in BuiltIn => r \notin Custom
    BY RoleNames
  <2> QED BY <1>1, <1>3, <2>1, <2>2, <2>3, <2>4
<1> QED BY <1>2, <1>3

LEMMA RolesInvHolds == RolesInv => RolesTypeOK /\ RolesStand
BY EffectiveCovers, ListedEffective DEF RolesInv, RolesStand

LEMMA RolesInitInv == RolesInit => RolesInv
<1> SUFFICES ASSUME RolesInit PROVE RolesInv
  OBVIOUS
<1> USE DEF RolesInit
<1>1. RolesTypeOK
  BY RoleNames DEF RolesTypeOK
<1>2. SlotsSee
  BY DEF SlotsSee, Nobody
<1>4. LogShowsRole
  <2> SUFFICES ASSUME NEW r \in RoleName
               PROVE  /\ companyRole[r] # 0 /\ r # Admin => logged[r] = ListedNow(r)
                      /\ r \in Custom /\ (\E p \in Person : RoleOf[p] = r) => companyRole[r] # 0
    BY DEF LogShowsRole
  <2>1. companyRole[r] # 0 /\ r # Admin => logged[r] = ListedNow(r)
    BY DEF ListedNow, Listed
  <2> QED BY <2>1
<1>5. \A r \in RoleName : own[r] = {}
  OBVIOUS
<1> QED BY <1>1, <1>2, <1>4, <1>5 DEF RolesInv

-----------------------------------------------------------------------------
\* Who has not written by now sees an older state of the tables than the next one.
LEMMA SlotsAfterWrite ==
    ASSUME RolesInv, NEW s \in Ruling, RequestEnds(s)
    PROVE  /\ SlotsSee' /\ rules' \in 0..MaxRules /\ rules' = rules + 1
           /\ rules \in 0..MaxRules /\ rules + 2 \in 0..(MaxRules + 1)
           /\ ruling[s] \in Snapshots
           /\ ruling[s].at = rules => (ruling[s].row = companyRole /\ ruling[s].mine = own)
<1>1. /\ ruling[s].phase = "open" /\ rules < MaxRules /\ rules' = rules + 1
      /\ ruling' = [ruling EXCEPT ![s] = Nobody]
  BY DEF RequestEnds
<1>2. rules \in 0..MaxRules /\ MaxRules \in Nat
  BY RoleNames DEF RolesInv, RolesTypeOK
<1>3. rules' \in 0..MaxRules /\ rules + 2 \in 0..(MaxRules + 1)
  BY <1>1, <1>2
<1>4. ruling \in [Ruling -> {Nobody} \cup Snapshots]
  BY DEF RolesInv, SlotsSee
<1>5. ruling[s] \in Snapshots
  BY <1>1, <1>4 DEF Nobody
<1>6. ruling' \in [Ruling -> {Nobody} \cup Snapshots]
  BY <1>1, <1>4
<1>7. ASSUME NEW o \in Ruling, ruling'[o].phase = "open"
      PROVE  ruling'[o].at <= rules' /\ ruling'[o].at # rules'
  <2>1. ruling'[o] = ruling[o] /\ ruling[o].phase = "open"
    BY <1>1, <1>4, <1>7 DEF Nobody
  <2>2. ruling[o].at \in Nat /\ ruling[o].at <= rules
    BY <1>4, <2>1 DEF RolesInv, SlotsSee, Nobody, Snapshots
  <2> QED BY <1>1, <1>2, <2>1, <2>2
<1>8. SlotsSee'
  BY <1>6, <1>7 DEF SlotsSee
<1> QED BY <1>1, <1>2, <1>3, <1>5, <1>8 DEF RolesInv, SlotsSee

\* A request changes one role's row, permissions and log.
LEMMA LogAfterWrite ==
    ASSUME RolesInv, NEW r0 \in RoleName, collided \subseteq collided',
           \A r \in RoleName : r # r0 =>
               companyRole'[r] = companyRole[r] /\ own'[r] = own[r] /\ logged'[r] = logged[r],
           r0 \notin collided' =>
               /\ (companyRole'[r0] # 0 /\ r0 # Admin) => logged'[r0] = own'[r0]
               /\ (r0 \in Custom /\ (\E p \in Person : RoleOf[p] = r0)) => companyRole'[r0] # 0
    PROVE  LogShowsRole'
<1> SUFFICES ASSUME NEW r \in RoleName \ collided'
             PROVE  /\ companyRole'[r] # 0 /\ r # Admin => logged'[r] = ListedNow(r)'
                    /\ r \in Custom /\ (\E p \in Person : RoleOf[p] = r) => companyRole'[r] # 0
  BY DEF LogShowsRole
<1>1. companyRole'[r] # 0 /\ r # Admin => ListedNow(r)' = own'[r]
  BY DEF ListedNow, Listed
<1>2. companyRole[r] # 0 /\ r # Admin => ListedNow(r) = own[r]
  BY DEF ListedNow, Listed
<1>3. CASE r = r0
  BY <1>1, <1>3
<1>4. CASE r # r0
  <2>1. r \in RoleName \ collided
    OBVIOUS
  <2>2. /\ companyRole[r] # 0 /\ r # Admin => logged[r] = ListedNow(r)
        /\ r \in Custom /\ (\E p \in Person : RoleOf[p] = r) => companyRole[r] # 0
    BY <2>1 DEF RolesInv, LogShowsRole
  <2>3. companyRole'[r] = companyRole[r] /\ own'[r] = own[r] /\ logged'[r] = logged[r]
    BY <1>4
  <2> QED BY <1>1, <1>2, <2>2, <2>3
<1> QED BY <1>3, <1>4

LEMMA RuledAlone ==
    ASSUME RolesInv, NEW s \in Ruling, NEW roles1 \in SUBSET RoleName, Ruled(s, roles1)
    PROVE  /\ RequestEnds(s) /\ collided \subseteq collided' /\ collided' \subseteq RoleName
           /\ \A r \in roles1 : r \notin collided' => ruling[s].row = companyRole /\ ruling[s].mine = own
<1>1. RequestEnds(s) /\ collided' = IF ruling[s].at = rules THEN collided ELSE collided \cup roles1
  BY DEF Ruled
<1>2. ruling[s].at = rules => (ruling[s].row = companyRole /\ ruling[s].mine = own)
  BY <1>1, SlotsAfterWrite
<1> QED BY <1>1, <1>2 DEF RolesInv, RolesTypeOK

LEMMA RoleWrite ==
    ASSUME RolesInv, NEW s \in Ruling, NEW r \in RoleName, RequestEnds(s),
           collided \subseteq collided', collided' \subseteq RoleName,
           NEW n \in 0..(MaxRules + 1), NEW P \in SUBSET Permission, NEW L \in SUBSET Permission,
           companyRole' = [companyRole EXCEPT ![r] = n], own' = [own EXCEPT ![r] = P],
           logged' = [logged EXCEPT ![r] = L], UNCHANGED <<catalogue, systemRoles, shared, overrides>>,
           n = 0 => P = {},
           r \notin collided' =>
               /\ (n # 0 /\ r # Admin) => L = P
               /\ (r \in Custom /\ (\E p \in Person : RoleOf[p] = r)) => n # 0
    PROVE  RolesInv'
<1>1. SlotsSee' /\ rules' \in 0..MaxRules
  BY SlotsAfterWrite
<1>2. /\ companyRole \in [RoleName -> 0..(MaxRules + 1)] /\ own \in [RoleName -> SUBSET Permission]
      /\ logged \in [RoleName -> SUBSET Permission]
  BY DEF RolesInv, RolesTypeOK
<1>3. /\ companyRole'[r] = n /\ own'[r] = P /\ logged'[r] = L
      /\ \A q \in RoleName : q # r =>
             companyRole'[q] = companyRole[q] /\ own'[q] = own[q] /\ logged'[q] = logged[q]
  BY <1>2
<1>4. RolesTypeOK'
  <2>1. /\ companyRole' \in [RoleName -> 0..(MaxRules + 1)] /\ own' \in [RoleName -> SUBSET Permission]
        /\ logged' \in [RoleName -> SUBSET Permission]
    BY <1>2
  <2> QED BY <1>1, <2>1 DEF RolesInv, RolesTypeOK
<1>5. LogShowsRole'
  BY <1>3, LogAfterWrite
<1>6. \A q \in RoleName : companyRole'[q] = 0 => own'[q] = {}
  BY <1>3 DEF RolesInv
<1> QED BY <1>1, <1>4, <1>5, <1>6 DEF RolesInv

\* What is written keeps to the permissions there are.
LEMMA ViewTyped ==
    ASSUME RolesInv, NEW s \in Ruling, NEW r \in RoleName, RequestEnds(s)
    PROVE  /\ RowOf(s, r) \in Nat /\ Mine(s, r) \subseteq Permission
           /\ companyRole[r] \in 0..(MaxRules + 1) /\ own[r] \subseteq Permission
           /\ logged[r] \subseteq Permission
           /\ [own EXCEPT ![r] = own[r]] = own /\ [companyRole EXCEPT ![r] = companyRole[r]] = companyRole
           /\ [logged EXCEPT ![r] = logged[r]] = logged
           /\ catalogue \subseteq Permission /\ shared \in [RoleName -> SUBSET Permission]
<1>1. ruling[s] \in Snapshots
  BY SlotsAfterWrite
<1>2. ruling[s].row \in [RoleName -> Nat] /\ ruling[s].mine \in [RoleName -> SUBSET Permission]
  BY <1>1 DEF Snapshots
<1>3. RowOf(s, r) \in Nat /\ Mine(s, r) \subseteq Permission
  BY <1>2 DEF RowOf, Mine
<1>4. /\ companyRole \in [RoleName -> 0..(MaxRules + 1)] /\ own \in [RoleName -> SUBSET Permission]
      /\ logged \in [RoleName -> SUBSET Permission] /\ shared \in [RoleName -> SUBSET Permission]
      /\ catalogue \subseteq Permission
  BY DEF RolesInv, RolesTypeOK
<1> QED BY <1>3, <1>4

LEMMA CreateRoleInv ==
    ASSUME RolesInv, NEW s \in Ruling, NEW r \in Custom, CreateRole(s, r) PROVE RolesInv'
<1>1. /\ Ruled(s, {r}) /\ companyRole[r] = 0
      /\ companyRole' = [companyRole EXCEPT ![r] = rules + 2]
      /\ logged' = [logged EXCEPT ![r] = {}]
      /\ UNCHANGED <<catalogue, systemRoles, own, shared, overrides>>
  BY DEF CreateRole
<1>2. r \in RoleName
  BY RoleNames
<1>3. RequestEnds(s) /\ collided \subseteq collided' /\ collided' \subseteq RoleName
  BY <1>1, <1>2, RuledAlone
<1>4. own[r] = {} /\ own' = [own EXCEPT ![r] = {}]
  BY <1>1, <1>2, <1>3, ViewTyped DEF RolesInv
<1>5. rules + 2 \in 0..(MaxRules + 1) /\ rules + 2 # 0
  BY <1>3, SlotsAfterWrite
<1>6. {} \in SUBSET Permission
  OBVIOUS
<1> QED BY <1>1, <1>2, <1>3, <1>4, <1>5, <1>6, RoleWrite

\* What RowGone leaves.
LEMMA RowGoneWrites ==
    ASSUME RolesInv, NEW s \in Ruling, NEW r \in RoleName, RequestEnds(s), RowGone(s, r)
    PROVE  \E n \in 0..(MaxRules + 1), P \in SUBSET Permission :
              /\ companyRole' = [companyRole EXCEPT ![r] = n] /\ own' = [own EXCEPT ![r] = P]
              /\ n = 0 => P = {}
              /\ ruling[s].row = companyRole => n = 0
<1>1. CASE companyRole[r] = RowOf(s, r)
  <2>1. companyRole' = [companyRole EXCEPT ![r] = 0] /\ own' = [own EXCEPT ![r] = {}]
    BY <1>1 DEF RowGone
  <2>2. 0 \in 0..(MaxRules + 1) /\ {} \in SUBSET Permission
    BY RoleNames
  <2> QED BY <2>1, <2>2
<1>2. CASE companyRole[r] # RowOf(s, r)
  <2>1. companyRole' = companyRole /\ own' = own
    BY <1>2 DEF RowGone
  <2>2. ruling[s].row # companyRole
    BY <1>2 DEF RowOf
  <2>3. companyRole[r] = 0 => own[r] = {}
    BY DEF RolesInv
  <2> QED BY <2>1, <2>2, <2>3, ViewTyped
<1> QED BY <1>1, <1>2

LEMMA DeleteCustomRoleInv ==
    ASSUME RolesInv, NEW s \in Ruling, NEW r \in Custom, DeleteCustomRole(s, r) PROVE RolesInv'
<1>1. /\ Ruled(s, {r}) /\ ~Assigned(r) /\ RowGone(s, r)
      /\ UNCHANGED <<catalogue, systemRoles, shared, overrides, logged>>
  BY DEF DeleteCustomRole
<1>2. r \in RoleName
  BY RoleNames
<1>3. /\ RequestEnds(s) /\ collided \subseteq collided' /\ collided' \subseteq RoleName
      /\ r \notin collided' => ruling[s].row = companyRole
  BY <1>1, <1>2, RuledAlone
<1>4. PICK n \in 0..(MaxRules + 1), P \in SUBSET Permission :
              /\ companyRole' = [companyRole EXCEPT ![r] = n] /\ own' = [own EXCEPT ![r] = P]
              /\ n = 0 => P = {}
              /\ ruling[s].row = companyRole => n = 0
  BY <1>1, <1>2, <1>3, RowGoneWrites
<1>5. logged' = [logged EXCEPT ![r] = logged[r]] /\ logged[r] \in SUBSET Permission
  BY <1>1, <1>2, <1>3, ViewTyped
<1>6. r \notin collided' =>
        /\ (n # 0 /\ r # Admin) => logged[r] = P
        /\ (r \in Custom /\ (\E p \in Person : RoleOf[p] = r)) => n # 0
  BY <1>1, <1>3, <1>4 DEF Assigned
<1> QED BY <1>1, <1>2, <1>3, <1>4, <1>5, <1>6, RoleWrite

LEMMA ResetRoleDefaultsInv ==
    ASSUME RolesInv, NEW s \in Ruling, NEW r \in RoleName, ResetRoleDefaults(s, r) PROVE RolesInv'
<1>1. /\ RequestEnds(s) /\ collided' = collided \cup {r}
      /\ RowGone(s, r) \/ UNCHANGED <<companyRole, own>>
      /\ UNCHANGED <<catalogue, systemRoles, shared, overrides, logged>>
  BY DEF ResetRoleDefaults
<1>2. collided \subseteq collided' /\ collided' \subseteq RoleName /\ r \in collided'
  BY <1>1 DEF RolesInv, RolesTypeOK
<1>3. PICK n \in 0..(MaxRules + 1), P \in SUBSET Permission :
              /\ companyRole' = [companyRole EXCEPT ![r] = n] /\ own' = [own EXCEPT ![r] = P]
              /\ n = 0 => P = {}
  <2>1. CASE RowGone(s, r)
    BY <1>1, <2>1, RowGoneWrites
  <2>2. CASE UNCHANGED <<companyRole, own>>
    <3>1. companyRole[r] = 0 => own[r] = {}
      BY DEF RolesInv
    <3> QED BY <1>1, <2>2, <3>1, ViewTyped
  <2> QED BY <1>1, <2>1, <2>2
<1>4. logged' = [logged EXCEPT ![r] = logged[r]] /\ logged[r] \in SUBSET Permission
  BY <1>1, ViewTyped
<1> QED BY <1>1, <1>2, <1>3, <1>4, RoleWrite

\* _get_or_create_company_role in a request that writes the role's permissions.
LEMMA CompanyRoleWrites ==
    ASSUME RolesInv, NEW s \in Ruling, NEW r \in RoleName, NEW E, Ruled(s, {r}),
           CompanyRole(s, r, E # {})
    PROVE  \E n \in 0..(MaxRules + 1) :
              /\ companyRole' = [companyRole EXCEPT ![r] = n]
              /\ n = 0 => companyRole[r] = 0 /\ RowOf(s, r) # 0 /\ E = {}
              /\ n # 0 => RowOf(s, r) = 0 \/ n = companyRole[r]
              /\ RowOf(s, r) = 0 => own[r] = {}
              /\ r \notin collided' => /\ RowOf(s, r) = companyRole[r] /\ Same(s, r) /\ n # 0
                                       /\ Mine(s, r) = own[r]
<1>1. /\ RequestEnds(s)
      /\ r \notin collided' => ruling[s].row = companyRole /\ ruling[s].mine = own
  BY RuledAlone
<1>2. r \notin collided' => RowOf(s, r) = companyRole[r] /\ Same(s, r)
  BY <1>1 DEF RowOf, Same
<1>3. companyRole[r] = 0 => own[r] = {}
  BY DEF RolesInv
<1>4. r \notin collided' => Mine(s, r) = own[r]
  BY <1>1, <1>2, <1>3 DEF Mine
<1>5. CASE RowOf(s, r) # 0
  <2>1. companyRole' = companyRole /\ (E # {} => companyRole[r] = RowOf(s, r))
    BY <1>5 DEF CompanyRole
  <2> QED BY <1>1, <1>2, <1>4, <1>5, <2>1, ViewTyped DEF Same
<1>6. CASE RowOf(s, r) = 0
  <2>1. companyRole[r] = 0 /\ companyRole' = [companyRole EXCEPT ![r] = rules + 2]
    BY <1>6 DEF CompanyRole
  <2>2. rules + 2 \in 0..(MaxRules + 1) /\ rules + 2 # 0
    BY <1>1, SlotsAfterWrite
  <2> QED BY <1>2, <1>3, <1>4, <1>6, <2>1, <2>2
<1> QED BY <1>5, <1>6

\* The three routes that change a role's permissions: what they leave in the table and
\* in the log is one list, if the request saw the table as it was.
LEMMA RolePermissionsInv ==
    ASSUME RolesInv, NEW s \in Ruling, NEW r \in RoleName, NEW codes \in Payload,
           \/ AddRolePermissions(s, r, codes)
           \/ UpdateRolePermissions(s, r, codes)
           \/ DeleteRolePermissions(s, r, codes)
    PROVE  RolesInv'
<1>0. /\ Ruled(s, {r}) /\ codes \subseteq catalogue
      /\ UNCHANGED <<catalogue, systemRoles, shared, overrides>>
  BY DEF AddRolePermissions, UpdateRolePermissions, DeleteRolePermissions
<1>1. RequestEnds(s) /\ collided \subseteq collided' /\ collided' \subseteq RoleName
  BY <1>0, RuledAlone
<1>2. codes \subseteq Permission
  BY RoleNames
<1>3. \A mine : r # Admin => Listed(r, 1, mine, {}, catalogue) = mine
  BY DEF Listed
<1>4. \A mine \in SUBSET Permission : Listed(r, 1, mine, {}, catalogue) \in SUBSET Permission
  BY <1>1, ViewTyped DEF Listed
<1>5. CASE AddRolePermissions(s, r, codes)
  <2> DEFINE new == codes \ Mine(s, r)
             L == Listed(r, 1, Mine(s, r) \cup codes, {}, catalogue)
  <2>1. CompanyRole(s, r, new # {}) /\ own' = [own EXCEPT ![r] = own[r] \cup new]
        /\ logged' = [logged EXCEPT ![r] = L]
    BY <1>5 DEF AddRolePermissions, LogListed
  <2>2. PICK n \in 0..(MaxRules + 1) :
              /\ companyRole' = [companyRole EXCEPT ![r] = n]
              /\ n = 0 => companyRole[r] = 0 /\ RowOf(s, r) # 0 /\ new = {}
              /\ n # 0 => RowOf(s, r) = 0 \/ n = companyRole[r]
              /\ r \notin collided' => /\ RowOf(s, r) = companyRole[r] /\ Same(s, r) /\ n # 0
                                       /\ Mine(s, r) = own[r]
    BY SMTT(40), <1>0, <2>1, CompanyRoleWrites
  <2>3. own[r] \cup new \in SUBSET Permission /\ L \in SUBSET Permission
    BY <1>1, <1>2, <1>4, ViewTyped
  <2>4. n = 0 => own[r] \cup new = {}
    BY <2>2 DEF RolesInv
  <2>5. r \notin collided' => ((n # 0 /\ r # Admin) => L = own[r] \cup new) /\ n # 0
    BY <1>3, <2>2
  <2> HIDE DEF L, new
  <2> QED BY <1>0, <1>1, <2>1, <2>2, <2>3, <2>4, <2>5, RoleWrite
<1>6. CASE UpdateRolePermissions(s, r, codes)
  <2> DEFINE P == IF Same(s, r) THEN codes ELSE own[r]
             L == Listed(r, 1, codes, {}, catalogue)
  <2>1. CompanyRole(s, r, codes # {}) /\ own' = [own EXCEPT ![r] = P]
        /\ logged' = [logged EXCEPT ![r] = L]
    BY <1>1, <1>6, ViewTyped DEF UpdateRolePermissions, LogListed, Replaced
  <2>2. PICK n \in 0..(MaxRules + 1) :
              /\ companyRole' = [companyRole EXCEPT ![r] = n]
              /\ n = 0 => companyRole[r] = 0 /\ RowOf(s, r) # 0 /\ codes = {}
              /\ r \notin collided' => /\ RowOf(s, r) = companyRole[r] /\ Same(s, r) /\ n # 0
                                       /\ Mine(s, r) = own[r]
    BY <1>0, <2>1, CompanyRoleWrites
  <2>3. P \in SUBSET Permission /\ L \in SUBSET Permission
    BY <1>1, <1>2, <1>4, ViewTyped
  <2>4. n = 0 => P = {}
    BY <2>2 DEF RolesInv
  <2>5. r \notin collided' => ((n # 0 /\ r # Admin) => L = P) /\ n # 0
    BY <1>3, <2>2
  <2> HIDE DEF L, P
  <2> QED BY <1>0, <1>1, <2>1, <2>2, <2>3, <2>4, <2>5, RoleWrite
<1>7. CASE DeleteRolePermissions(s, r, codes)
  <2> DEFINE P == IF Same(s, r) THEN own[r] \ codes ELSE own[r]
             L == Listed(r, 1, Mine(s, r) \ codes, {}, catalogue)
  <2>1. CompanyRole(s, r, {} # {}) /\ own' = [own EXCEPT ![r] = P]
        /\ logged' = [logged EXCEPT ![r] = L]
    BY <1>1, <1>7, ViewTyped DEF DeleteRolePermissions, LogListed, CompanyRole
  <2>2. PICK n \in 0..(MaxRules + 1) :
              /\ companyRole' = [companyRole EXCEPT ![r] = n]
              /\ n = 0 => companyRole[r] = 0
              /\ r \notin collided' => /\ RowOf(s, r) = companyRole[r] /\ Same(s, r) /\ n # 0
                                       /\ Mine(s, r) = own[r]
    BY <1>0, <2>1, CompanyRoleWrites
  <2>3. P \in SUBSET Permission /\ L \in SUBSET Permission
    BY <1>1, <1>2, <1>4, ViewTyped
  <2>4. n = 0 => P = {}
    BY <2>2 DEF RolesInv
  <2>5. r \notin collided' => ((n # 0 /\ r # Admin) => L = P) /\ n # 0
    BY <1>3, <2>2
  <2> HIDE DEF L, P
  <2> QED BY <1>0, <1>1, <2>1, <2>2, <2>3, <2>4, <2>5, RoleWrite
<1> QED BY <1>5, <1>6, <1>7

\* What touches no role of the company.
LEMMA OtherRuleInv ==
    ASSUME RolesInv, NEW s \in Ruling, Ruled(s, {}), UNCHANGED <<companyRole, own, logged>>,
           catalogue' \subseteq Permission, systemRoles' \subseteq Custom,
           shared' \in [RoleName -> SUBSET Permission],
           overrides' \in [Person -> [granted : SUBSET Permission, revoked : SUBSET Permission]]
    PROVE  RolesInv'
<1>1. RequestEnds(s) /\ collided' = collided
  BY DEF Ruled
<1>2. SlotsSee' /\ rules' \in 0..MaxRules
  BY <1>1, SlotsAfterWrite
<1>3. RolesTypeOK'
  BY <1>1, <1>2 DEF RolesInv, RolesTypeOK
<1>4. LogShowsRole'
  <2>1. \A r \in RoleName : companyRole[r] # 0 /\ r # Admin => ListedNow(r) = own[r] /\ ListedNow(r)' = own'[r]
    BY DEF ListedNow, Listed
  <2> QED BY <1>1, <2>1 DEF RolesInv, LogShowsRole
<1> QED BY <1>2, <1>3, <1>4 DEF RolesInv

LEMMA RolesNextInv == RolesInv /\ [RolesNext]_roleVars => RolesInv'
<1> SUFFICES ASSUME RolesInv, [RolesNext]_roleVars PROVE RolesInv'
  OBVIOUS
<1>t. /\ catalogue \subseteq Permission /\ systemRoles \subseteq Custom
      /\ shared \in [RoleName -> SUBSET Permission]
      /\ overrides \in [Person -> [granted : SUBSET Permission, revoked : SUBSET Permission]]
  BY DEF RolesInv, RolesTypeOK
<1>1. ASSUME NEW s \in Ruling, OpenRule(s) PROVE RolesInv'
  <2>1. /\ ruling' = [ruling EXCEPT ![s] =
               [phase |-> "open", row |-> companyRole, mine |-> own, at |-> rules]]
        /\ UNCHANGED <<catalogue, companyRole, systemRoles, own, shared, overrides, logged, rules, collided>>
    BY <1>1 DEF OpenRule
  <2>2. [phase |-> "open", row |-> companyRole, mine |-> own, at |-> rules] \in Snapshots
    <3>1. companyRole \in [RoleName -> Nat] /\ own \in [RoleName -> SUBSET Permission] /\ rules \in Nat
      BY RoleNames DEF RolesInv, RolesTypeOK
    <3> QED BY <3>1 DEF Snapshots
  <2>3. rules \in Nat /\ ruling \in [Ruling -> {Nobody} \cup Snapshots]
    BY RoleNames DEF RolesInv, RolesTypeOK, SlotsSee
  <2>4. SlotsSee'
    BY <2>1, <2>2, <2>3 DEF RolesInv, SlotsSee
  <2>5. RolesTypeOK'
    BY <2>1 DEF RolesInv, RolesTypeOK
  <2>6. LogShowsRole'
    BY <2>1 DEF RolesInv, LogShowsRole, ListedNow, Listed
  <2> QED BY <2>1, <2>4, <2>5, <2>6 DEF RolesInv
<1>2. ASSUME NEW s \in Ruling, SeedPermissions(s) PROVE RolesInv'
  <2>1. /\ Ruled(s, {}) /\ catalogue' = Permission
        /\ UNCHANGED <<companyRole, systemRoles, own, shared, overrides, logged>>
    BY <1>2 DEF SeedPermissions
  <2> QED BY <1>t, <2>1, OtherRuleInv
<1>3. ASSUME NEW s \in Ruling, AssignDefaultRolePermissions(s) PROVE RolesInv'
  <2>1. /\ Ruled(s, {}) /\ shared' = [r \in RoleName |-> IF r = Admin THEN catalogue ELSE {}]
        /\ UNCHANGED <<catalogue, companyRole, systemRoles, own, overrides, logged>>
    BY <1>3 DEF AssignDefaultRolePermissions
  <2> QED BY <1>t, <2>1, OtherRuleInv
<1>4. ASSUME NEW s \in Ruling, NEW r \in Custom, CreateSystemRole(s, r) PROVE RolesInv'
  <2>1. /\ Ruled(s, {}) /\ systemRoles' = systemRoles \cup {r}
        /\ UNCHANGED <<catalogue, companyRole, own, shared, overrides, logged>>
    BY <1>4 DEF CreateSystemRole
  <2> QED BY <1>t, <2>1, OtherRuleInv
<1>5. ASSUME NEW s \in Ruling, NEW r \in RoleName, NEW codes \in Payload,
             ShareRolePermissions(s, r, codes)
      PROVE  RolesInv'
  <2>1. /\ Ruled(s, {}) /\ codes \subseteq Permission
        /\ shared' \in {[shared EXCEPT ![r] = @ \cup codes], [shared EXCEPT ![r] = codes],
                        [shared EXCEPT ![r] = @ \ codes]}
        /\ UNCHANGED <<catalogue, companyRole, systemRoles, own, overrides, logged>>
    BY <1>5, RoleNames DEF ShareRolePermissions
  <2>2. shared' \in [RoleName -> SUBSET Permission]
    <3>1. shared[r] \cup codes \in SUBSET Permission /\ shared[r] \ codes \in SUBSET Permission
      BY <1>t, <2>1
    <3> QED BY <1>t, <2>1, <3>1
  <2> QED BY <1>t, <2>1, <2>2, OtherRuleInv
<1>6. ASSUME NEW s \in Ruling, NEW p \in Person, NEW more, NEW fewer,
             UpdateUserPermissionOverrides(s, p, more, fewer)
      PROVE  RolesInv'
  <2>1. /\ Ruled(s, {})
        /\ overrides' = [overrides EXCEPT ![p] =
               [granted |-> more \cap catalogue, revoked |-> fewer \cap catalogue]]
        /\ UNCHANGED <<catalogue, companyRole, systemRoles, own, shared, logged>>
    BY <1>6 DEF UpdateUserPermissionOverrides
  <2>2. [granted |-> more \cap catalogue, revoked |-> fewer \cap catalogue]
           \in [granted : SUBSET Permission, revoked : SUBSET Permission]
    BY <1>t
  <2>3. overrides' \in [Person -> [granted : SUBSET Permission, revoked : SUBSET Permission]]
    BY <1>t, <2>1, <2>2
  <2> QED BY <1>t, <2>1, <2>3, OtherRuleInv
<1>7. ASSUME NEW s \in Ruling, NEW r \in Custom, CreateRole(s, r) \/ DeleteCustomRole(s, r)
      PROVE  RolesInv'
  BY <1>7, CreateRoleInv, DeleteCustomRoleInv
<1>8. ASSUME NEW s \in Ruling, NEW r \in RoleName, ResetRoleDefaults(s, r) PROVE RolesInv'
  BY <1>8, ResetRoleDefaultsInv
<1>9. ASSUME NEW s \in Ruling, NEW r \in RoleName, NEW codes \in Payload,
             \/ AddRolePermissions(s, r, codes) \/ UpdateRolePermissions(s, r, codes)
             \/ DeleteRolePermissions(s, r, codes)
      PROVE  RolesInv'
  BY <1>9, RolePermissionsInv
<1>10. CASE UNCHANGED roleVars
  <2>1. UNCHANGED <<catalogue, companyRole, systemRoles, own, shared, overrides, logged, ruling, rules, collided>>
    BY <1>10 DEF roleVars
  <2>2. RolesTypeOK'
    BY <2>1 DEF RolesInv, RolesTypeOK
  <2>3. SlotsSee'
    BY <2>1 DEF RolesInv, SlotsSee
  <2>4. LogShowsRole'
    BY <2>1 DEF RolesInv, LogShowsRole, ListedNow, Listed
  <2> QED BY <2>1, <2>2, <2>3, <2>4 DEF RolesInv
<1> QED BY <1>1, <1>2, <1>3, <1>4, <1>5, <1>6, <1>7, <1>8, <1>9, <1>10 DEF RolesNext

\* What a user may do is what the role and the grants cover and is not revoked, for any
\* catalogue and any overrides; the list and the log of a role tell it
\* (get_effective_user_permissions, record_rbac_audit).
THEOREM RolesStandAlways == RolesSpec => []RolesStand
<1>1. RolesSpec => []RolesInv
  BY RolesInitInv, RolesNextInv, PTL DEF RolesSpec
<1>2. RolesInv => RolesStand
  BY RolesInvHolds
<1> QED BY <1>1, <1>2, PTL

-----------------------------------------------------------------------------
(* Who is in a chat. *)

\* Rows of members, and their marks, are there while the chat is; a request decided on
\* the rows as they are leaves it with an administrator.
GroupsInv ==
    /\ GroupsTypeOK
    /\ creator = NoChatter => \A u \in Chatter : roles[u] = "none"
    /\ \A u \in Chatter : u \in pinners => roles[u] # "none"
    /\ ~mixed => /\ creator # NoChatter => \E u \in Chatter : roles[u] = "ADMIN"
                 /\ creator # NoChatter /\ ~unguarded => roles[creator] # "none"
                 /\ privates <= 1

LEMMA GroupsInvHolds == GroupsInv => GroupsTypeOK /\ GroupsAreRun
<1> SUFFICES ASSUME GroupsInv PROVE GroupsTypeOK /\ GroupsAreRun
  OBVIOUS
<1>1. \A u \in Chatter : roles[u] # "none" => creator # NoChatter
  BY DEF GroupsInv
<1>2. MemberCount > 0 => creator # NoChatter
  <2> SUFFICES ASSUME creator = NoChatter PROVE ~(MemberCount > 0)
    OBVIOUS
  <2>1. MembersListed = {}
    BY <1>1 DEF MembersListed
  <2> QED BY <2>1, FS_EmptySet DEF MemberCount
<1>3. \A u \in Chatter : InChatList(u) \/ InPinnedChats(u) => creator # NoChatter /\ roles[u] # "none"
  BY <1>1 DEF GroupsInv, InChatList, InPinnedChats, MembersListed
<1> QED BY <1>2, <1>3 DEF GroupsInv, GroupsAreRun

LEMMA GroupsInitInv == GroupsInit => GroupsInv
<1> SUFFICES ASSUME GroupsInit PROVE GroupsInv
  OBVIOUS
<1> USE DEF GroupsInit
<1>1. \A u \in Chatter : roles[u] = "none"
  OBVIOUS
<1>2. roles \in [Chatter -> Roles] /\ 0 \in 0..MaxPrivate /\ 0 <= 1
  BY ChatGroupsAssumption DEF Roles
<1>3. GroupsTypeOK
  BY <1>2 DEF GroupsTypeOK
<1>4. pinners = {} /\ creator = NoChatter /\ privates <= 1
  BY <1>2
<1> QED BY <1>1, <1>3, <1>4 DEF GroupsInv

\* Members who stay keep their pins, and nobody else has one.
LEMMA MarksStay ==
    ASSUME GroupsInv, NEW new, SetRoles(new)
    PROVE  \A u \in Chatter : u \in pinners' => roles'[u] # "none"
BY DEF SetRoles, GroupsInv

\* One request, whatever view it was decided on.
LEMMA MemberRequestInv ==
    ASSUME GroupsInv, NEW view, MemberRequest(view) PROVE GroupsInv'
<1> USE DEF GroupsInv
<1>t. /\ creator \in Chatter \cup {NoChatter} /\ roles \in [Chatter -> Roles] /\ NoChatter \notin Chatter
      /\ privates \in 0..MaxPrivate /\ unguarded \in BOOLEAN /\ mixed \in BOOLEAN
      /\ MaxPrivate \in Nat
  BY ChatGroupsAssumption DEF GroupsTypeOK
\* Either the view is the group as it is, or the history says so.
<1>v. mixed' = (mixed \/ view # Room)
  BY DEF MemberRequest, CreatePrivateChat, AddMembers, RemoveMembers, RemoveMember, KickMember,
         TransferAdmin, LeaveGroup, LeaveLast, Mixing
<1>r. view = Room => view.creator = creator /\ view.roles = roles /\ view.privates = privates
  BY DEF Room
<1>1. CASE CreatePrivateChat(view)
  <2>1. view.privates = 0 /\ privates < MaxPrivate /\ privates' = privates + 1
        /\ UNCHANGED <<creator, roles, hidden, pinners, unguarded>>
    BY <1>1 DEF CreatePrivateChat
  <2>2. privates' \in 0..MaxPrivate /\ (~mixed' => privates' <= 1)
    <3>1. privates' \in 0..MaxPrivate
      BY <1>t, <2>1
    <3>2. ~mixed' => privates = 0
      BY <1>v, <1>r, <2>1
    <3>3. privates = 0 => privates' <= 1
      BY <2>1
    <3> QED BY <3>1, <3>2, <3>3
  <2> QED BY <1>t, <1>v, <2>1, <2>2 DEF GroupsTypeOK
<1>2. ASSUME NEW u \in Chatter, NEW members \in SUBSET Chatter, AddMembers(u, members, view)
      PROVE  GroupsInv'
  <2> DEFINE new == members \ MembersIn(view)
  <2>1. /\ creator # NoChatter /\ new \cap MembersIn(Room) = {}
        /\ SetRoles([v \in Chatter |-> IF v \in new THEN "MEMBER" ELSE roles[v]])
        /\ UNCHANGED <<creator, privates, unguarded>>
    BY <1>2 DEF AddMembers
  <2>2. roles' = [v \in Chatter |-> IF v \in new THEN "MEMBER" ELSE roles[v]]
    BY <2>1 DEF SetRoles
  <2>3. \A v \in Chatter : roles[v] # "none" => roles'[v] = roles[v]
    BY <2>1, <2>2 DEF MembersIn, Room
  <2>4. roles' \in [Chatter -> Roles] /\ \A v \in Chatter : roles[v] # "none" => roles'[v] # "none"
    BY <1>t, <2>2 DEF Roles
  <2>5. \A v \in Chatter : v \in pinners' => roles'[v] # "none"
    BY <2>1, MarksStay
  <2>6. (\E v \in Chatter : roles[v] = "ADMIN") => \E v \in Chatter : roles'[v] = "ADMIN"
    BY <2>3
  <2> QED BY <1>t, <1>v, <2>1, <2>4, <2>5, <2>6 DEF GroupsTypeOK
<1>3. ASSUME NEW u \in Chatter, NEW members \in SUBSET Chatter, RemoveMembers(u, members, view)
      PROVE  GroupsInv'
  <2> DEFINE departed == (members \cap MembersIn(view)) \ AdminsIn(view)
  <2>1. /\ view.creator # NoChatter /\ view.roles[u] = "ADMIN"
        /\ SetRoles([v \in Chatter |-> IF v \in departed THEN "none" ELSE roles[v]])
        /\ unguarded' = (unguarded \/ view.creator \in departed)
        /\ UNCHANGED <<creator, privates>>
    BY <1>3 DEF RemoveMembers, ValidateAdmin
  <2>2. roles' = [v \in Chatter |-> IF v \in departed THEN "none" ELSE roles[v]]
    BY <2>1 DEF SetRoles
  <2>3. roles' \in [Chatter -> Roles] /\ \A v \in Chatter : roles[v] = "none" => roles'[v] = "none"
    BY <1>t, <2>2 DEF Roles
  <2>4. \A v \in Chatter : v \in pinners' => roles'[v] # "none"
    BY <2>1, MarksStay
  <2>5. view = Room => roles'[u] = "ADMIN"
    BY <1>r, <2>1, <2>2 DEF AdminsIn
  <2>6. view = Room /\ ~unguarded' /\ creator # NoChatter => roles'[creator] = roles[creator] /\ ~unguarded
    BY <1>t, <1>r, <2>1, <2>2
  <2>7. unguarded' \in BOOLEAN
    BY <1>t, <2>1
  <2> QED BY <1>t, <1>v, <2>1, <2>3, <2>4, <2>5, <2>6, <2>7 DEF GroupsTypeOK
<1>4. ASSUME NEW u \in Chatter, NEW v \in Chatter, KickMember(u, v, view) PROVE GroupsInv'
  <2>1. /\ view.creator # NoChatter /\ view.roles[u] = "ADMIN"
        /\ v # view.creator /\ SparesLastAdmin(v, view)
        /\ SetRoles([roles EXCEPT ![v] = "none"])
        /\ UNCHANGED <<creator, privates, unguarded>>
    BY <1>4 DEF KickMember, ValidateAdmin
  <2>2. roles' = [roles EXCEPT ![v] = "none"]
    BY <2>1 DEF SetRoles
  <2>3. roles' \in [Chatter -> Roles] /\ \A w \in Chatter : roles[w] = "none" => roles'[w] = "none"
    BY <1>t, <2>2 DEF Roles
  <2>4. \A w \in Chatter : w \in pinners' => roles'[w] # "none"
    BY <2>1, MarksStay
  <2>5. view = Room => \E w \in Chatter : roles'[w] = "ADMIN"
    <3> SUFFICES ASSUME view = Room PROVE \E w \in Chatter : roles'[w] = "ADMIN"
      OBVIOUS
    <3>1. CASE u # v
      BY <1>t, <1>r, <2>1, <2>2, <3>1
    <3>2. CASE u = v
      <4>1. Cardinality(AdminsIn(view)) # 1
        BY <2>1, <3>2 DEF SparesLastAdmin
      <4>2. AdminsIn(view) # {u} /\ u \in AdminsIn(view)
        BY <2>1, <4>1, FS_Singleton DEF AdminsIn
      <4>3. PICK w \in Chatter : w # u /\ roles[w] = "ADMIN"
        BY <1>r, <4>2 DEF AdminsIn
      <4> QED BY <1>t, <2>2, <3>2, <4>3
    <3> QED BY <3>1, <3>2
  <2>6. view = Room /\ creator # NoChatter => roles'[creator] = roles[creator]
    BY <1>t, <1>r, <2>1, <2>2
  <2> QED BY <1>t, <1>v, <2>1, <2>3, <2>4, <2>5, <2>6 DEF GroupsTypeOK
<1>5. ASSUME NEW u \in Chatter, NEW v \in Chatter, TransferAdmin(u, v, view) PROVE GroupsInv'
  <2>1. /\ v # u /\ roles[u] # "none" /\ roles[v] # "none"
        /\ SetRoles([roles EXCEPT ![u] = "MEMBER",
                                  ![v] = IF view.roles[v] = "ADMIN" THEN @ ELSE "ADMIN"])
        /\ UNCHANGED <<creator, privates, unguarded>>
    BY <1>5 DEF TransferAdmin
  <2>2. roles' = [roles EXCEPT ![u] = "MEMBER",
                               ![v] = IF view.roles[v] = "ADMIN" THEN @ ELSE "ADMIN"]
    BY <2>1 DEF SetRoles
  <2>3. /\ roles'[u] = "MEMBER" /\ roles'[v] = (IF view.roles[v] = "ADMIN" THEN roles[v] ELSE "ADMIN")
        /\ \A w \in Chatter : w # u /\ w # v => roles'[w] = roles[w]
    BY <1>t, <2>1, <2>2
  <2>4. roles' \in [Chatter -> Roles]
    <3>1. roles[v] \in Roles
      BY <1>t
    <3> QED BY <1>t, <2>1, <2>2, <3>1 DEF Roles
  <2>5. \A w \in Chatter : roles[w] # "none" <=> roles'[w] # "none"
    BY <2>1, <2>3
  <2>6. \A w \in Chatter : w \in pinners' => roles'[w] # "none"
    BY <2>1, MarksStay
  <2>7. view = Room => roles'[v] = "ADMIN"
    BY <1>r, <2>3
  <2> QED BY <1>t, <1>v, <2>1, <2>4, <2>5, <2>6, <2>7 DEF GroupsTypeOK
<1>6. ASSUME NEW u \in Chatter, LeaveGroup(u, view) PROVE GroupsInv'
  <2>0. PICK new : SetRoles(new) /\
            \/ Successors(u, view) = {} /\ new = [roles EXCEPT ![u] = "none"]
            \/ \E v \in Successors(u, view) :
                  roles[v] # "none" /\ new = [roles EXCEPT ![u] = "none", ![v] = "ADMIN"]
    BY <1>6 DEF LeaveGroup
  <2>1. /\ MembersIn(view) # {u} /\ view.roles[u] # "none"
        /\ unguarded' = (unguarded \/ u = view.creator)
        /\ UNCHANGED <<creator, privates>> /\ roles' = new
    BY <1>6, <2>0 DEF LeaveGroup, SetRoles
  <2>2. \A v \in Successors(u, view) : v \in Chatter /\ v # u
    BY DEF Successors, MembersIn
  <2>3. roles' \in [Chatter -> Roles]
    BY <1>t, <2>0, <2>1, <2>2 DEF Roles
  <2>4. \A w \in Chatter : roles[w] = "none" => roles'[w] = "none"
    BY <1>t, <2>0, <2>1, <2>2
  <2>5. \A w \in Chatter : w # u /\ roles[w] # "none" => roles'[w] # "none"
    BY <1>t, <2>0, <2>1, <2>2
  <2>6. \A w \in Chatter : w # u /\ roles[w] = "ADMIN" => roles'[w] = "ADMIN"
    BY <1>t, <2>0, <2>1, <2>2
  <2>7. \A w \in Chatter : w \in pinners' => roles'[w] # "none"
    BY <2>0, MarksStay
  <2>8. view = Room /\ (\E w \in Chatter : roles[w] = "ADMIN") => \E w \in Chatter : roles'[w] = "ADMIN"
    <3> SUFFICES ASSUME view = Room, NEW a \in Chatter, roles[a] = "ADMIN"
                 PROVE  \E w \in Chatter : roles'[w] = "ADMIN"
      OBVIOUS
    <3>1. CASE AdminsIn(view) = {u}
      <4>1. u \in MembersIn(view)
        BY <2>1 DEF MembersIn
      <4>2. Successors(u, view) # {}
        BY <2>1, <3>1, <4>1 DEF Successors
      <4>3. PICK v \in Successors(u, view) : roles' = [roles EXCEPT ![u] = "none", ![v] = "ADMIN"]
        BY <2>0, <2>1, <4>2
      <4> QED BY <1>t, <2>2, <4>3
    <3>2. CASE AdminsIn(view) # {u}
      <4>1. a \in AdminsIn(view)
        BY <1>r DEF AdminsIn
      <4>2. PICK w \in AdminsIn(view) : w # u
        BY <3>2, <4>1
      <4>3. w \in Chatter /\ roles[w] = "ADMIN"
        BY <1>r DEF AdminsIn
      <4> QED BY <2>6, <4>2, <4>3
    <3> QED BY <3>1, <3>2
  <2>9. unguarded' \in BOOLEAN
    BY <1>t, <2>1
  <2>10. view = Room /\ ~unguarded' /\ creator # NoChatter => creator # u /\ ~unguarded /\ creator \in Chatter
    BY <1>t, <1>r, <2>1
  <2>11. GroupsTypeOK'
    BY <1>t, <1>v, <2>1, <2>3, <2>9 DEF GroupsTypeOK
  <2>12. ~mixed' => /\ creator' # NoChatter => \E w \in Chatter : roles'[w] = "ADMIN"
                    /\ creator' # NoChatter /\ ~unguarded' => roles'[creator'] # "none"
                    /\ privates' <= 1
    BY <1>v, <2>1, <2>5, <2>8, <2>10
  <2> QED BY <2>1, <2>4, <2>7, <2>11, <2>12
<1>7. ASSUME NEW u \in Chatter, LeaveLast(u, view) PROVE GroupsInv'
  <2>1. /\ creator' = NoChatter /\ SetRoles([v \in Chatter |-> "none"])
        /\ unguarded' = (unguarded \/ u = view.creator) /\ UNCHANGED privates
    BY <1>7 DEF LeaveLast
  <2>2. roles' = [v \in Chatter |-> "none"]
    BY <2>1 DEF SetRoles
  <2>3. \A v \in Chatter : v \in pinners' => roles'[v] # "none"
    BY <2>1, MarksStay
  <2>4. roles' \in [Chatter -> Roles] /\ unguarded' \in BOOLEAN
    BY <1>t, <2>1, <2>2 DEF Roles
  <2> QED BY <1>t, <1>v, <2>1, <2>2, <2>3, <2>4 DEF GroupsTypeOK
<1>8. ASSUME NEW u \in Chatter, NEW v \in Chatter, RemoveMember(u, v, view) PROVE GroupsInv'
  BY <1>4, <1>8 DEF RemoveMember
<1> QED BY <1>1, <1>2, <1>3, <1>4, <1>5, <1>6, <1>7, <1>8 DEF MemberRequest

LEMMA GroupsNextInv == GroupsInv /\ [GroupsNext]_groupVars => GroupsInv'
<1> SUFFICES ASSUME GroupsInv, [GroupsNext]_groupVars PROVE GroupsInv'
  OBVIOUS
<1>1. ASSUME NEW view, MemberRequest(view) PROVE GroupsInv'
  BY <1>1, MemberRequestInv
<1>2. ASSUME NEW u \in Chatter, NEW members \in SUBSET Chatter, CreateGroup(u, members) PROVE GroupsInv'
  <2> DEFINE new == [v \in Chatter |->
                        IF v = u THEN "ADMIN" ELSE IF v \in members THEN "MEMBER" ELSE "none"]
  <2>1. creator' = u /\ SetRoles(new) /\ unguarded' = FALSE /\ UNCHANGED <<privates, mixed>>
    BY <1>2 DEF CreateGroup
  <2>2. roles' = new
    BY <2>1 DEF SetRoles
  <2>3. roles' \in [Chatter -> Roles] /\ roles'[u] = "ADMIN"
    BY <2>2 DEF Roles
  <2>4. \A v \in Chatter : v \in pinners' => roles'[v] # "none"
    BY <2>1, MarksStay
  <2>5. u # NoChatter
    BY ChatGroupsAssumption
  <2> HIDE DEF new
  <2> QED BY <2>1, <2>3, <2>4, <2>5 DEF GroupsInv, GroupsTypeOK
<1>3. ASSUME NEW u \in Marking, DeleteChat(u) \/ RestoreChat(u) \/ PinChat(u) \/ UnpinChat(u)
      PROVE  GroupsInv'
  <2>1. UNCHANGED <<creator, roles, privates, unguarded, mixed>>
        /\ \A v \in pinners' : v \in pinners \/ roles[v] # "none"
    BY <1>3 DEF DeleteChat, RestoreChat, PinChat, UnpinChat
  <2> QED BY <2>1 DEF GroupsInv, GroupsTypeOK
<1>4. ASSUME NEW r \in Talking, BeginTalk(r) PROVE GroupsInv'
  BY <1>4 DEF BeginTalk, GroupsInv, GroupsTypeOK
<1>5. ASSUME NEW r \in Talking, CommitTalk(r) PROVE GroupsInv'
  BY <1>1, <1>5 DEF CommitTalk
<1>6. CASE UNCHANGED groupVars
  BY <1>6 DEF groupVars, GroupsInv, GroupsTypeOK
<1> QED BY <1>1, <1>2, <1>3, <1>4, <1>5, <1>6 DEF GroupsNext

\* A group has an administrator, and two people one chat, unless a request was decided
\* on rows that changed meanwhile; and chats are listed to their members
\* (remove_member, leave_group, create_private_chat).
THEOREM GroupsAreRunAlways == GroupsSpec => []GroupsAreRun
<1>1. GroupsSpec => []GroupsInv
  BY GroupsInitInv, GroupsNextInv, PTL DEF GroupsSpec
<1>2. GroupsInv => GroupsAreRun
  BY GroupsInvHolds
<1> QED BY <1>1, <1>2, PTL

-----------------------------------------------------------------------------
(* The messages of a chat. *)

\* Rows of message_reads and message_deliveries are of messages there are, and of one
\* mind; a sender has read what he sent, and is delivered nothing.
LedgersAgree ==
    /\ \A x \in seen : x[1] \in MessageIds
    /\ \A m \in Ids, u \in Writer : m \notin MessageIds => delivered[<<m, u>>] = "none"
    /\ \A m \in MessageIds : <<m, messages[m].sender>> \in seen /\ delivered[<<m, messages[m].sender>>] # "read"
    /\ \A m \in MessageIds, u \in Writer :
          u # messages[m].sender => (delivered[<<m, u>>] = "read" <=> <<m, u>> \in seen)
TextsStand ==
    \A m \in MessageIds :
        /\ messages[m].parent < m /\ messages[m].sender \notin messages[m].mentions
        /\ \/ m \in moved \/ messages[m].text \/ messages[m].deleted
           \/ \E f \in Attached : files[f] # NoFile /\ files[f].message = m
ChatTyped ==
    /\ messages \in Seq(MessageRow) /\ Len(messages) <= MaxMessages
    /\ seen \subseteq Ids \X Writer /\ reacted \subseteq Ids \X Writer
    /\ delivered \in [Ids \X Writer -> DeliveryStatus]
    /\ files \in [Attached -> {NoFile} \cup FileRow]
ChatCore == ChatTyped /\ LedgersAgree /\ TextsStand

\* What an earlier view of the chat showed is there, though not as it was.
Earlier(view) ==
    /\ view.messages \in Seq(MessageRow) /\ Len(view.messages) <= Len(messages)
    /\ \A m \in DOMAIN view.messages : view.messages[m].sender = messages[m].sender
    /\ view.seen \subseteq seen
    /\ \A f \in Attached : /\ view.files[f] \in {NoFile} \cup FileRow
                           /\ view.files[f] # NoFile => files[f] # NoFile
SlotsEarlier ==
    /\ posting = [r \in Posting2 |-> posting[r]]
    /\ \A r \in Posting2 : posting[r] = <<>> \/ (posting[r] # <<>> /\ Earlier(posting[r][1]))
\* Requests in progress that found room for a pin.
MayPin == {r \in Posting2 : posting[r] # <<>> /\ Pinnable(posting[r][1])}
PinsCounted == Cardinality(Pinned(Posted)) + Cardinality(MayPin) <= MaxPins + Cardinality(Posting2)
ChatInv == ChatCore /\ SlotsEarlier /\ PinsCounted

LEMMA ChatNumbers ==
    /\ MaxMessages \in Nat /\ MaxPins \in Nat /\ MaxPins > 0 /\ IsFiniteSet(Posting2)
    /\ Cardinality(Posting2) \in Nat
BY ChatMessagesAssumption, FS_CardinalityType

LEMMA ChatRows ==
    ASSUME ChatCore
    PROVE  /\ Len(messages) \in Nat /\ MessageIds = 1..Len(messages) /\ MessageIds \subseteq Ids
           /\ Len(messages) + 1 \notin MessageIds
           /\ \A m \in MessageIds : messages[m] \in MessageRow
<1>1. messages \in Seq(MessageRow) /\ Len(messages) <= MaxMessages
  BY DEF ChatCore, ChatTyped
<1>2. Len(messages) \in Nat /\ DOMAIN messages = 1..Len(messages)
  BY <1>1
<1>3. \A m \in 1..Len(messages) : messages[m] \in MessageRow
  BY <1>1, ElementOfSeq
<1> QED BY <1>1, <1>2, <1>3, ChatNumbers DEF MessageIds, Ids

LEMMA PinnedCounted ==
    ASSUME NEW view, view.messages \in Seq(MessageRow)
    PROVE  IsFiniteSet(Pinned(view)) /\ Cardinality(Pinned(view)) \in Nat
<1>1. Len(view.messages) \in Nat /\ DOMAIN view.messages = 1..Len(view.messages)
  OBVIOUS
<1>2. IsFiniteSet(1..Len(view.messages))
  BY <1>1, FS_Interval
<1>3. Pinned(view) \subseteq 1..Len(view.messages)
  BY <1>1 DEF Pinned
<1> QED BY <1>2, <1>3, FS_Subset, FS_CardinalityType

LEMMA MayPinCounted ==
    /\ IsFiniteSet(MayPin) /\ Cardinality(MayPin) \in Nat
    /\ Cardinality(MayPin) <= Cardinality(Posting2)
<1>1. MayPin \subseteq Posting2
  BY DEF MayPin
<1> QED BY <1>1, ChatNumbers, FS_Subset, FS_CardinalityType

LEMMA ChatInvHolds == ChatInv => MessagesTypeOK /\ ReadsAgree /\ MessagesStand
<1> SUFFICES ASSUME ChatInv PROVE MessagesTypeOK /\ ReadsAgree /\ MessagesStand
  OBVIOUS
<1> USE DEF ChatInv
<1>1. /\ MessageIds = 1..Len(messages) /\ Len(messages) \in Nat /\ MessageIds \subseteq Ids
      /\ \A m \in MessageIds : messages[m] \in MessageRow
  BY ChatRows
<1>2. MessagesTypeOK
  BY <1>1 DEF ChatCore, ChatTyped, MessagesTypeOK
<1>3. ReadsAgree
  <2> SUFFICES ASSUME NEW m \in MessageIds
               PROVE  /\ \A u \in Writer : u # messages[m].sender =>
                             (delivered[<<m, u>>] = "read" <=> u \in ReadBy(m))
                      /\ IsRead(m) <=> ReadBy(m) # {messages[m].sender}
                      /\ (\A u \in Writer : u # messages[m].sender => m \notin Unread(u)) /\ ~messages[m].deleted
                             => IsDelivered(m) \/ Writer = {messages[m].sender}
    BY DEF ReadsAgree
  <2>1. messages[m].sender \in Writer
    BY <1>1 DEF MessageRow
  <2>2. /\ <<m, messages[m].sender>> \in seen /\ delivered[<<m, messages[m].sender>>] # "read"
        /\ \A u \in Writer : u # messages[m].sender => (delivered[<<m, u>>] = "read" <=> <<m, u>> \in seen)
    BY DEF ChatCore, LedgersAgree
  <2>3. messages[m].sender \in ReadBy(m) /\ ReadBy(m) \subseteq Writer
    BY <2>1, <2>2 DEF ReadBy
  <2>4. \A u \in Writer : u # messages[m].sender => (delivered[<<m, u>>] = "read" <=> u \in ReadBy(m))
    BY <2>2 DEF ReadBy
  <2>5. IsRead(m) <=> ReadBy(m) # {messages[m].sender}
    <3>1. ASSUME IsRead(m) PROVE ReadBy(m) # {messages[m].sender}
      <4>1. PICK u \in Writer : delivered[<<m, u>>] = "read"
        BY <3>1 DEF IsRead
      <4>2. u # messages[m].sender
        BY <2>2, <4>1
      <4> QED BY <2>4, <4>1, <4>2
    <3>2. ASSUME ReadBy(m) # {messages[m].sender} PROVE IsRead(m)
      <4>1. PICK u \in Writer : u \in ReadBy(m) /\ u # messages[m].sender
        BY <2>3, <3>2
      <4> QED BY <2>4, <4>1 DEF IsRead
    <3> QED BY <3>1, <3>2
  <2>6. ASSUME \A u \in Writer : u # messages[m].sender => m \notin Unread(u), ~messages[m].deleted,
               Writer # {messages[m].sender}
        PROVE  IsDelivered(m)
    <3>1. PICK u \in Writer : u # messages[m].sender
      BY <2>1, <2>6
    <3>2. <<m, u>> \in seen
      BY <2>6, <3>1 DEF Unread
    <3>3. delivered[<<m, u>>] = "read"
      BY <2>2, <3>1, <3>2
    <3> QED BY <3>1, <3>3 DEF IsDelivered
  <2> QED BY <2>4, <2>5, <2>6
<1>4. MessagesStand
  <2>1. Cardinality(Pinned(Posted)) <= MaxPins + Cardinality(Posting2)
    <3>1. Cardinality(Pinned(Posted)) \in Nat
      BY PinnedCounted DEF Posted, ChatCore, ChatTyped
    <3> QED BY <3>1, MayPinCounted, ChatNumbers DEF PinsCounted
  <2>2. \A m \in MessageIds \ moved :
          ShownText(m) \/ messages[m].deleted \/ \E f \in Attached : files[f] # NoFile /\ files[f].message = m
    BY DEF ChatCore, TextsStand, ShownText
  <2>3. \A m \in MessageIds : \A n \in Replies(m) : n > m
    <3> TAKE m \in MessageIds
    <3> TAKE n \in Replies(m)
    <3>1. n \in MessageIds /\ messages[n].parent = m
      BY DEF Replies
    <3>2. m < n
      BY <3>1 DEF ChatCore, TextsStand
    <3> QED BY <1>1, <3>1, <3>2
  <2>4. \A u \in Writer : \A m \in Mentions(u) : u # messages[m].sender
    BY DEF ChatCore, TextsStand, Mentions
  <2> QED BY <2>1, <2>2, <2>3, <2>4 DEF MessagesStand
<1> QED BY <1>2, <1>3, <1>4

LEMMA MessagesInitInv == MessagesInit => ChatInv
<1> SUFFICES ASSUME MessagesInit PROVE ChatInv
  OBVIOUS
<1> USE DEF MessagesInit
<1>1. messages = <<>> /\ MessageIds = {} /\ Len(messages) = 0 /\ messages \in Seq(MessageRow)
  BY EmptySeq DEF MessageIds
<1>2. delivered \in [Ids \X Writer -> DeliveryStatus]
  BY DEF DeliveryStatus
<1>3. ChatTyped
  BY <1>1, <1>2, ChatNumbers DEF ChatTyped
<1>4. \A m \in Ids, u \in Writer : delivered[<<m, u>>] = "none"
  OBVIOUS
<1>5. LedgersAgree /\ TextsStand
  BY <1>1, <1>4 DEF LedgersAgree, TextsStand
<1>6. SlotsEarlier
  BY DEF SlotsEarlier
<1>7. Pinned(Posted) = {} /\ MayPin = {}
  BY <1>1 DEF Pinned, Posted, MayPin
<1>8. PinsCounted
  BY <1>7, ChatNumbers, FS_EmptySet DEF PinsCounted
<1> QED BY <1>3, <1>5, <1>6, <1>8 DEF ChatInv, ChatCore

\* What no request undoes: messages stay and keep their senders, who has read one has,
\* and an uploaded file stays.
ChatGrows ==
    /\ Len(messages) <= Len(messages')
    /\ \A m \in MessageIds : messages'[m].sender = messages[m].sender
    /\ seen \subseteq seen'
    /\ \A f \in Attached : files[f] # NoFile => files'[f] # NoFile

LEMMA EarlierStays == ASSUME ChatCore, NEW view, Earlier(view), ChatGrows, Len(messages') \in Nat
                      PROVE  Earlier(view)'
<1>1. Len(messages) \in Nat /\ MessageIds = 1..Len(messages)
  BY ChatRows
<1>2. view.messages \in Seq(MessageRow) /\ Len(view.messages) <= Len(messages)
  BY DEF Earlier
<1>3. Len(view.messages) \in Nat /\ DOMAIN view.messages = 1..Len(view.messages)
  BY <1>2
<1>4. DOMAIN view.messages \subseteq MessageIds /\ Len(view.messages) <= Len(messages')
  BY <1>1, <1>2, <1>3 DEF ChatGrows
<1> QED BY <1>2, <1>4 DEF Earlier, ChatGrows

LEMMA EarlierIds == ASSUME ChatCore, NEW view, Earlier(view) PROVE DOMAIN view.messages \subseteq MessageIds
<1>1. Len(messages) \in Nat /\ MessageIds = 1..Len(messages)
  BY ChatRows
<1>2. view.messages \in Seq(MessageRow) /\ Len(view.messages) <= Len(messages)
  BY DEF Earlier
<1> QED BY <1>1, <1>2

LEMMA PostedEarlier == ChatCore => Earlier(Posted)
BY ChatRows DEF Earlier, Posted, ChatCore, ChatTyped, MessageIds

\* Changes to one message, its sender, parent and mentions apart.
LEMMA RowChanged ==
    ASSUME ChatCore, NEW m \in MessageIds, NEW row \in MessageRow,
           row.sender = messages[m].sender, row.parent = messages[m].parent,
           row.mentions = messages[m].mentions,
           messages[m].text => row.text, messages[m].deleted => row.deleted,
           messages' = [messages EXCEPT ![m] = row],
           UNCHANGED <<seen, delivered, reacted, files, moved>>
    PROVE  /\ ChatCore' /\ ChatGrows /\ messages'[m] = row
           /\ \A n \in MessageIds : n # m => messages'[n] = messages[n]
           /\ Pinned(Posted)' \subseteq Pinned(Posted) \cup {m}
           /\ ~row.pinned => Pinned(Posted)' \subseteq Pinned(Posted)
<1>1. /\ messages \in Seq(MessageRow) /\ Len(messages) <= MaxMessages /\ Len(messages) \in Nat
      /\ MessageIds = 1..Len(messages)
  BY ChatRows DEF ChatCore, ChatTyped
<1>2. /\ messages' \in Seq(MessageRow) /\ Len(messages') = Len(messages)
      /\ \A n \in 1..Len(messages) : messages'[n] = IF n = m THEN row ELSE messages[n]
  BY <1>1, ExceptSeq
<1>3. MessageIds' = MessageIds
  BY <1>1, <1>2 DEF MessageIds
<1>4. messages'[m] = row /\ \A n \in MessageIds : n # m => messages'[n] = messages[n]
  BY <1>1, <1>2
<1>5. \A n \in MessageIds : /\ messages'[n].sender = messages[n].sender
                            /\ messages'[n].parent = messages[n].parent
                            /\ messages'[n].mentions = messages[n].mentions
                            /\ messages[n].text => messages'[n].text
                            /\ messages[n].deleted => messages'[n].deleted
  BY <1>4
<1>6. ChatTyped'
  BY <1>1, <1>2 DEF ChatCore, ChatTyped
<1>7. LedgersAgree'
  BY <1>3, <1>5 DEF ChatCore, LedgersAgree
<1>8. TextsStand'
  BY <1>3, <1>5 DEF ChatCore, TextsStand
<1>9. ChatGrows
  BY <1>1, <1>2, <1>5 DEF ChatGrows
<1>10. Pinned(Posted) = {n \in MessageIds : messages[n].pinned}
       /\ Pinned(Posted)' = {n \in MessageIds : messages'[n].pinned}
  BY <1>3 DEF Pinned, Posted, MessageIds
<1> QED BY <1>4, <1>6, <1>7, <1>8, <1>9, <1>10 DEF ChatCore

\* A message sent or forwarded.
LEMMA NewRow ==
    ASSUME ChatCore, Len(messages) < MaxMessages,
           NEW u \in Writer, NEW text \in BOOLEAN, NEW parent \in 0..Len(messages),
           NEW mentions \in SUBSET Writer, u \notin mentions, NEW with \in SUBSET Attached,
           text \/ with # {},
           messages' = Append(messages, NewMessage(u, text, parent, mentions)),
           files' = [f \in Attached |->
                        IF f \in with THEN [files[f] EXCEPT !.message = Len(messages) + 1] ELSE files[f]],
           seen' = seen \cup {<<Len(messages) + 1, u>>}, UNCHANGED <<delivered, reacted>>,
           moved \subseteq moved',
           \A f \in with : files[f] # NoFile /\ (files[f].message = 0 \/ files[f].message \in moved')
    PROVE  ChatCore' /\ ChatGrows /\ Pinned(Posted)' \subseteq Pinned(Posted)
<1> DEFINE m == Len(messages) + 1
           row == NewMessage(u, text, parent, mentions)
<1>1. /\ messages \in Seq(MessageRow) /\ Len(messages) \in Nat /\ MaxMessages \in Nat
      /\ MessageIds = 1..Len(messages) /\ MessageIds \subseteq Ids /\ m \notin MessageIds
      /\ \A n \in MessageIds : messages[n] \in MessageRow
  BY ChatRows, ChatNumbers DEF ChatCore, ChatTyped
<1>2. /\ row \in MessageRow /\ row.sender = u /\ row.parent = parent /\ row.mentions = mentions
      /\ row.text = text /\ row.pinned = FALSE
  BY <1>1 DEF NewMessage, MessageRow
<1>3. messages' = Append(messages, row)
  OBVIOUS
<1>4. m \in Ids /\ m \in Nat /\ m > 0 /\ parent < m /\ m <= MaxMessages
  BY <1>1 DEF Ids
<1> HIDE DEF row
<1>5. /\ messages' \in Seq(MessageRow) /\ Len(messages') = m
      /\ messages'[m] = row
      /\ \A n \in MessageIds : messages'[n] = messages[n]
  <2>1. /\ Append(messages, row) \in Seq(MessageRow) /\ Len(Append(messages, row)) = Len(messages) + 1
        /\ \A i \in 1..Len(messages) : Append(messages, row)[i] = messages[i]
        /\ Append(messages, row)[Len(messages) + 1] = row
    BY <1>1, <1>2, AppendProperties
  <2> QED BY <1>1, <1>3, <2>1
<1>6. MessageIds' = MessageIds \cup {m}
  BY <1>1, <1>5 DEF MessageIds
<1>7. /\ files' \in [Attached -> {NoFile} \cup FileRow]
      /\ \A f \in Attached : files[f] # NoFile => files'[f] # NoFile
      /\ \A f \in with : files'[f] # NoFile /\ files'[f].message = m
      /\ \A f \in Attached \ with : files'[f] = files[f]
  <2>1. \A f \in Attached : files[f] \in {NoFile} \cup FileRow
    BY DEF ChatCore, ChatTyped
  <2>2. \A f \in Attached : f \notin with => files'[f] = files[f]
    OBVIOUS
  <2>3. ASSUME NEW f \in with
        PROVE  files'[f] \in FileRow /\ files'[f].message = m /\ files'[f] # NoFile
    <3>1. files[f] \in FileRow /\ files'[f] = [files[f] EXCEPT !.message = m]
      BY <2>1
    <3>2. files'[f] \in FileRow /\ files'[f].message = m
      BY <1>4, <3>1 DEF FileRow
    <3>3. NoFile.message = -1 /\ m # -1
      BY <1>4 DEF NoFile
    <3> QED BY <3>2, <3>3
  <2>4. \A f \in Attached : files'[f] \in {NoFile} \cup FileRow
    BY <2>1, <2>2, <2>3
  <2> QED BY <2>2, <2>3, <2>4
<1>8. ChatTyped'
  BY <1>1, <1>4, <1>5, <1>7 DEF ChatCore, ChatTyped
<1>9. LedgersAgree'
  <2>1. /\ \A x \in seen : x[1] \in MessageIds
        /\ \A n \in Ids, v \in Writer : n \notin MessageIds => delivered[<<n, v>>] = "none"
        /\ \A n \in MessageIds : /\ <<n, messages[n].sender>> \in seen
                                 /\ delivered[<<n, messages[n].sender>>] # "read"
        /\ \A n \in MessageIds, v \in Writer :
              v # messages[n].sender => (delivered[<<n, v>>] = "read" <=> <<n, v>> \in seen)
    BY DEF ChatCore, LedgersAgree
  <2>0. seen' = seen \cup {<<m, u>>} /\ delivered' = delivered
    OBVIOUS
  <2> HIDE DEF m
  <2>2. \A x \in seen' : x[1] \in MessageIds'
    BY <1>6, <2>0, <2>1
  <2>3. \A n \in Ids, v \in Writer : n \notin MessageIds' => delivered'[<<n, v>>] = "none"
    BY <1>6, <2>0, <2>1
  <2>4. <<m, u>> \in seen' /\ delivered'[<<m, u>>] # "read"
    <3>1. delivered[<<m, u>>] = "none"
      BY <1>1, <1>4, <2>1
    <3> QED BY <2>0, <3>1
  <2>5. \A n \in MessageIds' : <<n, messages'[n].sender>> \in seen' /\ delivered'[<<n, messages'[n].sender>>] # "read"
    <3>1. \A n \in MessageIds : /\ <<n, messages'[n].sender>> \in seen'
                                 /\ delivered'[<<n, messages'[n].sender>>] # "read"
      BY <1>5, <2>0, <2>1
    <3>2. <<m, messages'[m].sender>> \in seen' /\ delivered'[<<m, messages'[m].sender>>] # "read"
      BY <1>2, <1>5, <2>4
    <3> QED BY <1>6, <3>1, <3>2
  <2>6. \A v \in Writer : v # u => delivered'[<<m, v>>] # "read" /\ <<m, v>> \notin seen'
    BY <1>1, <1>4, <2>0, <2>1
  <2>7. \A n \in MessageIds, v \in Writer : <<n, v>> \in seen' <=> <<n, v>> \in seen
    <3>1. \A n \in MessageIds : n # m
      BY <1>1
    <3> QED BY <2>0, <3>1
  <2>8. \A n \in MessageIds', v \in Writer :
          v # messages'[n].sender => (delivered'[<<n, v>>] = "read" <=> <<n, v>> \in seen')
    <3>1. \A n \in MessageIds, v \in Writer :
             v # messages[n].sender => (delivered'[<<n, v>>] = "read" <=> <<n, v>> \in seen')
      BY <2>0, <2>1, <2>7
    <3>2. \A v \in Writer : v # u => (delivered'[<<m, v>>] = "read" <=> <<m, v>> \in seen')
      BY <2>6
    <3>3. messages'[m].sender = u /\ \A n \in MessageIds : messages'[n].sender = messages[n].sender
      BY <1>2, <1>5
    <3> QED BY <1>6, <3>1, <3>2, <3>3
  <2> QED BY <2>2, <2>3, <2>5, <2>8 DEF LedgersAgree
<1>10. TextsStand'
  <2>1. \A n \in MessageIds : messages[n].parent < n /\ messages[n].sender \notin messages[n].mentions
    BY DEF ChatCore, TextsStand
  <2>2. \A n \in MessageIds' : messages'[n].parent < n /\ messages'[n].sender \notin messages'[n].mentions
    BY <1>2, <1>4, <1>5, <1>6, <2>1
  <2>3. messages'[m].text \/ \E f \in Attached : files'[f] # NoFile /\ files'[f].message = m
    BY <1>2, <1>5, <1>7
  <2>4. ASSUME NEW n \in MessageIds
        PROVE  \/ n \in moved' \/ messages'[n].text \/ messages'[n].deleted
               \/ \E f \in Attached : files'[f] # NoFile /\ files'[f].message = n
    <3>1. \/ n \in moved \/ messages[n].text \/ messages[n].deleted
          \/ \E f \in Attached : files[f] # NoFile /\ files[f].message = n
      BY DEF ChatCore, TextsStand
    <3>2. ASSUME NEW f \in Attached, files[f] # NoFile, files[f].message = n
          PROVE  n \in moved' \/ \E g \in Attached : files'[g] # NoFile /\ files'[g].message = n
      <4>1. CASE f \in with
        <5>1. n # 0
          BY <1>1
        <5> QED BY <3>2, <4>1, <5>1
      <4>2. CASE f \notin with
        BY <1>7, <3>2, <4>2
      <4> QED BY <4>1, <4>2
    <3> QED BY <1>5, <3>1, <3>2
  <2> QED BY <1>6, <2>2, <2>3, <2>4 DEF TextsStand
<1>11. ChatGrows
  BY <1>1, <1>4, <1>5, <1>7 DEF ChatGrows
<1>12. Pinned(Posted) = {n \in MessageIds : messages[n].pinned}
       /\ Pinned(Posted)' = {n \in MessageIds' : messages'[n].pinned}
  BY DEF Pinned, Posted, MessageIds
<1>13. Pinned(Posted)' \subseteq Pinned(Posted)
  BY <1>2, <1>5, <1>6, <1>12
<1> QED BY <1>8, <1>9, <1>10, <1>11, <1>13 DEF ChatCore

LEMMA SendMessageKept ==
    ASSUME ChatCore, NEW u \in Writer, NEW text \in BOOLEAN, NEW parent \in 0..MaxMessages,
           NEW mentions \in SUBSET Writer, u \notin mentions, NEW with \in SUBSET Attached,
           NEW view, Earlier(view), SendMessage(u, text, parent, mentions, with, view)
    PROVE  ChatCore' /\ ChatGrows /\ Pinned(Posted)' \subseteq Pinned(Posted)
<1>1. /\ text \/ with # {}
      /\ parent \in {0} \cup DOMAIN view.messages
      /\ \A f \in with : view.files[f] = [owner |-> u, message |-> 0]
      /\ Len(messages) < MaxMessages
      /\ messages' = Append(messages, NewMessage(u, text, parent, mentions))
      /\ files' = [f \in Attached |->
                      IF f \in with THEN [files[f] EXCEPT !.message = Len(messages) + 1] ELSE files[f]]
      /\ seen' = seen \cup {<<Len(messages) + 1, u>>}
      /\ moved' = moved \cup {files[f].message : f \in {g \in with : files[g] # view.files[g]}}
      /\ UNCHANGED <<delivered, reacted>>
  BY DEF SendMessage, Attachable
<1>2. parent \in 0..Len(messages)
  <2>1. DOMAIN view.messages \subseteq MessageIds /\ MessageIds = 1..Len(messages) /\ Len(messages) \in Nat
    BY EarlierIds, ChatRows
  <2> QED BY <1>1, <2>1
<1>3. ASSUME NEW f \in with
      PROVE  files[f] # NoFile /\ (files[f].message = 0 \/ files[f].message \in moved')
  <2>1. view.files[f] = [owner |-> u, message |-> 0] /\ view.files[f].message = 0
    BY <1>1
  <2>2. NoFile.message = -1
    BY DEF NoFile
  <2>3. files[f] # NoFile
    BY <2>1, <2>2 DEF Earlier
  <2>4. CASE files[f] = view.files[f]
    BY <2>1, <2>3, <2>4
  <2>5. CASE files[f] # view.files[f]
    BY <1>1, <2>3, <2>5
  <2> QED BY <2>4, <2>5
<1>4. moved \subseteq moved'
  BY <1>1
<1> QED BY <1>1, <1>2, <1>3, <1>4, NewRow

LEMMA ForwardMessageKept ==
    ASSUME ChatCore, NEW u \in Writer, NEW m, NEW view, ForwardMessage(u, m, view)
    PROVE  ChatCore' /\ ChatGrows /\ Pinned(Posted)' \subseteq Pinned(Posted)
<1>1. /\ Len(messages) < MaxMessages
      /\ messages' = Append(messages, NewMessage(u, TRUE, 0, {}))
      /\ seen' = seen \cup {<<Len(messages) + 1, u>>}
      /\ UNCHANGED <<delivered, reacted, files, moved>>
  BY DEF ForwardMessage
<1>2. files' = [f \in Attached |->
                   IF f \in {} THEN [files[f] EXCEPT !.message = Len(messages) + 1] ELSE files[f]]
  BY <1>1 DEF ChatCore, ChatTyped
<1>3. 0 \in 0..Len(messages)
  BY ChatRows
<1>4. TRUE \in BOOLEAN /\ {} \in SUBSET Writer /\ {} \in SUBSET Attached /\ u \notin {} /\ moved \subseteq moved'
  BY <1>1
<1>5. \A f \in {} : files[f] # NoFile /\ (files[f].message = 0 \/ files[f].message \in moved')
  OBVIOUS
<1> QED BY <1>1, <1>2, <1>3, <1>4, <1>5, NewRow

LEMMA MarkDeliveredKept ==
    ASSUME ChatCore, NEW u \in Writer, NEW m, NEW view, Earlier(view), MarkDelivered(u, m, view)
    PROVE  ChatCore' /\ ChatGrows /\ Pinned(Posted)' \subseteq Pinned(Posted)
<1>1. /\ m \in DOMAIN view.messages /\ view.messages[m].sender # u
      /\ UNCHANGED <<messages, seen, reacted, files, moved>>
      /\ \/ delivered' = delivered
         \/ delivered[<<m, u>>] = "none" /\ delivered' = [delivered EXCEPT ![<<m, u>>] = "delivered"]
  BY DEF MarkDelivered
<1>2. m \in MessageIds /\ MessageIds \subseteq Ids /\ messages[m].sender # u
  BY <1>1, EarlierIds, ChatRows DEF Earlier
<1>3. /\ delivered' \in [Ids \X Writer -> DeliveryStatus]
      /\ \A n \in Ids, v \in Writer :
            /\ delivered'[<<n, v>>] = "read" <=> delivered[<<n, v>>] = "read"
            /\ n # m => delivered'[<<n, v>>] = delivered[<<n, v>>]
  <2>1. delivered \in [Ids \X Writer -> DeliveryStatus] /\ <<m, u>> \in Ids \X Writer
    BY <1>2 DEF ChatCore, ChatTyped
  <2>2. CASE delivered' = delivered
    BY <2>1, <2>2
  <2>3. CASE delivered[<<m, u>>] = "none" /\ delivered' = [delivered EXCEPT ![<<m, u>>] = "delivered"]
    <3>1. delivered' \in [Ids \X Writer -> DeliveryStatus]
      BY <2>1, <2>3 DEF DeliveryStatus
    <3>2. \A n \in Ids, v \in Writer : <<n, v>> # <<m, u>> => delivered'[<<n, v>>] = delivered[<<n, v>>]
      BY <2>1, <2>3
    <3>3. delivered'[<<m, u>>] = "delivered"
      BY <2>1, <2>3
    <3> QED BY <2>3, <3>1, <3>2, <3>3
  <2> QED BY <1>1, <2>2, <2>3
<1>4. MessageIds' = MessageIds /\ Pinned(Posted)' = Pinned(Posted)
  BY <1>1 DEF MessageIds, Pinned, Posted
<1>5. \A n \in MessageIds : messages[n].sender \in Writer
  BY ChatRows DEF MessageRow
<1>6. LedgersAgree'
  BY <1>1, <1>2, <1>3, <1>4, <1>5 DEF ChatCore, LedgersAgree
<1>7. ChatTyped' /\ TextsStand'
  BY <1>1, <1>3, <1>4 DEF ChatCore, ChatTyped, TextsStand
<1>8. ChatGrows
  BY <1>1, ChatRows DEF ChatGrows
<1> QED BY <1>4, <1>6, <1>7, <1>8 DEF ChatCore

LEMMA GetMessagesKept ==
    ASSUME ChatCore, NEW u \in Writer, NEW view, Earlier(view), GetMessages(u, view)
    PROVE  ChatCore' /\ ChatGrows /\ Pinned(Posted)' \subseteq Pinned(Posted)
<1> DEFINE shown == Marked(u, view)
<1>1. /\ delivered' = [x \in Ids \X Writer |-> IF x[2] = u /\ x[1] \in shown THEN "read" ELSE delivered[x]]
      /\ seen' = seen \cup ({m \in shown : <<m, u>> \notin view.seen} \X {u})
      /\ UNCHANGED <<messages, reacted, files, moved>>
  BY DEF GetMessages, Marked
<1>2. \A m \in shown : m \in MessageIds /\ messages[m].sender # u
  BY EarlierIds DEF Marked, FromOthers, Page, Earlier
<1>3. view.seen \subseteq seen
  BY DEF Earlier
<1> HIDE DEF shown
<1>4. /\ MessageIds \subseteq Ids /\ \A n \in MessageIds : messages[n].sender \in Writer
  BY ChatRows DEF MessageRow
<1>5. \A n \in Ids, v \in Writer :
         /\ v = u /\ n \in shown => delivered'[<<n, v>>] = "read" /\ <<n, v>> \in seen'
         /\ ~(v = u /\ n \in shown) => /\ delivered'[<<n, v>>] = delivered[<<n, v>>]
                                       /\ <<n, v>> \in seen' <=> <<n, v>> \in seen
  BY <1>1, <1>3
<1>6. MessageIds' = MessageIds /\ Pinned(Posted)' = Pinned(Posted)
  BY <1>1 DEF MessageIds, Pinned, Posted
<1>7. ChatTyped'
  <2>1. delivered \in [Ids \X Writer -> DeliveryStatus] /\ "read" \in DeliveryStatus
    BY DEF ChatCore, ChatTyped, DeliveryStatus
  <2>2. delivered' \in [Ids \X Writer -> DeliveryStatus]
    BY <1>1, <2>1
  <2>3. seen' \subseteq Ids \X Writer
    BY <1>1, <1>2, <1>4 DEF ChatCore, ChatTyped
  <2> QED BY <1>1, <2>2, <2>3 DEF ChatCore, ChatTyped
<1>8. LedgersAgree'
  <2>1. \A x \in seen' : x[1] \in MessageIds
    BY <1>1, <1>2 DEF ChatCore, LedgersAgree
  <2>2. \A n \in Ids, v \in Writer : n \notin MessageIds => delivered'[<<n, v>>] = "none"
    BY <1>2, <1>5 DEF ChatCore, LedgersAgree
  <2>3. \A n \in MessageIds : /\ <<n, messages[n].sender>> \in seen'
                              /\ delivered'[<<n, messages[n].sender>>] # "read"
    BY <1>1, <1>2, <1>4, <1>5 DEF ChatCore, LedgersAgree
  <2>4. \A n \in MessageIds, v \in Writer :
           v # messages[n].sender => (delivered'[<<n, v>>] = "read" <=> <<n, v>> \in seen')
    <3> SUFFICES ASSUME NEW n \in MessageIds, NEW v \in Writer, v # messages[n].sender
                 PROVE  delivered'[<<n, v>>] = "read" <=> <<n, v>> \in seen'
      OBVIOUS
    <3>1. n \in Ids /\ (delivered[<<n, v>>] = "read" <=> <<n, v>> \in seen)
      BY <1>4 DEF ChatCore, LedgersAgree
    <3>2. CASE v = u /\ n \in shown
      BY <1>5, <3>1, <3>2
    <3>3. CASE ~(v = u /\ n \in shown)
      BY <1>5, <3>1, <3>3
    <3> QED BY <3>2, <3>3
  <2>5. messages' = messages
    BY <1>1
  <2> QED BY <1>6, <2>1, <2>2, <2>3, <2>4, <2>5 DEF LedgersAgree
<1>9. TextsStand'
  BY <1>1, <1>6 DEF ChatCore, TextsStand
<1>10. ChatGrows
  BY <1>1, ChatRows DEF ChatGrows
<1> QED BY <1>6, <1>7, <1>8, <1>9, <1>10 DEF ChatCore

\* One request, whatever earlier view it was decided on: only a pin adds to the pinned.
LEMMA PostKept ==
    ASSUME ChatCore, NEW view, Earlier(view), Post(view)
    PROVE  /\ ChatCore' /\ ChatGrows
           /\ \/ Pinned(Posted)' \subseteq Pinned(Posted)
              \/ Pinnable(view) /\ \E m \in MessageIds : Pinned(Posted)' \subseteq Pinned(Posted) \cup {m}
<1>1. ASSUME NEW u \in Writer, NEW text \in BOOLEAN, NEW parent \in 0..MaxMessages,
             NEW with \in SUBSET Attached, SendMessage(u, text, parent, {}, with, view)
      PROVE  ChatCore' /\ ChatGrows /\ Pinned(Posted)' \subseteq Pinned(Posted)
  <2>1. {} \in SUBSET Writer /\ u \notin {}
    OBVIOUS
  <2> QED BY <1>1, <2>1, SendMessageKept
<1>2. ASSUME NEW u \in Writer, GetMessages(u, view)
      PROVE  ChatCore' /\ ChatGrows /\ Pinned(Posted)' \subseteq Pinned(Posted)
  BY <1>2, GetMessagesKept
<1>3. ASSUME NEW u \in Writer, NEW m \in Ids, MarkDelivered(u, m, view) \/ ForwardMessage(u, m, view)
      PROVE  ChatCore' /\ ChatGrows /\ Pinned(Posted)' \subseteq Pinned(Posted)
  BY <1>3, MarkDeliveredKept, ForwardMessageKept
<1>4. ASSUME NEW m \in Ids, PinMessage(m, view)
      PROVE  /\ ChatCore' /\ ChatGrows /\ m \in MessageIds
             /\ Pinnable(view) /\ Pinned(Posted)' \subseteq Pinned(Posted) \cup {m}
  <2> DEFINE row == [messages[m] EXCEPT !.pinned = TRUE]
  <2>1. /\ m \in DOMAIN view.messages /\ Pinnable(view)
        /\ messages' = [messages EXCEPT ![m].pinned = TRUE]
        /\ UNCHANGED <<seen, delivered, reacted, files, moved>>
    BY <1>4 DEF PinMessage
  <2>2. m \in MessageIds /\ messages[m] \in MessageRow
    BY <2>1, EarlierIds, ChatRows
  <2>3. messages' = [messages EXCEPT ![m] = row]
    BY <2>1
  <2>4. /\ row \in MessageRow /\ row.sender = messages[m].sender /\ row.parent = messages[m].parent
        /\ row.mentions = messages[m].mentions
        /\ row.text = messages[m].text /\ row.deleted = messages[m].deleted
    BY <2>2 DEF MessageRow
  <2>5. (messages[m].text => row.text) /\ (messages[m].deleted => row.deleted)
    BY <2>4, Zenon
  <2> HIDE DEF row
  <2> QED BY <2>1, <2>2, <2>3, <2>4, <2>5, RowChanged
<1> QED BY <1>1, <1>2, <1>3, <1>4 DEF Post

\* A request on the chat as it is that changes one message, or none.
LEMMA MessageEdited ==
    ASSUME ChatCore, NEW m \in Ids, Grow(m) \/ EditMessage(m) \/ DeleteMessage(m) \/ UnpinMessage(m)
    PROVE  ChatCore' /\ ChatGrows /\ Pinned(Posted)' \subseteq Pinned(Posted)
<1> DEFINE was == messages[m]
<1>1. m \in MessageIds /\ was \in MessageRow /\ UNCHANGED <<seen, delivered, reacted, files, moved>>
  BY ChatRows DEF Grow, EditMessage, DeleteMessage, UnpinMessage
<1>2. PICK row \in MessageRow :
         /\ messages' = [messages EXCEPT ![m] = row]
         /\ row.sender = was.sender /\ row.parent = was.parent /\ row.mentions = was.mentions
         /\ row.text = TRUE \/ row.text = was.text
         /\ row.deleted = TRUE \/ row.deleted = was.deleted
         /\ row.pinned = FALSE \/ row.pinned = was.pinned
  <2>1. CASE Grow(m)
    <3>1. messages' = [messages EXCEPT ![m] = [was EXCEPT !.age = IF @ = "new" THEN "15min" ELSE "60min"]]
      BY <1>1, <2>1 DEF Grow
    <3>2. [was EXCEPT !.age = IF @ = "new" THEN "15min" ELSE "60min"] \in MessageRow
      BY <1>1 DEF MessageRow
    <3> QED BY <1>1, <3>1, <3>2 DEF MessageRow
  <2>2. CASE EditMessage(m)
    <3>1. messages' = [messages EXCEPT ![m] = [was EXCEPT !.text = TRUE, !.edited = TRUE]]
      BY <1>1, <2>2 DEF EditMessage
    <3>2. [was EXCEPT !.text = TRUE, !.edited = TRUE] \in MessageRow
      BY <1>1 DEF MessageRow
    <3> QED BY <1>1, <3>1, <3>2 DEF MessageRow
  <2>3. CASE DeleteMessage(m)
    <3>1. messages' = [messages EXCEPT ![m] = [was EXCEPT !.deleted = TRUE]]
      BY <1>1, <2>3 DEF DeleteMessage
    <3>2. [was EXCEPT !.deleted = TRUE] \in MessageRow
      BY <1>1 DEF MessageRow
    <3> QED BY <1>1, <3>1, <3>2 DEF MessageRow
  <2>4. CASE UnpinMessage(m)
    <3>1. messages' = [messages EXCEPT ![m] = [was EXCEPT !.pinned = FALSE]]
      BY <1>1, <2>4 DEF UnpinMessage
    <3>2. [was EXCEPT !.pinned = FALSE] \in MessageRow
      BY <1>1 DEF MessageRow
    <3> QED BY <1>1, <3>1, <3>2 DEF MessageRow
  <2> QED BY <2>1, <2>2, <2>3, <2>4
<1>3. (was.text => row.text) /\ (was.deleted => row.deleted) /\ (row.pinned => was.pinned)
  BY <1>2, Zenon
<1>4. /\ ChatCore' /\ ChatGrows
      /\ Pinned(Posted)' \subseteq Pinned(Posted) \cup {m}
      /\ ~row.pinned => Pinned(Posted)' \subseteq Pinned(Posted)
  BY <1>1, <1>2, <1>3, RowChanged
<1>5. row.pinned => m \in Pinned(Posted)
  BY <1>1, <1>3, Zenon DEF Pinned, Posted, MessageIds
<1> QED BY <1>4, <1>5

LEMMA ChatSame ==
    ASSUME ChatCore, UNCHANGED <<messages, seen, delivered, moved>>, reacted' \subseteq Ids \X Writer,
           files' \in [Attached -> {NoFile} \cup FileRow],
           \A f \in Attached : files[f] # NoFile => files'[f] = files[f]
    PROVE  ChatCore' /\ ChatGrows /\ Pinned(Posted)' \subseteq Pinned(Posted)
<1>1. MessageIds' = MessageIds /\ Pinned(Posted)' = Pinned(Posted)
  BY DEF MessageIds, Pinned, Posted
<1>2. ChatTyped' /\ LedgersAgree'
  BY <1>1 DEF ChatCore, ChatTyped, LedgersAgree
<1>3. TextsStand'
  BY <1>1 DEF ChatCore, TextsStand
<1>4. ChatGrows
  BY ChatRows DEF ChatGrows
<1> QED BY <1>1, <1>2, <1>3, <1>4 DEF ChatCore

LEMMA ReactMessageKept ==
    ASSUME ChatCore, NEW u \in Writer, NEW m \in Ids, ReactMessage(u, m)
    PROVE  ChatCore' /\ ChatGrows /\ Pinned(Posted)' \subseteq Pinned(Posted)
<1>1. UNCHANGED <<messages, seen, delivered, files, moved>> /\ reacted' \subseteq Ids \X Writer
  BY DEF ReactMessage, ChatCore, ChatTyped
<1>2. files' \in [Attached -> {NoFile} \cup FileRow]
  BY <1>1 DEF ChatCore, ChatTyped
<1> QED BY <1>1, <1>2, ChatSame

LEMMA UploadChatFileKept ==
    ASSUME ChatCore, NEW u \in Writer, NEW f \in Attached, UploadChatFile(u, f)
    PROVE  ChatCore' /\ ChatGrows /\ Pinned(Posted)' \subseteq Pinned(Posted)
<1>1. /\ UNCHANGED <<messages, seen, delivered, reacted, moved>> /\ files[f] = NoFile
      /\ files' = [files EXCEPT ![f] = [owner |-> u, message |-> 0]]
  BY DEF UploadChatFile
<1>2. [owner |-> u, message |-> 0] \in FileRow
  BY ChatNumbers DEF FileRow
<1>3. /\ files' \in [Attached -> {NoFile} \cup FileRow]
      /\ \A g \in Attached : files[g] # NoFile => files'[g] = files[g]
  BY <1>1, <1>2 DEF ChatCore, ChatTyped
<1>4. reacted' \subseteq Ids \X Writer
  BY <1>1 DEF ChatCore, ChatTyped
<1> QED BY <1>1, <1>3, <1>4, ChatSame

\* By how much the pinned messages grow.
LEMMA PinsGrow ==
    ASSUME ChatCore, ChatCore', NEW E,
           \/ Pinned(Posted)' \subseteq Pinned(Posted)
           \/ E # {} /\ \E m \in MessageIds : Pinned(Posted)' \subseteq Pinned(Posted) \cup {m}
    PROVE  /\ Cardinality(Pinned(Posted)) \in Nat /\ Cardinality(Pinned(Posted))' \in Nat
           /\ \/ Cardinality(Pinned(Posted))' <= Cardinality(Pinned(Posted))
              \/ E # {} /\ Cardinality(Pinned(Posted))' <= Cardinality(Pinned(Posted)) + 1
<1>1. PICK before : before = Pinned(Posted)
  OBVIOUS
<1>2. PICK after : after = Pinned(Posted)'
  OBVIOUS
<1>3. IsFiniteSet(before) /\ Cardinality(before) \in Nat
  <2>1. Posted.messages \in Seq(MessageRow)
    BY DEF Posted, ChatCore, ChatTyped
  <2>2. PICK view : view = Posted
    OBVIOUS
  <2> QED BY <1>1, <2>1, <2>2, PinnedCounted
<1>4. IsFiniteSet(after) /\ Cardinality(after) \in Nat
  <2>1. PICK view : view = Posted'
    OBVIOUS
  <2>2. view.messages \in Seq(MessageRow)
    BY <2>1 DEF Posted, ChatCore, ChatTyped
  <2>3. after = Pinned(view)
    BY <1>2, <2>1 DEF Pinned
  <2> QED BY <2>2, <2>3, PinnedCounted
<1>5. Cardinality(Pinned(Posted)) = Cardinality(before) /\ Cardinality(Pinned(Posted))' = Cardinality(after)
  BY <1>1, <1>2
<1>6. CASE after \subseteq before
  <2>1. Cardinality(after) <= Cardinality(before)
    BY <1>3, <1>6, FS_Subset
  <2> QED BY <1>3, <1>4, <1>5, <2>1
<1>7. ASSUME E # {}, NEW m, after \subseteq before \cup {m}
      PROVE  Cardinality(after) <= Cardinality(before) + 1
  <2>1. IsFiniteSet(before \cup {m}) /\ Cardinality(before \cup {m}) <= Cardinality(before) + 1
    BY <1>3, FS_AddElement
  <2>2. Cardinality(after) <= Cardinality(before \cup {m}) /\ Cardinality(before \cup {m}) \in Nat
    BY <1>7, <2>1, FS_Subset, FS_CardinalityType
  <2> QED BY <1>3, <1>4, <2>1, <2>2
<1> QED BY <1>1, <1>2, <1>3, <1>4, <1>5, <1>6, <1>7

\* A request on the chat as it is.
LEMMA PostedNow ==
    ASSUME ChatInv, ChatCore', ChatGrows, UNCHANGED posting,
           \/ Pinned(Posted)' \subseteq Pinned(Posted)
           \/ Pinnable(Posted) /\ \E m \in MessageIds : Pinned(Posted)' \subseteq Pinned(Posted) \cup {m}
    PROVE  ChatInv'
<1>1. Len(messages') \in Nat
  BY DEF ChatCore, ChatTyped
<1>2. SlotsEarlier'
  <2> SUFFICES ASSUME NEW r \in Posting2, posting[r] # <<>> PROVE Earlier(posting[r][1])'
    BY DEF ChatInv, SlotsEarlier
  <2>1. PICK view : view = posting[r][1]
    OBVIOUS
  <2>2. Earlier(view)
    BY <2>1 DEF ChatInv, SlotsEarlier, Earlier
  <2>3. Earlier(view)' /\ posting'[r][1] = view
    BY <1>1, <2>1, <2>2, EarlierStays DEF ChatInv
  <2> QED BY <2>3 DEF Earlier
<1>3. MayPin' = MayPin
  BY DEF MayPin, Pinnable, Pinned
<1> DEFINE E == IF Pinnable(Posted) THEN {0} ELSE {}
<1>4. E # {} <=> Pinnable(Posted)
  OBVIOUS
<1>5. \/ Pinned(Posted)' \subseteq Pinned(Posted)
      \/ E # {} /\ \E m \in MessageIds : Pinned(Posted)' \subseteq Pinned(Posted) \cup {m}
  BY <1>4
<1>6. E # {} => Cardinality(Pinned(Posted)) < MaxPins
  BY <1>4 DEF Pinnable
<1>7. PICK e : e = E
  OBVIOUS
<1> HIDE DEF E
<1>8. /\ Cardinality(Pinned(Posted)) \in Nat /\ Cardinality(Pinned(Posted))' \in Nat
      /\ \/ Cardinality(Pinned(Posted))' <= Cardinality(Pinned(Posted))
         \/ e # {} /\ Cardinality(Pinned(Posted))' <= Cardinality(Pinned(Posted)) + 1
  BY <1>5, <1>7, PinsGrow DEF ChatInv
<1>9. PinsCounted'
  <2>1. PICK before \in Nat : before = Cardinality(Pinned(Posted))
    BY <1>8
  <2>2. PICK after \in Nat : after = Cardinality(Pinned(Posted))'
    BY <1>8
  <2>3. PICK may \in Nat : may = Cardinality(MayPin)
    BY MayPinCounted
  <2>4. PICK slots \in Nat : slots = Cardinality(Posting2)
    BY ChatNumbers
  <2>5. before + may <= MaxPins + slots /\ may <= slots
    BY <2>1, <2>3, <2>4, MayPinCounted DEF ChatInv, PinsCounted
  <2>6. after <= before \/ (before < MaxPins /\ after <= before + 1)
    BY <1>6, <1>7, <1>8, <2>1, <2>2
  <2>7. after + may <= MaxPins + slots
    BY <2>5, <2>6, ChatNumbers
  <2>8. PinsCounted' <=> after + may <= MaxPins + slots
    BY <1>3, <2>2, <2>3, <2>4 DEF PinsCounted
  <2> QED BY <2>7, <2>8
<1> QED BY <1>2, <1>9 DEF ChatInv

LEMMA BeginPostInv == ASSUME ChatInv, NEW r \in Posting2, BeginPost(r) PROVE ChatInv'
<1>1. /\ posting[r] = <<>> /\ posting' = [posting EXCEPT ![r] = <<Posted>>]
      /\ UNCHANGED <<messages, seen, delivered, reacted, files, moved>>
  BY DEF BeginPost
<1>2. MessageIds' = MessageIds /\ Posted' = Posted
  BY <1>1 DEF MessageIds, Posted
<1>3. ChatCore' /\ ChatGrows
  <2>1. ChatTyped' /\ LedgersAgree' /\ TextsStand'
    BY <1>1, <1>2 DEF ChatInv, ChatCore, ChatTyped, LedgersAgree, TextsStand
  <2>2. ChatGrows
    BY <1>1, ChatRows DEF ChatGrows, ChatInv
  <2> QED BY <2>1, <2>2 DEF ChatCore
<1>4. /\ posting'[r] = <<Posted>> /\ posting'[r][1] = Posted /\ posting'[r] # <<>>
      /\ \A q \in Posting2 : q # r => posting'[q] = posting[q]
      /\ posting' = [q \in Posting2 |-> posting'[q]]
  BY <1>1 DEF ChatInv, SlotsEarlier
<1>5. SlotsEarlier'
  <2> SUFFICES ASSUME NEW q \in Posting2, posting'[q] # <<>> PROVE Earlier(posting[q][1])'
    BY <1>4 DEF SlotsEarlier
  <2>1. CASE q = r
    <3>1. Earlier(Posted)'
      BY <1>3, PTL, PostedEarlier
    <3> QED BY <1>2, <1>4, <2>1, <3>1 DEF Earlier
  <2>2. CASE q # r
    <3>1. PICK view : view = posting[q][1]
      OBVIOUS
    <3>2. Earlier(view) /\ posting'[q][1] = view
      BY <1>4, <2>2, <3>1 DEF ChatInv, SlotsEarlier, Earlier
    <3>3. Earlier(view)'
      BY <1>1, <3>2 DEF Earlier
    <3> QED BY <3>2, <3>3 DEF Earlier
  <2> QED BY <2>1, <2>2
<1>6. MayPin' \subseteq MayPin \cup {r} /\ (~Pinnable(Posted) => MayPin' \subseteq MayPin)
      /\ MayPin' \subseteq Posting2
  BY <1>4 DEF MayPin, Pinnable, Pinned
<1>7. PinsCounted'
  <2>1. PICK pinned \in Nat : pinned = Cardinality(Pinned(Posted))
    BY PinsGrow, <1>1, <1>2, <1>3, PinnedCounted DEF Posted, ChatInv, ChatCore, ChatTyped
  <2>2. Cardinality(Pinned(Posted))' = pinned
    BY <1>2, <2>1 DEF Pinned
  <2>3. PICK after : after = MayPin'
    OBVIOUS
  <2>4. PICK slots \in Nat : slots = Cardinality(Posting2)
    BY ChatNumbers
  <2>5. PICK before \in Nat : before = Cardinality(MayPin)
    BY MayPinCounted
  <2>6. pinned + before <= MaxPins + slots
    BY <2>1, <2>4, <2>5 DEF ChatInv, PinsCounted
  <2>7. Cardinality(after) \in Nat /\ Cardinality(after) <= slots
    BY <1>6, <2>3, <2>4, ChatNumbers, FS_Subset, FS_CardinalityType
  <2>8. CASE pinned < MaxPins
    <3>1. pinned + Cardinality(after) <= MaxPins + slots
      BY <2>7, <2>8, ChatNumbers
    <3> QED BY <2>2, <2>3, <2>4, <3>1 DEF PinsCounted
  <2>9. CASE ~(pinned < MaxPins)
    <3>1. after \subseteq MayPin
      BY <1>6, <2>1, <2>3, <2>9 DEF Pinnable
    <3>2. Cardinality(after) <= before
      BY <2>5, <3>1, MayPinCounted, FS_Subset
    <3>3. pinned + Cardinality(after) <= MaxPins + slots
      BY <2>6, <2>7, <3>2, ChatNumbers
    <3> QED BY <2>2, <2>3, <2>4, <3>3 DEF PinsCounted
  <2> QED BY <2>8, <2>9
<1> QED BY <1>3, <1>5, <1>7 DEF ChatInv

LEMMA CommitPostInv == ASSUME ChatInv, NEW r \in Posting2, CommitPost(r) PROVE ChatInv'
<1>1. PICK view : view = posting[r][1]
  OBVIOUS
<1>2. posting[r] # <<>> /\ Post(view) /\ posting' = [posting EXCEPT ![r] = <<>>]
  BY <1>1 DEF CommitPost
<1>3. Earlier(view)
  BY <1>1, <1>2 DEF ChatInv, SlotsEarlier
<1>4. /\ ChatCore' /\ ChatGrows
      /\ \/ Pinned(Posted)' \subseteq Pinned(Posted)
         \/ Pinnable(view) /\ \E m \in MessageIds : Pinned(Posted)' \subseteq Pinned(Posted) \cup {m}
  BY <1>2, <1>3, PostKept DEF ChatInv
<1>5. Len(messages') \in Nat
  BY <1>4 DEF ChatCore, ChatTyped
<1>6. /\ posting'[r] = <<>>
      /\ \A q \in Posting2 : q # r => posting'[q] = posting[q]
      /\ posting' = [q \in Posting2 |-> posting'[q]]
  BY <1>2 DEF ChatInv, SlotsEarlier
<1>7. SlotsEarlier'
  <2> SUFFICES ASSUME NEW q \in Posting2, posting'[q] # <<>> PROVE Earlier(posting[q][1])'
    BY <1>6 DEF SlotsEarlier
  <2>1. q # r /\ posting'[q] = posting[q]
    BY <1>6
  <2>2. PICK old : old = posting[q][1]
    OBVIOUS
  <2>3. Earlier(old) /\ posting'[q][1] = old
    BY <2>1, <2>2 DEF ChatInv, SlotsEarlier, Earlier
  <2>4. Earlier(old)'
    BY <1>4, <1>5, <2>3, EarlierStays DEF ChatInv
  <2> QED BY <2>3, <2>4 DEF Earlier
<1>8. MayPin' = MayPin \ {r} /\ (Pinnable(view) => r \in MayPin)
  BY <1>1, <1>2, <1>6 DEF MayPin, Pinnable, Pinned
<1> DEFINE E == IF Pinnable(view) THEN {0} ELSE {}
<1>9. \/ Pinned(Posted)' \subseteq Pinned(Posted)
      \/ E # {} /\ \E m \in MessageIds : Pinned(Posted)' \subseteq Pinned(Posted) \cup {m}
  BY <1>4
<1>10. E # {} => r \in MayPin
  BY <1>8
<1>11. PICK e : e = E
  OBVIOUS
<1> HIDE DEF E
<1>12. /\ Cardinality(Pinned(Posted)) \in Nat /\ Cardinality(Pinned(Posted))' \in Nat
       /\ \/ Cardinality(Pinned(Posted))' <= Cardinality(Pinned(Posted))
          \/ e # {} /\ Cardinality(Pinned(Posted))' <= Cardinality(Pinned(Posted)) + 1
  BY <1>4, <1>9, <1>11, PinsGrow DEF ChatInv
<1>13. PinsCounted'
  <2>1. PICK before \in Nat : before = Cardinality(Pinned(Posted))
    BY <1>12
  <2>2. PICK after \in Nat : after = Cardinality(Pinned(Posted))'
    BY <1>12
  <2>3. PICK slots \in Nat : slots = Cardinality(Posting2)
    BY ChatNumbers
  <2>4. PICK may : may = MayPin
    OBVIOUS
  <2>5. /\ IsFiniteSet(may) /\ Cardinality(may) \in Nat
        /\ Cardinality(may \ {r}) = (IF r \in may THEN Cardinality(may) - 1 ELSE Cardinality(may))
        /\ Cardinality(may \ {r}) \in Nat
    BY <2>4, MayPinCounted, FS_RemoveElement, FS_CardinalityType
  <2>6. before + Cardinality(may) <= MaxPins + slots
    BY <2>1, <2>3, <2>4 DEF ChatInv, PinsCounted
  <2>7. after <= before \/ (r \in may /\ after <= before + 1)
    BY <1>10, <1>11, <1>12, <2>1, <2>2, <2>4
  <2>8. after + Cardinality(may \ {r}) <= MaxPins + slots
    BY <2>5, <2>6, <2>7, ChatNumbers
  <2>9. MayPin' = may \ {r}
    BY <1>8, <2>4
  <2> QED BY <2>2, <2>3, <2>8, <2>9 DEF PinsCounted
<1> QED BY <1>4, <1>7, <1>13 DEF ChatInv

LEMMA MessagesNextInv == ChatInv /\ [MessagesNext]_chatVars => ChatInv'
<1> SUFFICES ASSUME ChatInv, [MessagesNext]_chatVars PROVE ChatInv'
  OBVIOUS
<1>c. ChatCore
  BY DEF ChatInv
<1>1. ASSUME Post(Posted), UNCHANGED posting PROVE ChatInv'
  <2>1. PICK view : view = Posted
    OBVIOUS
  <2>2. Post(view) /\ Earlier(view)
    BY <1>c, <1>1, <2>1, PostedEarlier
  <2>3. /\ ChatCore' /\ ChatGrows
        /\ \/ Pinned(Posted)' \subseteq Pinned(Posted)
           \/ Pinnable(view) /\ \E m \in MessageIds : Pinned(Posted)' \subseteq Pinned(Posted) \cup {m}
    BY <1>c, <2>2, PostKept
  <2> QED BY <1>1, <2>1, <2>3, PostedNow
<1>2. ASSUME NEW u \in Writer, NEW f \in Attached, UploadChatFile(u, f), UNCHANGED posting PROVE ChatInv'
  BY <1>c, <1>2, UploadChatFileKept, PostedNow
<1>3. ASSUME NEW u \in Writer, SendMessage(u, TRUE, 0, Writer \ {u}, {}, Posted), UNCHANGED posting
      PROVE  ChatInv'
  <2>1. PICK view : view = Posted
    OBVIOUS
  <2>2. Earlier(view) /\ SendMessage(u, TRUE, 0, Writer \ {u}, {}, view)
    BY <1>c, <1>3, <2>1, PostedEarlier
  <2>3. /\ 0 \in 0..MaxMessages /\ Writer \ {u} \in SUBSET Writer /\ u \notin Writer \ {u}
        /\ {} \in SUBSET Attached /\ TRUE \in BOOLEAN
    BY ChatNumbers
  <2>4. ChatCore' /\ ChatGrows /\ Pinned(Posted)' \subseteq Pinned(Posted)
    BY <1>c, <2>2, <2>3, SendMessageKept
  <2> QED BY <1>3, <2>4, PostedNow
<1>4. ASSUME NEW m \in Ids, Grow(m) \/ EditMessage(m) \/ DeleteMessage(m) \/ UnpinMessage(m),
             UNCHANGED posting
      PROVE  ChatInv'
  BY <1>c, <1>4, MessageEdited, PostedNow
<1>5. ASSUME NEW u \in Writer, NEW m \in Ids, ReactMessage(u, m), UNCHANGED posting PROVE ChatInv'
  BY <1>c, <1>5, ReactMessageKept, PostedNow
<1>6. ASSUME NEW r \in Posting2, BeginPost(r) PROVE ChatInv'
  BY <1>6, BeginPostInv
<1>7. ASSUME NEW r \in Posting2, CommitPost(r) PROVE ChatInv'
  BY <1>7, CommitPostInv
<1>8. CASE UNCHANGED chatVars
  <2>1. /\ MessageIds' = MessageIds /\ Posted' = Posted
        /\ UNCHANGED <<messages, seen, delivered, reacted, files, posting, moved>>
    BY <1>8 DEF chatVars, MessageIds, Posted
  <2>2. ChatTyped' /\ LedgersAgree' /\ TextsStand'
    BY <1>c, <2>1 DEF ChatCore, ChatTyped, LedgersAgree, TextsStand
  <2>3. ChatGrows /\ Pinned(Posted)' = Pinned(Posted)
    BY <1>c, <2>1, ChatRows DEF ChatGrows, Pinned
  <2> QED BY <2>1, <2>2, <2>3, PostedNow DEF ChatCore
<1> QED BY <1>1, <1>2, <1>3, <1>4, <1>5, <1>6, <1>7, <1>8 DEF MessagesNext

\* Whoever overlaps: a message is read by the others exactly when they have seen it, a
\* chat is at most one pin per request over its limit, every message shown has text or
\* a file unless an overlapping request took it, and replies come after what they answer
\* (get_messages, mark_delivered, send_message, pin_message).
THEOREM MessagesStandAlways == MessagesSpec => [](ReadsAgree /\ MessagesStand)
<1>1. MessagesSpec => []ChatInv
  BY MessagesInitInv, MessagesNextInv, PTL DEF MessagesSpec
<1>2. ChatInv => ReadsAgree /\ MessagesStand
  BY ChatInvHolds
<1> QED BY <1>1, <1>2, PTL

-----------------------------------------------------------------------------
(* The master lists and their cached answers. *)

MasterRows == [name : Named, unit : 0..MaxRows, active : BOOLEAN]
Masters == [List -> Seq(MasterRows)]

\* Requests, answers and what was shown, as records.
EditIs(q) ==
    \/ q = Idle
    \/ q = [phase |-> "open", view |-> q.view, age |-> q.age] /\ q.view \in Masters /\ q.age \in 0..Span
    \/ /\ q = [phase |-> "missed", list |-> q.list, version |-> q.version, rows |-> q.rows, age |-> q.age]
       /\ q.list \in Asked /\ q.version \in Nat \ {0} /\ q.age \in 0..Span
    \/ q = [phase |-> "saved", age |-> q.age] /\ q.age \in 0..Span
KeptIs(a) ==
    /\ a = [list |-> a.list, version |-> a.version, rows |-> a.rows, left |-> a.left]
    /\ a.list \in Asked /\ a.version \in Nat \ {0} /\ a.left \in 1..Ttl
PastIs(p) == p = [list |-> p.list, rows |-> p.rows, age |-> p.age] /\ p.list \in Asked /\ p.age \in Nat
MasterShaped ==
    /\ master \in Masters /\ edits \in 0..MaxEdits /\ leaks \subseteq {"crossed", "unraised"}
    /\ listed = [key |-> listed.key, kept |-> listed.kept] /\ listed.key \in Nat
    /\ \A a \in listed.kept : KeptIs(a)
    /\ editing = [r \in Editing |-> editing[r]] /\ \A r \in Editing : EditIs(editing[r])
    /\ \A p \in past : PastIs(p)

Phase(r, phase) == editing[r].phase = phase
\* Every version was announced by a request that saved.
SavedSlots == {r \in Editing : editing[r].phase = "saved"}
VersionsHeld ==
    /\ listed.key + Cardinality(SavedSlots) <= 1 + edits
    /\ \A a \in listed.kept : a.version <= GetCacheVersion(listed)
    /\ \A r \in Editing : editing[r].phase = "missed" => editing[r].version <= GetCacheVersion(listed)
\* Lists only grow; while no reader and writer cross, what an open request sees is so,
\* and a request between its commit and its announcement is alone.
ViewsGrow ==
    \A r \in Editing : editing[r].phase = "open" =>
        \A l \in List : Len(editing[r].view[l]) <= Len(master[l])
Uncrossed ==
    "crossed" \notin leaks =>
        /\ \A r \in Editing : editing[r].phase = "open" => editing[r].view = master
        /\ \A r \in Editing : editing[r].phase = "saved" =>
              \A o \in Editing \ {r} : editing[o].phase = "idle"
\* While nothing leaked and no commit waits for its announcement, what is kept under the
\* version, and what is about to be, is the list as it is.
CacheFresh ==
    leaks = {} /\ (\A r \in Editing : editing[r].phase # "saved") =>
        /\ \A a \in listed.kept : a.version = GetCacheVersion(listed) => a.rows = Shown(master, a.list)
        /\ \A r \in Editing : editing[r].phase = "missed" => editing[r].rows = Shown(master, editing[r].list)
\* The list showed these rows, no more than k ticks ago.
ShownWithin(was, l, rows, k) == \E p \in was : p.list = l /\ p.rows = rows /\ p.age <= k
CacheRecent ==
    /\ \A l \in Asked : ShownWithin(past, l, Shown(master, l), 0)
    /\ \A r \in Editing : editing[r].phase = "open" =>
          \A l \in Asked : ShownWithin(past, l, Shown(editing[r].view, l), editing[r].age)
    /\ \A r \in Editing : editing[r].phase = "missed" =>
          ShownWithin(past, editing[r].list, editing[r].rows, editing[r].age)
    /\ \A a \in listed.kept : ShownWithin(past, a.list, a.rows, Ttl + Span - a.left)
MasterInv ==
    /\ MasterShaped /\ VersionsHeld /\ ViewsGrow /\ Uncrossed /\ NamesDistinct
    /\ CacheFresh /\ ServedIsCurrent /\ CacheRecent /\ ServedIsRecent

LEMMA MasterNumbers ==
    /\ Ttl \in Nat /\ Ttl > 0 /\ Span \in Nat /\ MaxRows \in Nat /\ MaxRows > 0 /\ MaxEdits \in Nat
    /\ Asked \subseteq List /\ IsFiniteSet(Editing)
BY MasterAssumption DEF List

LEMMA SavedSlotsCounted == IsFiniteSet(SavedSlots) /\ Cardinality(SavedSlots) \in Nat
<1>1. SavedSlots \subseteq Editing
  BY DEF SavedSlots
<1> QED BY <1>1, MasterNumbers, FS_Subset, FS_CardinalityType

LEMMA MasterLists ==
    ASSUME NEW view \in Masters, NEW l \in List
    PROVE  /\ view[l] \in Seq(MasterRows) /\ Len(view[l]) \in Nat /\ IdsOf(view, l) = 1..Len(view[l])
           /\ \A i \in IdsOf(view, l) : view[l][i] \in MasterRows
<1>1. view[l] \in Seq(MasterRows)
  BY DEF Masters
<1>2. \A i \in 1..Len(view[l]) : view[l][i] \in MasterRows
  BY <1>1, ElementOfSeq
<1> QED BY <1>1, <1>2 DEF IdsOf

LEMMA SameSize == ASSUME NEW S, NEW T, IsFiniteSet(S), NEW f \in Bijection(S, T)
                  PROVE  IsFiniteSet(T) /\ Cardinality(T) = Cardinality(S)
<1>1. ExistsBijection(S, T)
  BY DEF ExistsBijection
<1> QED BY <1>1, FS_Bijection

\* The rows of a list as all of them are shown: as many as are active.
LEMMA ListCounted ==
    ASSUME NEW view \in Masters, NEW l \in List
    PROVE  LET rows == {<<l>> \o row : row \in Shown(view, l)}
               ids  == {i \in IdsOf(view, l) : view[l][i].active}
           IN  /\ IsFiniteSet(rows) /\ Cardinality(rows) = Cardinality(ids) /\ Cardinality(ids) \in Nat
               /\ \A x \in rows : x[1] = l
<1> DEFINE ids == {i \in IdsOf(view, l) : view[l][i].active}
           Of(i) == IF l = "material" THEN UnitName(view, view[l][i].unit) ELSE {}
           line == [i \in ids |-> <<l>> \o <<i, view[l][i].name, Of(i)>>]
           rows == {<<l>> \o row : row \in Shown(view, l)}
<1>1. \A i \in ids : line[i] \in rows /\ line[i][1] = l /\ line[i][2] = i
  <2> SUFFICES ASSUME NEW i \in ids PROVE line[i] \in rows /\ line[i][1] = l /\ line[i][2] = i
    OBVIOUS
  <2>1. <<i, view[l][i].name, Of(i)>> \in Shown(view, l)
    BY DEF Shown
  <2>2. PICK n : n = view[l][i].name
    OBVIOUS
  <2>3. PICK u : u = Of(i)
    OBVIOUS
  <2>4. <<l>> \in Seq({l, i, n, u}) /\ <<i, n, u>> \in Seq({l, i, n, u})
    OBVIOUS
  <2>5. (<<l>> \o <<i, n, u>>)[1] = l /\ (<<l>> \o <<i, n, u>>)[2] = i
    BY <2>4
  <2>6. line[i] = <<l>> \o <<i, n, u>>
    BY <2>2, <2>3
  <2> QED BY <2>1, <2>2, <2>3, <2>5, <2>6
<1>2. \A x \in rows : \E i \in ids : x = line[i]
  <2> TAKE x \in rows
  <2>0. PICK row \in Shown(view, l) : x = <<l>> \o row
    OBVIOUS
  <2>1. PICK i \in ids : row = <<i, view[l][i].name, Of(i)>>
    BY DEF Shown
  <2> QED BY <2>0, <2>1
<1>3. IsFiniteSet(ids) /\ Cardinality(ids) \in Nat
  <2>0. Len(view[l]) \in Nat /\ IdsOf(view, l) = 1..Len(view[l])
    BY MasterLists
  <2>1. IsFiniteSet(1..Len(view[l])) /\ ids \subseteq 1..Len(view[l])
    BY <2>0, FS_Interval
  <2> QED BY <2>1, FS_Subset, FS_CardinalityType
<1>4. line \in [ids -> rows]
  BY <1>1
<1> HIDE DEF line, rows, ids
<1>5. line \in Bijection(ids, rows)
  <2>1. line \in Injection(ids, rows)
    BY <1>1, <1>4 DEF Injection, IsInjective
  <2>2. line \in Surjection(ids, rows)
    BY <1>2, <1>4 DEF Surjection
  <2> QED BY <2>1, <2>2 DEF Bijection
<1>6. IsFiniteSet(rows) /\ Cardinality(rows) = Cardinality(ids)
  BY <1>3, <1>5, SameSize
<1>7. \A x \in rows : x[1] = l
  BY <1>1, <1>2
<1> QED BY <1>3, <1>6, <1>7 DEF rows, ids

LEMMA MasterViewsHold == master \in Masters => MasterViewsAgree
<1> SUFFICES ASSUME master \in Masters PROVE MasterViewsAgree
  OBVIOUS
<1> DEFINE rows(l) == {<<l>> \o row : row \in Shown(master, l)}
           ids(l) == {i \in IdsOf(master, l) : master[l][i].active}
<1>1. PICK view \in Masters : view = master
  OBVIOUS
<1>2. \A l \in List : /\ IsFiniteSet(rows(l)) /\ Cardinality(rows(l)) = Cardinality(ids(l))
                      /\ Cardinality(ids(l)) \in Nat
                      /\ \A x \in rows(l) : x[1] = l
  BY <1>1, ListCounted
<1>3. List = {"unit", "labour_type", "activity_type", "material"}
  BY DEF List
<1>4. AllMasterData = rows("unit") \cup rows("labour_type") \cup rows("activity_type") \cup rows("material")
  <2>1. AllMasterData = UNION {rows(l) : l \in List}
    BY DEF AllMasterData
  <2> HIDE DEF rows
  <2> QED BY <1>3, <2>1
<1>5. \A l \in List : MasterStats[l] = Cardinality(ids(l))
  BY DEF MasterStats
<1> DEFINE a == rows("unit")
           b == rows("labour_type")
           c == rows("activity_type")
           d == rows("material")
<1>6. /\ IsFiniteSet(a) /\ IsFiniteSet(b) /\ IsFiniteSet(c) /\ IsFiniteSet(d)
      /\ \A x \in a : x[1] = "unit"
      /\ \A x \in b : x[1] = "labour_type"
      /\ \A x \in c : x[1] = "activity_type"
      /\ \A x \in d : x[1] = "material"
  BY <1>2, <1>3
<1>7. /\ Cardinality(a) = MasterStats["unit"] /\ Cardinality(b) = MasterStats["labour_type"]
      /\ Cardinality(c) = MasterStats["activity_type"] /\ Cardinality(d) = MasterStats["material"]
  BY <1>2, <1>3, <1>5
<1>8. AllMasterData = ((a \cup b) \cup c) \cup d
  BY <1>4
<1> HIDE DEF a, b, c, d
<1>9. a \cap b = {} /\ (a \cup b) \cap c = {} /\ ((a \cup b) \cup c) \cap d = {}
  BY <1>6
<1>10. Cardinality({}) = 0
  BY FS_EmptySet
<1>11. \A s, t : IsFiniteSet(s) /\ IsFiniteSet(t) /\ s \cap t = {} =>
          IsFiniteSet(s \cup t) /\ Cardinality(s \cup t) = Cardinality(s) + Cardinality(t)
  <2> SUFFICES ASSUME NEW s, NEW t, IsFiniteSet(s), IsFiniteSet(t), s \cap t = {}
               PROVE  IsFiniteSet(s \cup t) /\ Cardinality(s \cup t) = Cardinality(s) + Cardinality(t)
    OBVIOUS
  <2>1. Cardinality(s) \in Nat /\ Cardinality(t) \in Nat
    BY FS_CardinalityType
  <2>2. /\ IsFiniteSet(s \cup t)
        /\ Cardinality(s \cup t) = Cardinality(s) + Cardinality(t) - Cardinality(s \cap t)
    BY FS_Union
  <2>3. Cardinality(s \cap t) = 0
    BY <1>10
  <2> QED BY <2>1, <2>2, <2>3
<1>12. IsFiniteSet(a \cup b) /\ Cardinality(a \cup b) = Cardinality(a) + Cardinality(b)
  BY <1>6, <1>9, <1>11
<1>13. /\ IsFiniteSet((a \cup b) \cup c)
       /\ Cardinality((a \cup b) \cup c) = Cardinality(a) + Cardinality(b) + Cardinality(c)
  BY <1>6, <1>9, <1>11, <1>12
<1>14. Cardinality(((a \cup b) \cup c) \cup d) = Cardinality(a) + Cardinality(b) + Cardinality(c) + Cardinality(d)
  BY <1>6, <1>9, <1>11, <1>13
<1> QED BY <1>7, <1>8, <1>14 DEF MasterViewsAgree

LEMMA CacheVersion == ASSUME MasterShaped
                      PROVE  /\ GetCacheVersion(listed) \in Nat \ {0}
                             /\ GetCacheVersion(listed) = 1 \/ GetCacheVersion(listed) = listed.key
                             /\ listed.key <= GetCacheVersion(listed)
BY DEF MasterShaped, GetCacheVersion

LEMMA MasterInvHolds ==
    MasterInv => MasterTypeOK /\ NamesDistinct /\ ServedIsCurrent /\ ServedIsRecent /\ MasterViewsAgree
<1> SUFFICES ASSUME MasterInv PROVE MasterTypeOK /\ MasterViewsAgree
  BY DEF MasterInv
<1>1. \A list \in List : \A i \in IdsOf(master, list) :
        master[list][i] \in [name : Named, unit : 0..MaxRows, active : BOOLEAN]
  <2>1. PICK view \in Masters : view = master
    BY DEF MasterInv, MasterShaped
  <2> QED BY <2>1, MasterLists DEF MasterRows
<1>2. listed.key \in 0..(MaxEdits + 1)
  <2>1. listed.key \in Nat /\ edits \in 0..MaxEdits /\ listed.key + Cardinality(SavedSlots) <= 1 + edits
    BY DEF MasterInv, MasterShaped, VersionsHeld
  <2> QED BY <2>1, SavedSlotsCounted, MasterNumbers
<1>3. ASSUME NEW a \in listed.kept PROVE a.left \in 1..Ttl /\ a.version \in 1..(MaxEdits + 1)
  <2>1. a.left \in 1..Ttl /\ a.version \in Nat \ {0} /\ a.version <= GetCacheVersion(listed)
    BY DEF MasterInv, MasterShaped, VersionsHeld, KeptIs
  <2>2. GetCacheVersion(listed) \in Nat /\ GetCacheVersion(listed) <= MaxEdits + 1
    BY <1>2, CacheVersion, MasterNumbers DEF MasterInv
  <2> QED BY <2>1, <2>2, MasterNumbers
<1>4. MasterTypeOK
  BY <1>1, <1>2, <1>3 DEF MasterInv, MasterShaped, MasterTypeOK
<1> QED BY <1>4, MasterViewsHold DEF MasterInv, MasterShaped

LEMMA MasterInitInv == MasterInit => MasterInv
<1> SUFFICES ASSUME MasterInit PROVE MasterInv
  OBVIOUS
<1>1. PICK name \in Named :
         master = [list \in List |->
            CASE list = "unit" -> <<Row(name, 0)>> [] list = "material" -> <<Row(name, 1)>> [] OTHER -> <<>>]
  BY MasterAssumption DEF MasterInit
<1>2. Row(name, 0) \in MasterRows /\ Row(name, 1) \in MasterRows
  BY MasterNumbers DEF Row, MasterRows
<1>3. master \in Masters /\ \A l \in List : Len(master[l]) = 0 \/ Len(master[l]) = 1
  <2>1. \A l \in List : master[l] = <<Row(name, 0)>> \/ master[l] = <<Row(name, 1)>> \/ master[l] = <<>>
    <3>1. /\ "unit" \in List => master["unit"] = <<Row(name, 0)>>
          /\ "material" \in List => master["material"] = <<Row(name, 1)>>
          /\ \A l \in List : l # "unit" /\ l # "material" => master[l] = <<>>
      BY <1>1
    <3> QED BY <3>1
  <2>2. \A l \in List : master[l] \in Seq(MasterRows) /\ (Len(master[l]) = 0 \/ Len(master[l]) = 1)
    <3>1. /\ <<Row(name, 0)>> \in Seq(MasterRows) /\ <<Row(name, 1)>> \in Seq(MasterRows)
          /\ <<>> \in Seq(MasterRows)
      BY <1>2
    <3>2. Len(<<Row(name, 0)>>) = 1 /\ Len(<<Row(name, 1)>>) = 1 /\ Len(<<>>) = 0
      OBVIOUS
    <3> QED BY <2>1, <3>1, <3>2
  <2>3. master = [l \in List |-> master[l]]
    BY <1>1
  <2> QED BY <2>2, <2>3 DEF Masters
<1>4. /\ listed = [key |-> listed.key, kept |-> listed.kept]
      /\ listed.kept = {} /\ (listed.key = 0 \/ listed.key = 1)
  BY DEF MasterInit, NoAnswers
<1>5. /\ editing = [r \in Editing |-> Idle] /\ edits = 0 /\ leaks = {}
      /\ answered = [current |-> TRUE, recent |-> TRUE]
      /\ past = {[list |-> list, rows |-> Shown(master, list), age |-> 0] : list \in Asked}
  BY DEF MasterInit, NoAnswer
<1>6. \A r \in Editing : editing[r] = Idle /\ editing[r].phase = "idle"
  BY <1>5 DEF Idle
<1>7. \A p \in past : PastIs(p)
  BY <1>5 DEF PastIs
<1>8. MasterShaped
  BY <1>3, <1>4, <1>5, <1>6, <1>7, MasterNumbers DEF MasterShaped, EditIs
<1>9. SavedSlots = {}
  BY <1>6 DEF SavedSlots
<1>10. VersionsHeld
  <2>1. listed.key + Cardinality(SavedSlots) <= 1 + edits
    BY <1>4, <1>5, <1>9, FS_EmptySet
  <2> QED BY <1>4, <1>6, <2>1 DEF VersionsHeld
<1>11. ViewsGrow /\ Uncrossed /\ CacheFresh
  BY <1>4, <1>6 DEF ViewsGrow, Uncrossed, CacheFresh
<1>12. NamesDistinct
  <2>1. ASSUME NEW l \in List, NEW i \in IdsOf(master, l) PROVE i = 1
    <3>1. PICK n : n = Len(master[l])
      OBVIOUS
    <3>2. i \in 1..n /\ (n = 0 \/ n = 1)
      BY <1>3, <3>1 DEF IdsOf
    <3> QED BY <3>2
  <2> QED BY <2>1 DEF NamesDistinct
<1>13. CacheRecent
  <2>1. \A l \in Asked : ShownWithin(past, l, Shown(master, l), 0)
    <3> SUFFICES ASSUME NEW l \in Asked PROVE ShownWithin(past, l, Shown(master, l), 0)
      OBVIOUS
    <3> DEFINE p == [list |-> l, rows |-> Shown(master, l), age |-> 0]
    <3>1. p \in past /\ p.list = l /\ p.rows = Shown(master, l) /\ p.age <= 0
      BY <1>5
    <3> HIDE DEF p
    <3> QED BY <3>1 DEF ShownWithin
  <2> QED BY <1>4, <1>6, <2>1 DEF CacheRecent
<1> QED BY <1>5, <1>8, <1>10, <1>11, <1>12, <1>13 DEF MasterInv, ServedIsCurrent, ServedIsRecent

\* One request of a slot moves on.
LEMMA SlotMoves ==
    ASSUME MasterShaped, NEW r \in Editing, NEW q, EditIs(q), editing' = [editing EXCEPT ![r] = q]
    PROVE  /\ editing'[r] = q /\ \A o \in Editing : o # r => editing'[o] = editing[o]
           /\ editing' = [o \in Editing |-> editing'[o]] /\ \A o \in Editing : EditIs(editing'[o])
           /\ q.phase # "saved" => SavedSlots' = SavedSlots \ {r}
           /\ q.phase = "saved" => SavedSlots' = SavedSlots \cup {r}
<1>1. /\ editing'[r] = q /\ \A o \in Editing : o # r => editing'[o] = editing[o]
      /\ editing' = [o \in Editing |-> editing'[o]]
  BY DEF MasterShaped
<1>2. \A o \in Editing : EditIs(editing'[o])
  BY <1>1 DEF MasterShaped
<1> QED BY <1>1, <1>2 DEF SavedSlots

LEMMA SavedSlotLeft ==
    ASSUME NEW r \in Editing, SavedSlots' = SavedSlots \ {r}
    PROVE  /\ Cardinality(SavedSlots') \in Nat /\ Cardinality(SavedSlots) \in Nat
           /\ Cardinality(SavedSlots') = IF r \in SavedSlots THEN Cardinality(SavedSlots) - 1 ELSE Cardinality(SavedSlots)
<1>1. PICK slots : slots = SavedSlots
  OBVIOUS
<1>2. IsFiniteSet(slots) /\ Cardinality(slots) \in Nat
  BY <1>1, SavedSlotsCounted
<1>3. /\ Cardinality(slots \ {r}) = IF r \in slots THEN Cardinality(slots) - 1 ELSE Cardinality(slots)
      /\ Cardinality(slots \ {r}) \in Nat
  BY <1>2, FS_RemoveElement, FS_CardinalityType
<1> QED BY <1>1, <1>2, <1>3

\* What keeps the names apart, whatever a step adds to the history.
LEMMA NamesSame == NamesDistinct /\ UNCHANGED master /\ leaks \subseteq leaks' => NamesDistinct'
BY DEF NamesDistinct

LEMMA OpenInv == ASSUME MasterInv, NEW r \in Editing, Open(r) PROVE MasterInv'
<1> DEFINE q == [phase |-> "open", view |-> master, age |-> 0]
<1>0. MasterShaped /\ VersionsHeld /\ ViewsGrow /\ Uncrossed /\ NamesDistinct /\ CacheFresh /\ CacheRecent
  BY DEF MasterInv
<1>1. /\ editing[r].phase = "idle" /\ editing' = [editing EXCEPT ![r] = q]
      /\ leaks' = leaks \cup (IF \E o \in Editing : editing[o].phase = "saved" THEN {"crossed"} ELSE {})
      /\ answered' = [current |-> TRUE, recent |-> TRUE] /\ UNCHANGED <<master, listed, past, edits>>
  BY DEF Open, InFlight, NothingAnswered, NoAnswer
<1>2. master \in Masters /\ 0 \in 0..Span
  BY <1>0, MasterNumbers DEF MasterShaped
<1>3. q.phase = "open" /\ q.view = master /\ q.age = 0 /\ EditIs(q)
  BY <1>2 DEF EditIs
<1> HIDE DEF q
<1>4. /\ editing'[r] = q /\ \A o \in Editing : o # r => editing'[o] = editing[o]
      /\ editing' = [o \in Editing |-> editing'[o]] /\ \A o \in Editing : EditIs(editing'[o])
      /\ SavedSlots' = SavedSlots
  <2>1. r \notin SavedSlots
    BY <1>1 DEF SavedSlots
  <2>2. /\ editing'[r] = q /\ \A o \in Editing : o # r => editing'[o] = editing[o]
        /\ editing' = [o \in Editing |-> editing'[o]] /\ \A o \in Editing : EditIs(editing'[o])
        /\ q.phase # "saved" => SavedSlots' = SavedSlots \ {r}
    BY <1>0, <1>1, <1>3, SlotMoves
  <2> QED BY <1>3, <2>1, <2>2
<1>5. MasterShaped'
  BY <1>0, <1>1, <1>4 DEF MasterShaped
<1>6. VersionsHeld'
  BY <1>0, <1>1, <1>3, <1>4 DEF VersionsHeld
<1>7. ViewsGrow'
  <2>1. \A l \in List : Len(master[l]) \in Nat
    BY <1>2 DEF Masters
  <2>2. \A l \in List : Len(master[l]) <= Len(master[l])
    BY <2>1
  <2> QED BY <1>0, <1>1, <1>3, <1>4, <2>2 DEF ViewsGrow
<1>8. Uncrossed'
  <2> SUFFICES ASSUME "crossed" \notin leaks' PROVE Uncrossed'
    BY DEF Uncrossed
  <2>1. "crossed" \notin leaks /\ \A o \in Editing : editing[o].phase # "saved"
    BY <1>1
  <2>2. \A o \in Editing : editing'[o].phase # "saved"
    BY <1>3, <1>4, <2>1
  <2> QED BY <1>0, <1>1, <1>3, <1>4, <2>1, <2>2 DEF Uncrossed
<1>9. NamesDistinct'
  BY <1>0, <1>1, NamesSame
<1>10. CacheFresh'
  <2>1. leaks' = {} => leaks = {}
    BY <1>1
  <2>2. (\A o \in Editing : editing'[o].phase # "saved") => \A o \in Editing : editing[o].phase # "saved"
    BY <1>1, <1>4
  <2> QED BY <1>0, <1>1, <1>3, <1>4, <2>1, <2>2 DEF CacheFresh
<1>11. CacheRecent'
  BY <1>0, <1>1, <1>3, <1>4 DEF CacheRecent
<1> QED BY <1>1, <1>5, <1>6, <1>7, <1>8, <1>9, <1>10, <1>11 DEF MasterInv, ServedIsCurrent, ServedIsRecent

\* What a step answers on the rows kept, or to be kept, under the version.
LEMMA ReaderAlone ==
    ASSUME MasterInv, leaks = {}, NEW r \in Editing, editing[r].phase # "idle", editing[r].phase # "saved"
    PROVE  \A o \in Editing : editing[o].phase # "saved"
BY DEF MasterInv, Uncrossed

LEMMA GetListInv == ASSUME MasterInv, NEW r \in Editing, NEW list \in Asked, GetList(r, list) PROVE MasterInv'
<1> DEFINE v == GetCacheVersion(listed)
<1>0. MasterShaped /\ VersionsHeld /\ ViewsGrow /\ Uncrossed /\ NamesDistinct /\ CacheFresh /\ CacheRecent
  BY DEF MasterInv
<1>1. editing[r].phase = "open" /\ UNCHANGED <<master, listed, past, leaks, edits>>
  BY DEF GetList
<1>2. v \in Nat \ {0} /\ v <= v
  BY <1>0, CacheVersion
<1>3. /\ editing[r].view \in Masters /\ editing[r].age \in 0..Span
  BY <1>0, <1>1 DEF MasterShaped, EditIs, Idle
\* Whatever the request becomes, if it is no commit, and what it waits for is fresh.
<1>4. ASSUME NEW q, EditIs(q), q.phase \in {"idle", "missed"}, editing' = [editing EXCEPT ![r] = q],
             q.phase = "missed" =>
                 /\ q.version = v /\ ShownWithin(past, q.list, q.rows, q.age)
                 /\ leaks = {} => q.rows = Shown(master, q.list),
             answered'.recent, leaks = {} => answered'.current
      PROVE  MasterInv'
  <2>1. /\ editing'[r] = q /\ \A o \in Editing : o # r => editing'[o] = editing[o]
        /\ editing' = [o \in Editing |-> editing'[o]] /\ \A o \in Editing : EditIs(editing'[o])
        /\ SavedSlots' = SavedSlots
    <3>1. r \notin SavedSlots
      BY <1>1 DEF SavedSlots
    <3>2. /\ editing'[r] = q /\ \A o \in Editing : o # r => editing'[o] = editing[o]
          /\ editing' = [o \in Editing |-> editing'[o]] /\ \A o \in Editing : EditIs(editing'[o])
          /\ q.phase # "saved" => SavedSlots' = SavedSlots \ {r}
      BY <1>0, <1>4, SlotMoves
    <3> QED BY <1>4, <3>1, <3>2
  <2>2. MasterShaped'
    BY <1>0, <1>1, <2>1 DEF MasterShaped
  <2>3. VersionsHeld'
    BY <1>0, <1>1, <1>2, <1>4, <2>1 DEF VersionsHeld
  <2>4. ViewsGrow' /\ Uncrossed' /\ NamesDistinct'
    BY <1>0, <1>1, <1>4, <2>1 DEF ViewsGrow, Uncrossed, NamesDistinct
  <2>5. CacheFresh'
    <3>1. (\A o \in Editing : editing'[o].phase # "saved") => \A o \in Editing : editing[o].phase # "saved"
      BY <1>1, <2>1
    <3> QED BY <1>0, <1>1, <1>4, <2>1, <3>1 DEF CacheFresh
  <2>6. CacheRecent'
    BY <1>0, <1>1, <1>4, <2>1 DEF CacheRecent
  <2> QED BY <1>1, <1>4, <2>2, <2>3, <2>4, <2>5, <2>6 DEF MasterInv, ServedIsCurrent, ServedIsRecent
<1>5. ASSUME NEW rows \in CacheGetJson(listed, list, v), Serve(list, rows), editing' = [editing EXCEPT ![r] = Idle]
      PROVE  MasterInv'
  <2>1. PICK a \in listed.kept : a.list = list /\ a.version = v /\ a.rows = rows
    BY <1>5 DEF CacheGetJson
  <2>2. answered'.current = (rows = Shown(master, list))
        /\ answered'.recent = (\E p \in past : p.list = list /\ p.rows = rows)
    BY <1>5 DEF Serve
  <2>3. leaks = {} => rows = Shown(master, list)
    BY <1>0, <1>1, <2>1, ReaderAlone DEF CacheFresh
  <2>4. \E p \in past : p.list = list /\ p.rows = rows
    BY <1>0, <2>1 DEF CacheRecent, ShownWithin
  <2>5. EditIs(Idle) /\ Idle.phase = "idle"
    BY DEF EditIs, Idle
  <2> HIDE DEF v
  <2> QED BY <1>4, <1>5, <2>2, <2>3, <2>4, <2>5
<1>6. ASSUME editing' = [editing EXCEPT ![r] = [phase |-> "missed", list |-> list, version |-> v,
                 rows |-> Shown(editing[r].view, list), age |-> editing[r].age]], NothingAnswered
      PROVE  MasterInv'
  <2> DEFINE q == [phase |-> "missed", list |-> list, version |-> v,
                   rows |-> Shown(editing[r].view, list), age |-> editing[r].age]
  <2>1. /\ q.phase = "missed" /\ q.list = list /\ q.version = v /\ q.rows = Shown(editing[r].view, list)
        /\ q.age = editing[r].age
    OBVIOUS
  <2>2. EditIs(q)
    BY <1>2, <1>3 DEF EditIs
  <2> HIDE DEF q
  <2>3. ShownWithin(past, q.list, q.rows, q.age)
    BY <1>0, <1>1, <2>1 DEF CacheRecent
  <2>4. leaks = {} => q.rows = Shown(master, q.list)
    BY <1>0, <1>1, <2>1 DEF Uncrossed
  <2>5. answered'.recent /\ answered'.current
    BY <1>6 DEF NothingAnswered, NoAnswer
  <2>6. editing' = [editing EXCEPT ![r] = q]
    BY <1>6 DEF q
  <2> HIDE DEF v
  <2> QED BY <1>4, <2>1, <2>2, <2>3, <2>4, <2>5, <2>6
<1> QED BY <1>5, <1>6 DEF GetList

LEMMA KeepListInv == ASSUME MasterInv, NEW r \in Editing, KeepList(r) PROVE MasterInv'
<1> DEFINE q == editing[r]
           new == [list |-> q.list, version |-> q.version, rows |-> q.rows, left |-> Ttl]
<1>0. MasterShaped /\ VersionsHeld /\ ViewsGrow /\ Uncrossed /\ NamesDistinct /\ CacheFresh /\ CacheRecent
  BY DEF MasterInv
<1>1. /\ q.phase = "missed" /\ listed' = CacheSetJson(listed, q.list, q.version, q.rows, Ttl)
      /\ editing' = [editing EXCEPT ![r] = Idle] /\ UNCHANGED <<master, past, leaks, edits>>
      /\ answered'.current = (q.rows = Shown(master, q.list))
      /\ answered'.recent = (\E p \in past : p.list = q.list /\ p.rows = q.rows)
  BY DEF KeepList, Serve
<1>2. q.list \in Asked /\ q.version \in Nat \ {0} /\ q.age \in 0..Span /\ q.version <= GetCacheVersion(listed)
  BY <1>0, <1>1 DEF MasterShaped, EditIs, Idle, VersionsHeld
<1>3. /\ new.list = q.list /\ new.version = q.version /\ new.rows = q.rows /\ new.left = Ttl /\ KeptIs(new)
  BY <1>2, MasterNumbers DEF KeptIs
<1>4. /\ listed' = [key |-> listed'.key, kept |-> listed'.kept] /\ listed'.key = listed.key
      /\ \A a \in listed'.kept : a \in listed.kept \/ a = new
  BY <1>0, <1>1 DEF MasterShaped, CacheSetJson
<1>5. GetCacheVersion(listed)' = GetCacheVersion(listed)
  BY <1>4 DEF GetCacheVersion
<1> HIDE DEF new, q
<1>6. EditIs(Idle) /\ Idle.phase = "idle"
  BY DEF EditIs, Idle
<1>7. /\ editing'[r] = Idle /\ \A o \in Editing : o # r => editing'[o] = editing[o]
      /\ editing' = [o \in Editing |-> editing'[o]] /\ \A o \in Editing : EditIs(editing'[o])
      /\ SavedSlots' = SavedSlots
  <2>1. r \notin SavedSlots
    BY <1>1 DEF SavedSlots, q
  <2>2. /\ editing'[r] = Idle /\ \A o \in Editing : o # r => editing'[o] = editing[o]
        /\ editing' = [o \in Editing |-> editing'[o]] /\ \A o \in Editing : EditIs(editing'[o])
        /\ Idle.phase # "saved" => SavedSlots' = SavedSlots \ {r}
    BY <1>0, <1>1, <1>6, SlotMoves
  <2> QED BY <1>6, <2>1, <2>2
<1>8. MasterShaped'
  BY <1>0, <1>1, <1>3, <1>4, <1>7 DEF MasterShaped
<1>9. VersionsHeld'
  BY <1>0, <1>1, <1>2, <1>3, <1>4, <1>5, <1>6, <1>7 DEF VersionsHeld
<1>10. ViewsGrow' /\ Uncrossed' /\ NamesDistinct'
  BY <1>0, <1>1, <1>6, <1>7 DEF ViewsGrow, Uncrossed, NamesDistinct
<1>11. leaks = {} => q.rows = Shown(master, q.list)
  BY <1>0, <1>1, ReaderAlone DEF CacheFresh, q
<1>12. CacheFresh'
  <2>1. (\A o \in Editing : editing'[o].phase # "saved") => \A o \in Editing : editing[o].phase # "saved"
    BY <1>1, <1>7 DEF q
  <2> QED BY <1>0, <1>1, <1>3, <1>4, <1>5, <1>6, <1>7, <1>11, <2>1 DEF CacheFresh
<1>13. ShownWithin(past, q.list, q.rows, q.age)
  BY <1>0, <1>1 DEF CacheRecent, q
<1>14. ShownWithin(past, new.list, new.rows, Ttl + Span - new.left)
  <2>1. PICK p \in past : p.list = q.list /\ p.rows = q.rows /\ p.age <= q.age
    BY <1>13 DEF ShownWithin
  <2>2. p.age \in Nat
    BY <1>0, <2>1 DEF MasterShaped, PastIs
  <2>3. p.age <= Ttl + Span - new.left
    BY <1>2, <1>3, <2>1, <2>2, MasterNumbers
  <2> QED BY <1>3, <2>1, <2>3 DEF ShownWithin
<1>15. CacheRecent'
  BY <1>0, <1>1, <1>4, <1>6, <1>7, <1>14 DEF CacheRecent
<1>16. \E p \in past : p.list = q.list /\ p.rows = q.rows
  BY <1>13 DEF ShownWithin
<1> QED BY <1>1, <1>8, <1>9, <1>10, <1>11, <1>12, <1>15, <1>16 DEF MasterInv, ServedIsCurrent, ServedIsRecent

\* The commit of a request, whatever it changes.
LEMMA SavedInv ==
    ASSUME MasterInv, NEW r \in Editing, editing[r].phase = "open",
           NEW list \in List, NEW rows \in Seq(MasterRows), Saved(r, list, rows),
           Len(master[list]) <= Len(rows),
           list # "material" \/ "crossed" \notin leaks =>
               \A i, j \in 1..Len(rows) : i # j => rows[i].name # rows[j].name
    PROVE  MasterInv'
<1> DEFINE q == [phase |-> "saved", age |-> editing[r].age]
<1>0. MasterShaped /\ VersionsHeld /\ ViewsGrow /\ Uncrossed /\ NamesDistinct /\ CacheFresh /\ CacheRecent
  BY DEF MasterInv
<1>1. /\ edits < MaxEdits /\ edits' = edits + 1 /\ master' = [master EXCEPT ![list] = rows]
      /\ editing' = [editing EXCEPT ![r] = q]
      /\ past' = past \cup {[list |-> l, rows |-> Shown(master', l), age |-> 0] : l \in Asked}
      /\ leaks' = leaks \cup (IF \E o \in Editing \ {r} : InFlight(o) THEN {"crossed"} ELSE {})
      /\ answered' = [current |-> TRUE, recent |-> TRUE] /\ listed' = listed
  BY DEF Saved, NothingAnswered, NoAnswer
<1>2. editing[r].age \in 0..Span
  BY <1>0 DEF MasterShaped, EditIs, Idle
<1>3. q.phase = "saved" /\ q.age = editing[r].age /\ EditIs(q)
  BY <1>2 DEF EditIs
<1> HIDE DEF q
<1>4. /\ editing'[r] = q /\ \A o \in Editing : o # r => editing'[o] = editing[o]
      /\ editing' = [o \in Editing |-> editing'[o]] /\ \A o \in Editing : EditIs(editing'[o])
      /\ SavedSlots' = SavedSlots \cup {r}
  <2>2. /\ editing'[r] = q /\ \A o \in Editing : o # r => editing'[o] = editing[o]
        /\ editing' = [o \in Editing |-> editing'[o]] /\ \A o \in Editing : EditIs(editing'[o])
        /\ q.phase = "saved" => SavedSlots' = SavedSlots \cup {r}
    BY <1>0, <1>1, <1>3, SlotMoves
  <2> QED BY <1>3, <2>2
<1>5. master' \in Masters /\ master'[list] = rows /\ \A l \in List : l # list => master'[l] = master[l]
  BY <1>0, <1>1 DEF MasterShaped, Masters
<1>6. \A l \in List : /\ Len(master[l]) \in Nat /\ Len(master'[l]) \in Nat
                      /\ Len(master[l]) <= Len(master'[l])
  <2>1. \A l \in List : Len(master[l]) \in Nat /\ Len(master'[l]) \in Nat
    BY <1>0, <1>5 DEF MasterShaped, Masters
  <2> QED BY <1>5, <2>1
<1>7. edits' \in 0..MaxEdits /\ edits' = edits + 1 /\ edits \in Nat
  BY <1>0, <1>1, MasterNumbers DEF MasterShaped
<1>8. \A p \in past' : PastIs(p)
  <2>1. \A l \in Asked : PastIs([list |-> l, rows |-> Shown(master', l), age |-> 0])
    BY DEF PastIs
  <2> QED BY <1>0, <1>1, <2>1 DEF MasterShaped
<1>9. MasterShaped'
  <2>1. leaks' \subseteq {"crossed", "unraised"}
    BY <1>0, <1>1 DEF MasterShaped
  <2> QED BY <1>0, <1>1, <1>4, <1>5, <1>7, <1>8, <2>1 DEF MasterShaped
<1>10. VersionsHeld'
  <2>1. PICK slots : slots = SavedSlots
    OBVIOUS
  <2>2. /\ Cardinality(slots \cup {r}) = Cardinality(slots) + 1 /\ Cardinality(slots) \in Nat
    <3>1. IsFiniteSet(slots) /\ r \notin slots
      BY <2>1, SavedSlotsCounted DEF SavedSlots
    <3>2. Cardinality(slots \cup {r}) = IF r \in slots THEN Cardinality(slots) ELSE Cardinality(slots) + 1
      BY <3>1, FS_AddElement
    <3> QED BY <3>1, <3>2, FS_CardinalityType
  <2>3. listed.key + Cardinality(slots) <= 1 + edits /\ listed.key \in Nat
    BY <1>0, <2>1 DEF VersionsHeld, MasterShaped
  <2>4. listed.key + Cardinality(slots \cup {r}) <= 1 + edits'
    BY <1>7, <2>2, <2>3
  <2>5. listed'.key + Cardinality(SavedSlots') <= 1 + edits'
    BY <1>1, <1>4, <2>1, <2>4
  <2>6. GetCacheVersion(listed)' = GetCacheVersion(listed)
    BY <1>1
  <2> QED BY <1>0, <1>1, <1>3, <1>4, <2>5, <2>6 DEF VersionsHeld
<1>11. ViewsGrow'
  <2> SUFFICES ASSUME NEW o \in Editing, editing'[o].phase = "open", NEW l \in List
               PROVE  Len(editing'[o].view[l]) <= Len(master'[l])
    BY DEF ViewsGrow
  <2>1. o # r /\ editing'[o] = editing[o]
    BY <1>3, <1>4
  <2>2. editing[o].view \in Masters
    BY <1>0, <2>1 DEF MasterShaped, EditIs, Idle
  <2>3. Len(editing[o].view[l]) \in Nat /\ Len(editing[o].view[l]) <= Len(master[l])
    BY <1>0, <2>1, <2>2 DEF ViewsGrow, Masters
  <2> QED BY <1>6, <2>1, <2>3
<1>12. Uncrossed'
  <2> SUFFICES ASSUME "crossed" \notin leaks' PROVE Uncrossed'
    BY DEF Uncrossed
  <2>1. \A o \in Editing \ {r} : editing[o].phase = "idle"
    BY <1>1 DEF InFlight
  <2>2. \A o \in Editing \ {r} : editing'[o].phase = "idle"
    BY <1>4, <2>1
  <2> QED BY <1>3, <1>4, <2>2 DEF Uncrossed
<1>13. NamesDistinct'
  <2> SUFFICES ASSUME NEW l \in List, l # "material" \/ "crossed" \notin leaks',
                      NEW i \in IdsOf(master', l), NEW j \in IdsOf(master', l), i # j
               PROVE  master'[l][i].name # master'[l][j].name
    BY DEF NamesDistinct
  <2>1. l # "material" \/ "crossed" \notin leaks
    BY <1>1
  <2>2. CASE l = list
    BY <1>5, <2>1, <2>2 DEF IdsOf
  <2>3. CASE l # list
    BY <1>0, <1>5, <2>1, <2>3 DEF IdsOf, NamesDistinct
  <2> QED BY <2>2, <2>3
<1>14. CacheFresh'
  BY <1>3, <1>4 DEF CacheFresh
<1>15. CacheRecent'
  <2>1. ASSUME NEW l \in Asked PROVE ShownWithin(past', l, Shown(master', l), 0)
    <3> DEFINE p == [list |-> l, rows |-> Shown(master', l), age |-> 0]
    <3>1. p \in past' /\ p.list = l /\ p.rows = Shown(master', l) /\ p.age <= 0
      BY <1>1
    <3> HIDE DEF p
    <3> QED BY <3>1 DEF ShownWithin
  <2>2. \A l, k, old : ShownWithin(past, l, old, k) => ShownWithin(past', l, old, k)
    BY <1>1 DEF ShownWithin
  <2>3. \A a \in listed'.kept : ShownWithin(past', a.list, a.rows, Ttl + Span - a.left)
    BY <1>0, <1>1, <2>2 DEF CacheRecent
  <2>4. \A o \in Editing : editing'[o].phase = "missed" =>
           ShownWithin(past', editing'[o].list, editing'[o].rows, editing'[o].age)
    BY <1>0, <1>3, <1>4, <2>2 DEF CacheRecent
  <2>5. \A o \in Editing : editing'[o].phase = "open" =>
           \A l \in Asked : ShownWithin(past', l, Shown(editing'[o].view, l), editing'[o].age)
    BY <1>0, <1>3, <1>4, <2>2 DEF CacheRecent
  <2> QED BY <2>1, <2>3, <2>4, <2>5 DEF CacheRecent
<1> QED BY <1>1, <1>9, <1>10, <1>11, <1>12, <1>13, <1>14, <1>15 DEF MasterInv, ServedIsCurrent, ServedIsRecent

LEMMA InsertInv ==
    ASSUME MasterInv, NEW r \in Editing, NEW list \in List, NEW name \in Named, NEW unit \in 0..MaxRows,
           Insert(r, list, name, unit)
    PROVE  MasterInv'
<1> DEFINE old == master[list]
           rows == Append(old, Row(name, unit))
<1>1. /\ editing[r].phase = "open" /\ Saved(r, list, rows)
      /\ Unused(editing[r].view, list, name, 0)
      /\ list = "material" \/ Unused(master, list, name, 0)
  BY DEF Insert, KeyFree
<1>2. master \in Masters /\ old \in Seq(MasterRows) /\ Len(old) \in Nat
  BY DEF MasterInv, MasterShaped, Masters
<1>3. Row(name, unit) \in MasterRows /\ Row(name, unit).name = name
  BY DEF Row, MasterRows
<1>4. /\ rows \in Seq(MasterRows) /\ Len(rows) = Len(old) + 1
      /\ \A i \in 1..Len(old) : rows[i] = old[i]
      /\ rows[Len(old) + 1] = Row(name, unit)
  BY <1>2, <1>3, AppendProperties
<1>5. Len(old) <= Len(rows)
  BY <1>2, <1>4
<1>6. ASSUME list # "material" \/ "crossed" \notin leaks,
             NEW i \in 1..Len(rows), NEW j \in 1..Len(rows), i # j
      PROVE  rows[i].name # rows[j].name
  <2>1. Unused(master, list, name, 0)
    BY <1>1, <1>6 DEF MasterInv, Uncrossed
  <2>2. \A k \in 1..Len(old) : old[k].name # name
    BY <1>2, <2>1 DEF Unused, IdsOf
  <2>3. \A k \in 1..Len(old), m \in 1..Len(old) : k # m => old[k].name # old[m].name
    BY <1>6 DEF MasterInv, NamesDistinct, IdsOf
  <2>4. (i \in 1..Len(old) \/ i = Len(old) + 1) /\ (j \in 1..Len(old) \/ j = Len(old) + 1)
    BY <1>2, <1>4, <1>6
  <2> HIDE DEF rows, old
  <2>5. CASE i \in 1..Len(old) /\ j \in 1..Len(old)
    BY <1>4, <1>6, <2>3, <2>5
  <2>6. CASE i = Len(old) + 1 /\ j \in 1..Len(old)
    BY <1>3, <1>4, <2>2, <2>6
  <2>7. CASE j = Len(old) + 1 /\ i \in 1..Len(old)
    BY <1>3, <1>4, <2>2, <2>7
  <2> QED BY <1>6, <2>4, <2>5, <2>6, <2>7
<1> HIDE DEF rows
<1> QED BY <1>1, <1>4, <1>5, <1>6, SavedInv

\* A changed row: the columns that differ from the snapshot, over the row as it is.
LEMMA ChangedRow ==
    ASSUME NEW new \in MasterRows, NEW old \in MasterRows, NEW now \in MasterRows
    PROVE  LET row == [c \in DOMAIN new |-> IF new[c] = old[c] THEN now[c] ELSE new[c]]
           IN  row \in MasterRows /\ row.name = IF new.name = old.name THEN now.name ELSE new.name
BY DEF MasterRows

\* One row takes a name no other row has, or keeps its own.
LEMMA RowRenamed ==
    ASSUME MasterInv, NEW r \in Editing, editing[r].phase = "open", NEW list \in List,
           NEW id \in 1..Len(master[list]), NEW row \in MasterRows,
           Saved(r, list, [master[list] EXCEPT ![id] = row]),
           row.name = master[list][id].name \/
               (list # "material" \/ "crossed" \notin leaks => Unused(master, list, row.name, id))
    PROVE  MasterInv'
<1> DEFINE old == master[list]
           rows == [old EXCEPT ![id] = row]
<1>1. old \in Seq(MasterRows) /\ Len(old) \in Nat
  BY DEF MasterInv, MasterShaped, Masters
<1>2. /\ rows \in Seq(MasterRows) /\ Len(rows) = Len(old) /\ Len(old) <= Len(rows)
      /\ \A i \in 1..Len(old) : rows[i] = IF i = id THEN row ELSE old[i]
  BY <1>1, ExceptSeq
<1>3. ASSUME list # "material" \/ "crossed" \notin leaks,
             NEW i \in 1..Len(rows), NEW j \in 1..Len(rows), i # j
      PROVE  rows[i].name # rows[j].name
  <2>1. \A k \in 1..Len(old), m \in 1..Len(old) : k # m => old[k].name # old[m].name
    BY <1>3 DEF MasterInv, NamesDistinct, IdsOf
  <2>2. \A k \in 1..Len(old) : k # id => old[k].name # row.name
    <3>1. row.name = old[id].name \/ Unused(master, list, row.name, id)
      BY <1>3
    <3>2. CASE row.name = old[id].name
      BY <2>1, <3>2
    <3>3. CASE Unused(master, list, row.name, id)
      BY <3>3 DEF Unused, IdsOf
    <3> QED BY <3>1, <3>2, <3>3
  <2> HIDE DEF rows, old
  <2> QED BY <1>2, <1>3, <2>1, <2>2
<1>4. Saved(r, list, rows)
  OBVIOUS
<1> HIDE DEF rows
<1> QED BY <1>2, <1>3, <1>4, SavedInv

LEMMA ViewedRow ==
    ASSUME MasterInv, NEW r \in Editing, editing[r].phase = "open", NEW list \in List,
           NEW id \in IdsOf(editing[r].view, list)
    PROVE  /\ id \in 1..Len(master[list]) /\ master[list][id] \in MasterRows
           /\ editing[r].view[list][id] \in MasterRows
           /\ "crossed" \notin leaks => editing[r].view = master
<1>1. editing[r].view \in Masters /\ master \in Masters
  BY DEF MasterInv, MasterShaped, EditIs, Idle
<1>2. PICK view \in Masters : view = editing[r].view
  BY <1>1
<1>3. PICK now \in Masters : now = master
  BY <1>1
<1>4. Len(view[list]) <= Len(now[list])
  BY <1>2, <1>3 DEF MasterInv, ViewsGrow
<1>5. /\ Len(view[list]) \in Nat /\ Len(now[list]) \in Nat
      /\ id \in 1..Len(view[list]) /\ view[list][id] \in MasterRows
      /\ \A i \in 1..Len(now[list]) : now[list][i] \in MasterRows
  BY <1>2, MasterLists
<1>6. id \in 1..Len(now[list])
  BY <1>4, <1>5
<1> QED BY <1>2, <1>3, <1>5, <1>6 DEF MasterInv, Uncrossed

LEMMA ChangeInv ==
    ASSUME MasterInv, NEW r \in Editing, NEW list \in List, NEW id, NEW new \in MasterRows,
           Change(r, list, id, new)
    PROVE  MasterInv'
<1> DEFINE old == editing[r].view[list][id]
           now == master[list][id]
           row == [c \in DOMAIN new |-> IF new[c] = old[c] THEN now[c] ELSE new[c]]
<1>1. /\ editing[r].phase = "open" /\ id \in IdsOf(editing[r].view, list)
      /\ Unused(editing[r].view, list, new.name, id)
      /\ new.name # old.name => list = "material" \/ Unused(master, list, new.name, id)
      /\ Saved(r, list, [master[list] EXCEPT
              ![id] = [c \in DOMAIN new |-> IF new[c] = old[c] THEN @[c] ELSE new[c]]])
  BY DEF Change, KeyFree
<1>2. /\ id \in 1..Len(master[list]) /\ now \in MasterRows /\ old \in MasterRows
      /\ "crossed" \notin leaks => editing[r].view = master
  BY <1>1, ViewedRow
<1>3. row \in MasterRows /\ row.name = IF new.name = old.name THEN now.name ELSE new.name
  BY SMTT(40), <1>2, ChangedRow
<1>4. Saved(r, list, [master[list] EXCEPT ![id] = row])
  <2>1. DOMAIN master[list] = 1..Len(master[list])
    BY DEF MasterInv, MasterShaped, Masters
  <2>2. [master[list] EXCEPT ![id] = row]
          = [master[list] EXCEPT ![id] = [c \in DOMAIN new |-> IF new[c] = old[c] THEN @[c] ELSE new[c]]]
    BY <1>2, <2>1
  <2> QED BY <1>1, <2>2
<1>5. row.name = now.name \/
          (list # "material" \/ "crossed" \notin leaks => Unused(master, list, row.name, id))
  BY <1>1, <1>2, <1>3
<1> HIDE DEF row
<1> QED BY <1>1, <1>2, <1>3, <1>4, <1>5, RowRenamed

LEMMA SoftDeleteInv ==
    ASSUME MasterInv, NEW r \in Editing, NEW list \in List, NEW id, SoftDelete(r, list, id)
    PROVE  MasterInv'
<1> DEFINE now == master[list][id]
           row == [now EXCEPT !.active = FALSE]
<1>1. /\ editing[r].phase = "open" /\ id \in IdsOf(editing[r].view, list)
      /\ Saved(r, list, [master[list] EXCEPT ![id].active = FALSE])
  BY DEF SoftDelete
<1>2. id \in 1..Len(master[list]) /\ now \in MasterRows
  BY <1>1, ViewedRow
<1>3. row \in MasterRows /\ row.name = now.name
  BY <1>2 DEF MasterRows
<1>4. Saved(r, list, [master[list] EXCEPT ![id] = row])
  BY <1>1
<1> HIDE DEF row
<1> QED BY <1>1, <1>2, <1>3, <1>4, RowRenamed

\* A commit is announced, or its announcement is lost.
LEMMA AnnounceInv == ASSUME MasterInv, NEW r \in Editing, Announce(r) \/ LoseAnnounce(r) PROVE MasterInv'
<1>0. MasterShaped /\ VersionsHeld /\ ViewsGrow /\ Uncrossed /\ NamesDistinct /\ CacheFresh /\ CacheRecent
  BY DEF MasterInv
<1>1. /\ editing[r].phase = "saved" /\ editing' = [editing EXCEPT ![r] = Idle]
      /\ answered' = [current |-> TRUE, recent |-> TRUE] /\ UNCHANGED <<master, past, edits>>
      /\ leaks \subseteq leaks' /\ leaks' \subseteq leaks \cup {"unraised"}
      /\ \/ listed' = listed /\ leaks' # {}
         \/ listed' = [listed EXCEPT !.key = @ + 1] /\ (leaks' # {} \/ listed.key # 0)
  BY DEF Announce, LoseAnnounce, Raised, BumpCacheVersion, NothingAnswered, NoAnswer
<1>2. EditIs(Idle) /\ Idle.phase = "idle"
  BY DEF EditIs, Idle
<1>3. /\ editing'[r] = Idle /\ \A o \in Editing : o # r => editing'[o] = editing[o]
      /\ editing' = [o \in Editing |-> editing'[o]] /\ \A o \in Editing : EditIs(editing'[o])
      /\ SavedSlots' = SavedSlots \ {r}
  <2>1. /\ editing'[r] = Idle /\ \A o \in Editing : o # r => editing'[o] = editing[o]
        /\ editing' = [o \in Editing |-> editing'[o]] /\ \A o \in Editing : EditIs(editing'[o])
        /\ Idle.phase # "saved" => SavedSlots' = SavedSlots \ {r}
    BY <1>0, <1>1, <1>2, SlotMoves
  <2> QED BY <1>2, <2>1
<1>4. /\ listed' = [key |-> listed'.key, kept |-> listed'.kept] /\ listed'.kept = listed.kept
      /\ listed'.key = listed.key \/ listed'.key = listed.key + 1
      /\ listed.key \in Nat /\ listed'.key \in Nat
  BY <1>0, <1>1 DEF MasterShaped
<1>5. GetCacheVersion(listed) \in Nat /\ GetCacheVersion(listed)' \in Nat
      /\ GetCacheVersion(listed) <= GetCacheVersion(listed)'
  BY <1>4 DEF GetCacheVersion
<1>6. MasterShaped'
  <2>1. leaks' \subseteq {"crossed", "unraised"}
    BY <1>0, <1>1 DEF MasterShaped
  <2> QED BY <1>0, <1>1, <1>3, <1>4, <2>1 DEF MasterShaped
<1>7. VersionsHeld'
  <2>1. /\ Cardinality(SavedSlots') \in Nat /\ Cardinality(SavedSlots) \in Nat
        /\ Cardinality(SavedSlots') = Cardinality(SavedSlots) - 1
    <3>1. r \in SavedSlots
      BY <1>1 DEF SavedSlots
    <3> QED BY <1>3, <3>1, SavedSlotLeft
  <2>2. listed.key + Cardinality(SavedSlots) <= 1 + edits /\ edits \in Nat
    BY <1>0, MasterNumbers DEF VersionsHeld, MasterShaped
  <2>3. listed'.key + Cardinality(SavedSlots') <= 1 + edits'
    BY <1>1, <1>4, <2>1, <2>2
  <2>4. \A a \in listed'.kept : a.version <= GetCacheVersion(listed)'
    <3> SUFFICES ASSUME NEW a \in listed.kept PROVE a.version <= GetCacheVersion(listed)'
      BY <1>4
    <3>1. a.version \in Nat /\ a.version <= GetCacheVersion(listed)
      BY <1>0 DEF MasterShaped, KeptIs, VersionsHeld
    <3> QED BY <1>5, <3>1
  <2>5. \A o \in Editing : editing'[o].phase = "missed" => editing'[o].version <= GetCacheVersion(listed)'
    <3> SUFFICES ASSUME NEW o \in Editing, editing'[o].phase = "missed"
                 PROVE  editing'[o].version <= GetCacheVersion(listed)'
      OBVIOUS
    <3>1. o # r /\ editing'[o] = editing[o]
      BY <1>2, <1>3
    <3>2. editing[o].version \in Nat /\ editing[o].version <= GetCacheVersion(listed)
      BY <1>0, <3>1 DEF MasterShaped, EditIs, Idle, VersionsHeld
    <3> QED BY <1>5, <3>1, <3>2
  <2> QED BY <2>3, <2>4, <2>5 DEF VersionsHeld
<1>8. ViewsGrow' /\ Uncrossed'
  <2>1. ViewsGrow'
    BY <1>0, <1>1, <1>2, <1>3 DEF ViewsGrow
  <2>2. Uncrossed'
    BY <1>0, <1>1, <1>2, <1>3 DEF Uncrossed
  <2> QED BY <2>1, <2>2
<1>9. NamesDistinct'
  BY <1>0, <1>1, NamesSame
<1>10. CacheFresh'
  <2> SUFFICES ASSUME leaks' = {} PROVE CacheFresh'
    BY DEF CacheFresh
  <2>1. leaks = {} /\ listed.key # 0 /\ listed'.key = listed.key + 1
    BY <1>0, <1>1 DEF MasterShaped
  <2>2. GetCacheVersion(listed) = listed.key /\ GetCacheVersion(listed)' = listed.key + 1
    BY <1>4, <2>1 DEF GetCacheVersion
  <2>3. \A a \in listed'.kept : a.version # GetCacheVersion(listed)'
    <3> SUFFICES ASSUME NEW a \in listed.kept PROVE a.version # GetCacheVersion(listed)'
      BY <1>4
    <3>1. a.version \in Nat /\ a.version <= GetCacheVersion(listed)
      BY <1>0 DEF MasterShaped, KeptIs, VersionsHeld
    <3> QED BY <1>4, <2>2, <3>1
  <2>4. \A o \in Editing : editing'[o].phase # "missed"
    BY <1>0, <1>1, <1>2, <1>3, <2>1 DEF Uncrossed
  <2> QED BY <2>3, <2>4 DEF CacheFresh
<1>11. CacheRecent'
  BY <1>0, <1>1, <1>2, <1>3, <1>4 DEF CacheRecent
<1> QED BY <1>1, <1>6, <1>7, <1>8, <1>9, <1>10, <1>11 DEF MasterInv, ServedIsCurrent, ServedIsRecent

\* What was shown k ticks ago was shown k + 1 ticks ago once the clock has ticked.
LEMMA ShownLater ==
    ASSUME MasterShaped, Tick, NEW l, NEW rows, NEW k \in Nat, k < Ttl + Span, ShownWithin(past, l, rows, k)
    PROVE  ShownWithin(past', l, rows, k + 1)
<1>1. past' = {[p EXCEPT !.age = @ + 1] :
                  p \in {p \in past : p.age < Ttl + Span /\ p.rows # Shown(master, p.list)}}
                \cup {[list |-> m, rows |-> Shown(master, m), age |-> 0] : m \in Asked}
  BY DEF Tick
<1>2. PICK p \in past : p.list = l /\ p.rows = rows /\ p.age <= k
  BY DEF ShownWithin
<1>3. p = [list |-> p.list, rows |-> p.rows, age |-> p.age] /\ p.list \in Asked /\ p.age \in Nat
  BY DEF MasterShaped, PastIs
<1>4. CASE p.rows = Shown(master, p.list)
  <2> DEFINE n == [list |-> p.list, rows |-> Shown(master, p.list), age |-> 0]
  <2>1. n \in past' /\ n.list = l /\ n.rows = rows /\ n.age = 0
    BY <1>1, <1>2, <1>3, <1>4
  <2> HIDE DEF n
  <2> QED BY <2>1 DEF ShownWithin
<1>5. CASE p.rows # Shown(master, p.list)
  <2> DEFINE n == [p EXCEPT !.age = @ + 1]
  <2>1. p.age < Ttl + Span
    BY <1>2, <1>3, MasterNumbers
  <2>2. n \in past'
    BY <1>1, <1>5, <2>1
  <2>3. n.list = l /\ n.rows = rows /\ n.age <= k + 1
    BY <1>2, <1>3
  <2> HIDE DEF n
  <2> QED BY <2>2, <2>3 DEF ShownWithin
<1> QED BY <1>4, <1>5

LEMMA TickInv == ASSUME MasterInv, Tick PROVE MasterInv'
<1>0. MasterShaped /\ VersionsHeld /\ ViewsGrow /\ Uncrossed /\ NamesDistinct /\ CacheFresh /\ CacheRecent
  BY DEF MasterInv
<1>1. /\ \A r \in Editing : InFlight(r) => editing[r].age < Span
      /\ listed' = [listed EXCEPT !.kept = {[a EXCEPT !.left = @ - 1] : a \in {a \in @ : a.left > 1}}]
      /\ editing' = [r \in Editing |-> IF InFlight(r) THEN [editing[r] EXCEPT !.age = @ + 1] ELSE Idle]
      /\ answered' = [current |-> TRUE, recent |-> TRUE] /\ UNCHANGED <<master, leaks, edits>>
  BY DEF Tick, Aged, Expired, NothingAnswered, NoAnswer
\* A request keeps all but its age.
<1>2. ASSUME NEW r \in Editing
      PROVE  /\ EditIs(editing'[r]) /\ editing'[r].phase = editing[r].phase
             /\ editing[r].phase = "open" => editing'[r].view = editing[r].view
             /\ editing[r].phase = "missed" => /\ editing'[r].list = editing[r].list
                                               /\ editing'[r].rows = editing[r].rows
                                               /\ editing'[r].version = editing[r].version
             /\ editing[r].phase # "idle" => /\ editing'[r].age = editing[r].age + 1
                                             /\ editing[r].age \in Nat /\ editing[r].age < Span
  <2>1. PICK q : q = editing[r]
    OBVIOUS
  <2>2. EditIs(q)
    BY <1>0, <2>1 DEF MasterShaped
  <2>3. CASE q.phase = "idle"
    <3>1. q = Idle /\ editing'[r] = Idle
      BY <1>1, <2>1, <2>2, <2>3 DEF EditIs, InFlight
    <3> QED BY <2>1, <2>2, <2>3, <3>1 DEF Idle
  <2>4. CASE q.phase # "idle"
    <3>1. editing'[r] = [q EXCEPT !.age = @ + 1]
      BY <1>1, <2>1, <2>4 DEF InFlight
    <3>2. q # Idle
      BY <2>4 DEF Idle
    <3>3. q.age \in 0..Span /\ q.age < Span /\ q.age \in Nat /\ q.age + 1 \in 0..Span
      BY <1>1, <2>1, <2>2, <2>4, <3>2, MasterNumbers DEF EditIs, InFlight
    <3>4. CASE q = [phase |-> "open", view |-> q.view, age |-> q.age]
      BY <2>1, <2>2, <3>1, <3>2, <3>3, <3>4 DEF EditIs
    <3>5. CASE q = [phase |-> "missed", list |-> q.list, version |-> q.version, rows |-> q.rows, age |-> q.age]
      <4>1. q.phase = "missed" /\ q.list \in Asked /\ q.version \in Nat \ {0}
        BY <2>2, <3>2, <3>5 DEF EditIs
      <4>2. editing'[r] = [phase |-> "missed", list |-> q.list, version |-> q.version, rows |-> q.rows,
                           age |-> q.age + 1]
        BY <3>1, <3>5
      <4> QED BY <2>1, <3>3, <4>1, <4>2 DEF EditIs
    <3>6. CASE q = [phase |-> "saved", age |-> q.age]
      BY <2>1, <2>2, <3>1, <3>2, <3>3, <3>6 DEF EditIs
    <3> QED BY <2>2, <3>2, <3>4, <3>5, <3>6 DEF EditIs
  <2> QED BY <2>3, <2>4
<1>3. /\ listed' = [key |-> listed'.key, kept |-> listed'.kept] /\ listed'.key = listed.key
      /\ listed'.kept = {[a EXCEPT !.left = @ - 1] : a \in {a \in listed.kept : a.left > 1}}
  BY <1>0, <1>1 DEF MasterShaped
<1>4. ASSUME NEW b \in listed'.kept
      PROVE  KeptIs(b) /\ \E a \in listed.kept : /\ a.list = b.list /\ a.version = b.version /\ a.rows = b.rows
                                                 /\ a.left = b.left + 1 /\ KeptIs(a)
  <2>1. PICK a \in listed.kept : a.left > 1 /\ b = [a EXCEPT !.left = @ - 1]
    BY <1>3
  <2>2. KeptIs(a)
    BY <1>0 DEF MasterShaped
  <2>3. b = [list |-> a.list, version |-> a.version, rows |-> a.rows, left |-> a.left - 1]
    BY <2>1, <2>2 DEF KeptIs
  <2>4. a.left - 1 \in 1..Ttl /\ a.left = (a.left - 1) + 1
    BY <2>1, <2>2, MasterNumbers DEF KeptIs
  <2> QED BY <2>2, <2>3, <2>4 DEF KeptIs
<1>5. GetCacheVersion(listed)' = GetCacheVersion(listed)
  BY <1>3 DEF GetCacheVersion
<1>6. past' = {[p EXCEPT !.age = @ + 1] :
                  p \in {p \in past : p.age < Ttl + Span /\ p.rows # Shown(master, p.list)}}
                \cup {[list |-> m, rows |-> Shown(master, m), age |-> 0] : m \in Asked}
  BY DEF Tick
<1>7. MasterShaped'
  <2>1. \A p \in past' : PastIs(p)
    <3>1. \A p \in past : PastIs([p EXCEPT !.age = @ + 1])
      BY <1>0 DEF MasterShaped, PastIs
    <3>2. \A m \in Asked : PastIs([list |-> m, rows |-> Shown(master, m), age |-> 0])
      BY DEF PastIs
    <3> QED BY <1>6, <3>1, <3>2
  <2>2. editing' = [r \in Editing |-> editing'[r]]
    BY <1>1
  <2>3. listed'.key \in Nat /\ \A b \in listed'.kept : KeptIs(b)
    BY <1>0, <1>3, <1>4 DEF MasterShaped
  <2>4. \A r \in Editing : EditIs(editing'[r])
    BY <1>2
  <2> QED BY <1>0, <1>1, <1>3, <2>1, <2>2, <2>3, <2>4 DEF MasterShaped
<1>8. \A r \in Editing : editing'[r].phase = editing[r].phase
  BY <1>2
<1>20. \A r \in Editing : editing[r].phase = "open" => editing'[r].view = editing[r].view
  BY <1>2
<1>21. master' = master
  BY <1>1
<1>22. "crossed" \in leaks' <=> "crossed" \in leaks
  BY <1>1
<1>9. SavedSlots' = SavedSlots
  BY <1>8 DEF SavedSlots
<1>10. VersionsHeld'
  <2>1. \A b \in listed'.kept : b.version <= GetCacheVersion(listed)
    BY <1>0, <1>4 DEF VersionsHeld
  <2>2. \A r \in Editing : editing'[r].phase = "missed" => editing'[r].version <= GetCacheVersion(listed)
    BY <1>0, <1>2 DEF VersionsHeld
  <2> QED BY <1>0, <1>1, <1>3, <1>5, <1>9, <2>1, <2>2 DEF VersionsHeld
<1>11. ViewsGrow'
  <2>1. \A r \in Editing : editing[r].phase = "open" =>
            \A l \in List : Len(editing[r].view[l]) <= Len(master[l])
    BY <1>0 DEF ViewsGrow
  <2>2. ASSUME NEW r \in Editing, editing'[r].phase = "open", NEW l \in List
        PROVE  Len(editing'[r].view[l]) <= Len(master'[l])
    <3>1. editing[r].phase = "open" /\ editing'[r].view = editing[r].view
      BY <1>8, <1>20, <2>2
    <3>2. Len(editing[r].view[l]) <= Len(master[l])
      BY <2>1, <3>1
    <3> QED BY <1>21, <3>1, <3>2
  <2> QED BY <2>2 DEF ViewsGrow
<1>12. Uncrossed'
  <2> SUFFICES ASSUME "crossed" \notin leaks' PROVE Uncrossed'
    BY DEF Uncrossed
  <2>1. /\ \A r \in Editing : editing[r].phase = "open" => editing[r].view = master
        /\ \A r \in Editing : editing[r].phase = "saved" =>
              \A o \in Editing \ {r} : editing[o].phase = "idle"
    BY <1>0, <1>22 DEF Uncrossed
  <2>2. \A r \in Editing : editing'[r].phase = "open" => editing'[r].view = master'
    BY <1>8, <1>20, <1>21, <2>1
  <2>3. \A r \in Editing : editing'[r].phase = "saved" =>
              \A o \in Editing \ {r} : editing'[o].phase = "idle"
    BY <1>8, <2>1
  <2> QED BY <2>2, <2>3 DEF Uncrossed
<1>13. NamesDistinct'
  BY <1>0, <1>1, NamesSame
<1>14. CacheFresh'
  <2> SUFFICES ASSUME leaks' = {}, \A r \in Editing : editing'[r].phase # "saved" PROVE CacheFresh'
    BY DEF CacheFresh
  <2>1. /\ \A a \in listed.kept : a.version = GetCacheVersion(listed) => a.rows = Shown(master, a.list)
        /\ \A r \in Editing : editing[r].phase = "missed" => editing[r].rows = Shown(master, editing[r].list)
    BY <1>0, <1>1, <1>8 DEF CacheFresh
  <2>2. \A b \in listed'.kept : b.version = GetCacheVersion(listed)' => b.rows = Shown(master, b.list)
    BY <1>4, <1>5, <2>1
  <2>3. \A r \in Editing : editing'[r].phase = "missed" => editing'[r].rows = Shown(master, editing'[r].list)
    BY <1>2, <2>1
  <2> QED BY <1>1, <2>2, <2>3 DEF CacheFresh
<1>15. CacheRecent'
  <2>1. ASSUME NEW l \in Asked PROVE ShownWithin(past', l, Shown(master, l), 0)
    <3> DEFINE p == [list |-> l, rows |-> Shown(master, l), age |-> 0]
    <3>1. p \in past' /\ p.list = l /\ p.rows = Shown(master, l) /\ p.age <= 0
      BY <1>6
    <3> HIDE DEF p
    <3> QED BY <3>1 DEF ShownWithin
  <2>2. ASSUME NEW r \in Editing, editing'[r].phase = "open", NEW l \in Asked
        PROVE  ShownWithin(past', l, Shown(editing'[r].view, l), editing'[r].age)
    <3>1. /\ editing[r].phase = "open" /\ editing'[r].view = editing[r].view
          /\ editing'[r].age = editing[r].age + 1 /\ editing[r].age \in Nat /\ editing[r].age < Span
      BY <1>2, <2>2
    <3>2. PICK k \in Nat : k = editing[r].age
      BY <3>1
    <3>3. PICK rows : rows = Shown(editing[r].view, l)
      OBVIOUS
    <3>4. ShownWithin(past, l, rows, k) /\ k < Ttl + Span
      BY <1>0, <3>1, <3>2, <3>3, MasterNumbers DEF CacheRecent
    <3>5. ShownWithin(past', l, rows, k + 1)
      BY <1>0, <3>4, ShownLater
    <3> QED BY <3>1, <3>2, <3>3, <3>5
  <2>3. ASSUME NEW r \in Editing, editing'[r].phase = "missed"
        PROVE  ShownWithin(past', editing'[r].list, editing'[r].rows, editing'[r].age)
    <3>1. /\ editing[r].phase = "missed" /\ editing'[r].list = editing[r].list
          /\ editing'[r].rows = editing[r].rows
          /\ editing'[r].age = editing[r].age + 1 /\ editing[r].age \in Nat /\ editing[r].age < Span
      BY <1>2, <2>3
    <3>2. PICK k \in Nat : k = editing[r].age
      BY <3>1
    <3>3. PICK rows : rows = editing[r].rows
      OBVIOUS
    <3>4. PICK l : l = editing[r].list
      OBVIOUS
    <3>5. ShownWithin(past, l, rows, k) /\ k < Ttl + Span
      BY <1>0, <3>1, <3>2, <3>3, <3>4, MasterNumbers DEF CacheRecent
    <3>6. ShownWithin(past', l, rows, k + 1)
      BY <1>0, <3>5, ShownLater
    <3> QED BY <3>1, <3>2, <3>3, <3>4, <3>6
  <2>4. ASSUME NEW b \in listed'.kept PROVE ShownWithin(past', b.list, b.rows, Ttl + Span - b.left)
    <3>1. PICK a \in listed.kept : /\ a.list = b.list /\ a.rows = b.rows
                                   /\ a.left = b.left + 1 /\ KeptIs(a)
      BY <1>4
    <3>2. b.left \in 1..Ttl /\ a.left \in 1..Ttl
      BY <1>4, <3>1 DEF KeptIs
    <3>3. PICK k : k = Ttl + Span - a.left
      OBVIOUS
    <3>4. k \in Nat /\ k < Ttl + Span /\ k + 1 = Ttl + Span - b.left
      BY <3>1, <3>2, <3>3, MasterNumbers
    <3>5. ShownWithin(past, b.list, b.rows, k)
      BY <1>0, <3>1, <3>3 DEF CacheRecent
    <3>6. ShownWithin(past', b.list, b.rows, k + 1)
      BY <1>0, <3>4, <3>5, ShownLater
    <3> QED BY <3>4, <3>6
  <2> QED BY <1>1, <2>1, <2>2, <2>3, <2>4 DEF CacheRecent
<1> QED BY <1>1, <1>7, <1>10, <1>11, <1>12, <1>13, <1>14, <1>15 DEF MasterInv, ServedIsCurrent, ServedIsRecent

LEMMA MasterNextInv == MasterInv /\ [MasterNext]_masterVars => MasterInv'
<1> SUFFICES ASSUME MasterInv, [MasterNext]_masterVars PROVE MasterInv'
  OBVIOUS
<1>0. /\ {"unit", "labour_type", "activity_type", "material"} \subseteq List /\ Asked \subseteq List
      /\ 0 \in 0..MaxRows
  BY MasterNumbers DEF List
<1>1. CASE Tick
  BY <1>1, TickInv
<1>2. ASSUME NEW r \in Editing, Open(r) PROVE MasterInv'
  BY <1>2, OpenInv
<1>3. ASSUME NEW r \in Editing, KeepList(r) PROVE MasterInv'
  BY <1>3, KeepListInv
<1>4. ASSUME NEW r \in Editing, Announce(r) \/ LoseAnnounce(r) PROVE MasterInv'
  BY <1>4, AnnounceInv
<1>5. ASSUME NEW r \in Editing, NEW list \in Asked, GetList(r, list) PROVE MasterInv'
  BY <1>5, GetListInv
<1>6. ASSUME NEW r \in Editing, NEW name \in Named, CreateUnit(r, name) \/ CreateLabourType(r, name)
      PROVE  MasterInv'
  BY <1>0, <1>6, InsertInv DEF CreateUnit, CreateLabourType
<1>7. ASSUME NEW r \in Editing, NEW name \in Named, NEW unit \in 0..MaxRows,
             CreateActivityType(r, name, unit) \/ CreateMaterialMaster(r, name, unit)
      PROVE  MasterInv'
  BY <1>0, <1>7, InsertInv DEF CreateActivityType, CreateMaterialMaster
<1>8. ASSUME NEW r \in Editing, NEW id \in 1..MaxRows,
             \/ DeleteUnit(r, id) \/ DeleteLabourType(r, id)
             \/ DeleteActivityType(r, id) \/ DeleteMaterialMaster(r, id)
      PROVE  MasterInv'
  BY <1>0, <1>8, SoftDeleteInv DEF DeleteUnit, DeleteLabourType, DeleteActivityType, DeleteMaterialMaster
<1>9. ASSUME NEW r \in Editing, NEW id \in 1..MaxRows,
             NEW new \in [name : Named, unit : 0..MaxRows, active : BOOLEAN],
             \/ UpdateUnit(r, id, new) \/ UpdateLabourType(r, id, new)
             \/ UpdateActivityType(r, id, new) \/ UpdateMaterialMaster(r, id, new)
      PROVE  MasterInv'
  <2>1. new \in MasterRows
    BY DEF MasterRows
  <2>2. PICK list \in List : Change(r, list, id, new)
    BY <1>0, <1>9 DEF UpdateUnit, UpdateLabourType, UpdateActivityType, UpdateMaterialMaster
  <2> QED BY <2>1, <2>2, ChangeInv
<1>10. CASE UNCHANGED masterVars
  <2>1. /\ UNCHANGED <<master, listed, editing, past, answered, leaks, edits>>
        /\ SavedSlots' = SavedSlots /\ GetCacheVersion(listed)' = GetCacheVersion(listed)
    BY <1>10 DEF masterVars, SavedSlots
  <2>2. MasterShaped' /\ VersionsHeld' /\ ViewsGrow' /\ Uncrossed'
    BY <2>1 DEF MasterInv, MasterShaped, VersionsHeld, ViewsGrow, Uncrossed
  <2>3. NamesDistinct' /\ CacheFresh' /\ ServedIsCurrent' /\ CacheRecent' /\ ServedIsRecent'
    BY <2>1 DEF MasterInv, NamesDistinct, CacheFresh, ServedIsCurrent, CacheRecent, ServedIsRecent
  <2> QED BY <2>2, <2>3 DEF MasterInv
<1> QED BY <1>1, <1>2, <1>3, <1>4, <1>5, <1>6, <1>7, <1>8, <1>9, <1>10 DEF MasterNext

\* No two rows of a master list have one name, an answer is the list as it is unless a
\* reader and a writer crossed or a version was not raised, and whatever happens it is no
\* older than it is kept and a request lasts (get_units, create_unit, update_unit,
\* cache_get_json, bump_cache_version).
THEOREM MasterServedAlways ==
    MasterSpec => [](NamesDistinct /\ ServedIsCurrent /\ ServedIsRecent /\ MasterViewsAgree)
<1>1. MasterSpec => []MasterInv
  BY MasterInitInv, MasterNextInv, PTL DEF MasterSpec
<1>2. MasterInv => NamesDistinct /\ ServedIsCurrent /\ ServedIsRecent /\ MasterViewsAgree
  BY MasterInvHolds
<1> QED BY <1>1, <1>2, PTL

-----------------------------------------------------------------------------
(* The platform as a whole.                                                 *)

\* The scene that is shown keeps its component's invariant.
PlatformInvs ==
    /\ scene \in Scene
    /\ scene = "master"   => MasterInv
    /\ scene = "signin"   => SignInInv
    /\ scene = "sessions" => SessionsInv
    /\ scene = "users"    => UsersInv
    /\ scene = "roles"    => RolesInv
    /\ scene = "groups"   => GroupsInv
    /\ scene = "messages" => ChatInv

LEMMA PlatformInvsInit == MCInit => PlatformInvs
BY MasterInitInv, SignInInitInv, SessionsInitInv, UsersInitInv, RolesInitInv, GroupsInitInv,
   MessagesInitInv DEF MCInit, PlatformInvs

LEMMA PlatformInvsNext ==
    ASSUME PlatformInvs, [MCNext]_allVars
    PROVE  PlatformInvs'
<1>1. /\ scene' = scene
      /\ scene = "master"   => [MasterNext]_masterVars
      /\ scene = "signin"   => [SignInNext]_signInVars
      /\ scene = "sessions" => [SessionsNext]_sessionVars
      /\ scene = "users"    => [UsersNext]_userVars
      /\ scene = "roles"    => [RolesNext]_roleVars
      /\ scene = "groups"   => [GroupsNext]_groupVars
      /\ scene = "messages" => [MessagesNext]_chatVars
  BY DEF MCNext, allVars
<1>2. CASE scene = "master"
  BY <1>1, <1>2, MasterNextInv DEF PlatformInvs
<1>3. CASE scene = "signin"
  BY <1>1, <1>3, SignInNextInv DEF PlatformInvs
<1>4. CASE scene = "sessions"
  BY <1>1, <1>4, SessionsNextInv DEF PlatformInvs
<1>5. CASE scene = "users"
  BY <1>1, <1>5, UsersNextInv DEF PlatformInvs
<1>6. CASE scene = "roles"
  BY <1>1, <1>6, RolesNextInv DEF PlatformInvs
<1>7. CASE scene = "groups"
  BY <1>1, <1>7, GroupsNextInv DEF PlatformInvs
<1>8. CASE scene = "messages"
  BY <1>1, <1>8, MessagesNextInv DEF PlatformInvs
<1> QED BY <1>2, <1>3, <1>4, <1>5, <1>6, <1>7, <1>8 DEF PlatformInvs, Scene

LEMMA PlatformInvsAlways == MCSpec => []PlatformInvs
BY PlatformInvsInit, PlatformInvsNext, PTL DEF MCSpec

\* Every table and every key of Redis keeps its columns' types, whatever requests overlap.
THEOREM PlatformTypesAlways == MCSpec => []PlatformTypesOK
<1>1. PlatformInvs => PlatformTypesOK
  BY MasterInvHolds, SignInInvHolds, UsersInvHolds, RolesInvHolds, GroupsInvHolds, ChatInvHolds
     DEF PlatformInvs, PlatformTypesOK, SessionsInv
<1> QED BY <1>1, PlatformInvsAlways, PTL

\* Who may come in, and what they may do there: one session for a code and few guesses
\* answered, sessions that end when they were ended, users within the plan whose trail
\* tells what they became, and what the role and the exceptions to it give
\* (auth.py, core/security.py, user.py, rbac.py).
THEOREM AccountsHoldAlways == MCSpec => []AccountsHold
<1>1. PlatformInvs => AccountsHold
  BY SignInInvHolds, SessionsInvHold, UsersInvHolds, RolesInvHolds DEF PlatformInvs, AccountsHold
<1> QED BY <1>1, PlatformInvsAlways, PTL

\* What people are shown is what was written: the cached lists of master data and of
\* users, the members of groups, and messages with who has read them (master_data.py,
\* user.py, chat.py).
THEOREM AnswersHoldAlways == MCSpec => []AnswersHold
<1>1. PlatformInvs => AnswersHold
  BY MasterInvHolds, UsersInvHolds, GroupsInvHolds, ChatInvHolds DEF PlatformInvs, AnswersHold
<1> QED BY <1>1, PlatformInvsAlways, PTL
=============================================================================
