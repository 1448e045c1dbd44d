---------------------------- MODULE ResponseCache ----------------------------
(***************************************************************************)
(* The versioned cache of answers in Redis (app/cache/redis.py): an answer   *)
(* is kept under a key that holds the version of its list, for a number of   *)
(* ticks; a writer raises the version, and what is kept under an older one   *)
(* is never looked up again.  key is 0 while Redis holds no version key.     *)
(***************************************************************************)
EXTENDS Naturals

NoAnswers == [key |-> 0, kept |-> {}]

\* A missing key reads as version 1.
GetCacheVersion(cache) == IF cache.key = 0 THEN 1 ELSE cache.key
\* INCR takes a missing key for 0.
BumpCacheVersion(cache) == [cache EXCEPT !.key = @ + 1]

\* The handlers take an empty answer for none.
CacheGetJson(cache, list, version) ==
    {a.rows : a \in {a \in cache.kept : a.list = list /\ a.version = version}} \ {{}}
CacheSetJson(cache, list, version, rows, ttl) ==
    [cache EXCEPT !.kept =
        {a \in @ : ~(a.list = list /\ a.version = version)}
          \cup {[list |-> list, version |-> version, rows |-> rows, left |-> ttl]}]

\* A tick of Redis' clock: what has no time left is gone.
Expired(cache) ==
    [cache EXCEPT !.kept = {[a EXCEPT !.left = @ - 1] : a \in {a \in @ : a.left > 1}}]
=============================================================================
