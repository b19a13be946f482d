--------------------------- MODULE MemoryCacheUse ---------------------------
(***************************************************************************)
(* MemoryCacheAdapter, and when its keys were last used: what the          *)
(* documents say it evicts by.                                             *)
(***************************************************************************)
EXTENDS MemoryCache

VARIABLE idle  \* history: the other keys written or found since the key's last use

\* k is used; the other keys that are due have not been since.
Uses(k) == idle' = [j \in Keys |-> IF j = k \/ due[j] <= mtime THEN {} ELSE idle[j] \union {k}]

InitUse == Init /\ idle = [k \in Keys |-> {}]

NextUse ==
  \/ \E k \in Keys :
       \/ /\ Get(k) \/ \E ttl \in TTLs : Enter(k, ttl)
          /\ IF \E i \in DOMAIN store' : store'[i].key = k THEN Uses(k) ELSE UNCHANGED idle
       \/ \E ttl \in TTLs : Set(k, ttl) /\ Uses(k)
       \/ Delete(k) /\ UNCHANGED idle
  \/ Return /\ Uses(Top(frames).key)
  \/ (Clear \/ Raise \/ Tick) /\ UNCHANGED idle

SpecUse == InitUse /\ [][NextUse]_<<vars, idle>>

-----------------------------------------------------------------------------
(* Properties *)

\* "LRU eviction": a value is there until it expires, is removed, or as many
\* other keys as the cache holds have been in use since its own last use.
\* The code evicts in the order of writing, and a read moves nothing.
KeepsRecentlyUsed ==
  \A k \in Keys :
    (mtime < due[k] /\ (MaxSize = 0 \/ Cardinality(idle[k]) < MaxSize)) =>
      \E i \in DOMAIN store : store[i].key = k
=============================================================================
