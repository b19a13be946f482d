----------------------------- MODULE MemoryCache -----------------------------
(***************************************************************************)
(* MemoryCacheAdapter: an ordered dict of entries that expire, the oldest  *)
(* of which make room for new ones.  get_or_set calls a factory that may   *)
(* use the cache itself, so that calls nest.  Values are left out.         *)
(***************************************************************************)
EXTENDS Integers, Containers

CONSTANTS
  Keys,
  MaxSize,  \* 0: no limit
  TTLs,
  MaxTime,  \* bound: the clock
  MaxDepth  \* bound: nested get_or_set calls

VARIABLES
  mtime,    \* monotonic()
  store,    \* _store, in its order
  frames,   \* the get_or_set calls whose factory runs, innermost last
  due,      \* history: when the key's last write expires; 0: it was removed
  newer     \* history: the other keys written or found since, while that is due

vars == <<mtime, store, frames, due, newer>>

EntryType == [key : Keys, until : Nat]

TypeOK ==
  /\ mtime \in 0..MaxTime
  /\ store \in Seq(EntryType)
  /\ \A i, j \in DOMAIN store : store[i].key = store[j].key => i = j
  /\ MaxSize > 0 => Len(store) <= MaxSize
  /\ frames \in Seq([key : Keys, ttl : TTLs])
  /\ Len(frames) <= MaxDepth
  /\ due \in [Keys -> Nat]
  /\ newer \in [Keys -> SUBSET Keys]

Init ==
  /\ mtime = 0
  /\ store = <<>>
  /\ frames = <<>>
  /\ due = [k \in Keys |-> 0]
  /\ newer = [k \in Keys |-> {}]

-----------------------------------------------------------------------------
Without(s, k) == Kept(s, {i \in DOMAIN s : s[i].key # k})

Expired(e) == mtime >= e.until

\* _evict_expired
Evicted(k) == Kept(store, {i \in DOMAIN store : store[i].key # k \/ ~Expired(store[i])})

\* Mutant of Enforced: what was written last goes first.
EnforcedNewest(s) ==
  IF MaxSize > 0 /\ Len(s) > MaxSize THEN SubSeq(s, 1, MaxSize) ELSE s

\* _enforce_max_size
Enforced(s) ==
  IF MaxSize > 0 /\ Len(s) > MaxSize THEN SubSeq(s, Len(s) - MaxSize + 1, Len(s)) ELSE s

\* set: what it does, to a given store.
Write(k, ttl) ==
  /\ store' = Enforced(Append(Without(store, k), [key |-> k, until |-> mtime + ttl]))
  /\ due' = [due EXCEPT ![k] = mtime + ttl]
  /\ newer' = [j \in Keys |-> IF j = k \/ due[j] <= mtime THEN {} ELSE newer[j] \union {k}]

\* What every look-up begins with: the entry is dropped if it has expired, and
\* found where it is, not moved, if it has not.
LookUp(k) ==
  /\ store' = Evicted(k)
  /\ IF \E i \in DOMAIN store' : store'[i].key = k
     THEN newer' = [j \in Keys |-> IF j = k \/ due[j] <= mtime THEN newer[j] ELSE newer[j] \union {k}]
     ELSE UNCHANGED newer
  /\ UNCHANGED <<mtime, due>>

\* get, exists
Get(k) == LookUp(k) /\ UNCHANGED frames

Set(k, ttl) ==
  /\ Write(k, ttl)
  /\ UNCHANGED <<mtime, frames>>

Delete(k) ==
  /\ store' = Without(store, k)
  /\ due' = [due EXCEPT ![k] = 0]
  /\ UNCHANGED <<mtime, frames, newer>>

Clear ==
  /\ store' = <<>>
  /\ due' = [k \in Keys |-> 0]
  /\ UNCHANGED <<mtime, frames, newer>>

\* XFetch: an entry with less than half of the caller's TTL left (delta is
\* one half) may be computed again, one asked for with a TTL of 0 always is.
MayRecompute(e, ttl) == ttl = 0 \/ 2 * (e.until - mtime) < ttl

\* get_or_set, up to the factory's call or the answer of the entry.
Enter(k, ttl) ==
  /\ LookUp(k)
  /\ \/ /\ Len(frames) < MaxDepth
        /\ \A i \in DOMAIN store' : store'[i].key = k => MayRecompute(store'[i], ttl)
        /\ frames' = Append(frames, [key |-> k, ttl |-> ttl])
     \/ /\ \E i \in DOMAIN store' : store'[i].key = k
        /\ ttl # 0
        /\ UNCHANGED frames

\* The factory returns; what is stored has the TTL of this call.
Return ==
  /\ frames # <<>>
  /\ Write(Top(frames).key, Top(frames).ttl)
  /\ frames' = Popped(frames)
  /\ UNCHANGED mtime

Raise ==
  /\ frames # <<>>
  /\ frames' = Popped(frames)
  /\ UNCHANGED <<mtime, store, due, newer>>

Tick ==
  /\ mtime < MaxTime
  /\ mtime' = mtime + 1
  /\ UNCHANGED <<store, frames, due, newer>>

Next ==
  \/ Clear \/ Return \/ Raise \/ Tick
  \/ \E k \in Keys :
       \/ Get(k) \/ Delete(k)
       \/ \E ttl \in TTLs : Set(k, ttl) \/ Enter(k, ttl)

Spec == Init /\ [][Next]_vars

-----------------------------------------------------------------------------
(* Properties *)

\* A value that was written is there until it expires, is removed, or as
\* many other keys as the cache holds have been in use since: neither the
\* limit nor nested computations cost a younger entry its place.
KeepsNewest ==
  \A k \in Keys :
    (mtime < due[k] /\ (MaxSize = 0 \/ Cardinality(newer[k]) < MaxSize)) =>
      \E i \in DOMAIN store : store[i].key = k
=============================================================================
