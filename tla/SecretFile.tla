------------------------------ MODULE SecretFile ------------------------------
(***************************************************************************)
(* EncryptedSecretAdapter: several processes on one file of secrets, each  *)
(* with a cache.  A rotation reads the file, truncates it and writes it    *)
(* back; other processes run in between, and a process may die there.      *)
(* A value is the number of the write that made it, 0 the first one;       *)
(* encryption is left out: every process has the key.                      *)
(***************************************************************************)
EXTENDS Integers

CONSTANTS
  Procs,     \* processes
  Keys,      \* secret keys
  Watched,   \* processes and keys whose cache entry is modelled: no entry depends on another
  TTL,       \* cache_ttl_seconds
  MaxTime,   \* bound: the clock
  MaxWrites  \* bound: writes of the file

Values == 0..MaxWrites
Times == 0..MaxTime
Never == -1

VARIABLES
  time,      \* time.monotonic(), the same for all processes
  file,      \* the value of each key
  torn,      \* the file is truncated or a mix of two writes: reading it raises
  cache,     \* per process and key: a value and when it expires
  rotation,  \* per process: the rotation it is in the middle of
  writes,    \* writes of the file so far
  held       \* history: when the file last held each value of each key

vars == <<time, file, torn, cache, rotation, writes, held>>

NoEntry == [value |-> 0, until |-> Never]
NoRotation == [at |-> "none", key |-> CHOOSE k \in Keys : TRUE, data |-> [k \in Keys |-> 0],
               alone |-> TRUE]

TypeOK ==
  /\ time \in Times
  /\ file \in [Keys -> Values]
  /\ torn \in BOOLEAN
  /\ cache \in [Procs -> [Keys -> [value : Values, until : -1..(MaxTime + TTL)]]]
  /\ rotation \in [Procs -> [at : {"none", "read", "truncated"}, key : Keys,
                             data : [Keys -> Values], alone : BOOLEAN]]
  /\ writes \in Values
  /\ held \in [Keys -> [Values -> Times \cup {Never}]]

Init ==
  /\ time = 0
  /\ file = [k \in Keys |-> 0]
  /\ torn = FALSE
  /\ cache = [p \in Procs |-> [k \in Keys |-> NoEntry]]
  /\ rotation = [p \in Procs |-> NoRotation]
  /\ writes = 0
  /\ held = [k \in Keys |-> [v \in Values |-> Never]]

\* _CacheEntry.is_expired is strict: an entry counts in the instant it expires.
Valid(entry) == time <= entry.until

\* get_secret past a missing or expired entry.  A valid entry is answered with
\* no change, and a torn file raises.
Read(p, k) ==
  /\ rotation[p].at = "none"
  /\ ~torn /\ ~Valid(cache[p][k])
  /\ cache' = [cache EXCEPT ![p][k] =
       [value |-> file[k], until |-> time + TTL]]
  /\ UNCHANGED <<time, file, torn, rotation, writes, held>>

\* invalidate_cache, of one key.
Invalidate(p, k) ==
  /\ rotation[p].at = "none"
  /\ cache' = [cache EXCEPT ![p][k] = NoEntry]
  /\ UNCHANGED <<time, file, torn, rotation, writes, held>>

\* rotate_secret: the file is read and the new value put in,
RotateRead(p, k) ==
  /\ rotation[p].at = "none" /\ ~torn
  /\ rotation' = [rotation EXCEPT ![p] =
       [at |-> "read", key |-> k, data |-> file, alone |-> TRUE]]
  /\ UNCHANGED <<time, file, torn, cache, writes, held>>

\* What the file held until this moment (of the keys that are read).
Replaced ==
  [k \in Keys |-> [v \in Values |->
    IF ~torn /\ v = file[k] /\ (\E p \in Procs : <<p, k>> \in Watched) THEN time ELSE held[k][v]]]

\* open(..., "w") truncates it,
RotateTruncate(p) ==
  /\ rotation[p].at = "read"
  /\ rotation' = [rotation EXCEPT ![p].at = "truncated"]
  /\ torn' = TRUE
  /\ held' = Replaced
  /\ UNCHANGED <<time, file, cache, writes>>

\* and it is written and closed.  What a process wrote that truncated the file
\* before another wrote it lands on that other content, which may show behind.
Written(p) ==
  /\ rotation[p].at = "truncated" /\ writes < MaxWrites
  /\ writes' = writes + 1
  /\ file' = [rotation[p].data EXCEPT ![rotation[p].key] = writes + 1]
  /\ torn' \in IF rotation[p].alone THEN {FALSE} ELSE BOOLEAN
  /\ held' = Replaced
  /\ rotation' = [q \in Procs |->
       IF q = p THEN NoRotation
       ELSE [rotation[q] EXCEPT !.alone = @ /\ rotation[q].at # "truncated"]]
  /\ UNCHANGED time

\* Then the key's entry is dropped from the cache,
RotateWrite(p) ==
  /\ Written(p)
  /\ cache' = [cache EXCEPT ![p][rotation[p].key] = NoEntry]

\* unless chmod fails: the error is raised, the new value is in the file, and
\* the entry stays.
RotateChmodFails(p) == Written(p) /\ UNCHANGED cache

\* Opening or writing fails: the error is raised, the cache left as it is.
RotateFails(p) ==
  /\ rotation[p].at # "none"
  /\ rotation' = [rotation EXCEPT ![p] = NoRotation]
  /\ UNCHANGED <<time, file, torn, cache, writes, held>>

\* The process dies, wherever it is, and is started again.
Restart(p) ==
  /\ rotation' = [rotation EXCEPT ![p] = NoRotation]
  /\ cache' = [cache EXCEPT ![p] = [k \in Keys |-> NoEntry]]
  /\ UNCHANGED <<time, file, torn, writes, held>>

\* An expired entry is as good as none, and what the file held longer than a
\* TTL ago no longer matters to any property.
Tick ==
  /\ time < MaxTime
  /\ time' = time + 1
  /\ cache' = [p \in Procs |-> [k \in Keys |->
       IF cache[p][k].until > time THEN cache[p][k] ELSE NoEntry]]
  /\ held' = [k \in Keys |-> [v \in Values |->
       IF held[k][v] > time - TTL THEN held[k][v] ELSE Never]]
  /\ UNCHANGED <<file, torn, rotation, writes>>

Next ==
  \/ \E p \in Procs :
       \/ \E k \in Keys :
            \/ <<p, k>> \in Watched /\ (Read(p, k) \/ Invalidate(p, k))
            \/ RotateRead(p, k)
       \/ RotateTruncate(p) \/ RotateWrite(p) \/ RotateChmodFails(p) \/ RotateFails(p)
       \/ Restart(p)
  \/ Tick

Spec == Init /\ [][Next]_vars

-----------------------------------------------------------------------------
(* Properties. *)

\* Whoever rotates, fails or dies, a process answers with a value the file
\* still holds, or held at most one TTL ago.
BoundedStaleness ==
  \A p \in Procs, k \in Keys :
    LET e == cache[p][k] IN
      Valid(e) => \/ ~torn /\ file[k] = e.value
                  \/ held[k][e.value] >= time - TTL
=============================================================================
