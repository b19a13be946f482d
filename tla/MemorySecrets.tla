---------------------------- MODULE MemorySecrets ----------------------------
(***************************************************************************)
(* InMemorySecretAdapter: a store, and a cache in front of it whose        *)
(* entries live for a TTL.  A rotation drops the entry, set_secret does    *)
(* not.  A secret is the number of the write it came with.                 *)
(***************************************************************************)
EXTENDS Integers

CONSTANTS
  Names,
  TTL,       \* cache_ttl_seconds
  MaxTime,   \* bound: the clock
  MaxWrites  \* bound: writes

VARIABLES
  clock,   \* time.monotonic()
  store,   \* _store; 0 for a name that is not in it
  cache,   \* _cache: value and expires_at; value 0 for no entry
  answer,  \* what get_secret answered last: name and value
  writes,  \* writes so far
  ended    \* history: until when each secret was the stored one

vars == <<clock, store, cache, answer, writes, ended>>

TypeOK ==
  /\ clock \in 0..MaxTime
  /\ store \in [Names -> 0..MaxWrites]
  /\ cache \in [Names -> [value : 0..MaxWrites, expires : 0..(MaxTime + TTL)]]
  /\ answer \in [name : Names, value : 0..MaxWrites]
  /\ writes \in 0..MaxWrites
  /\ ended \in [0..MaxWrites -> 0..(MaxTime + 1)]

NoEntry == [value |-> 0, expires |-> 0]

Init ==
  /\ clock = 0
  /\ store = [n \in Names |-> 0]
  /\ cache = [n \in Names |-> NoEntry]
  /\ answer \in [name : Names, value : {0}]
  /\ writes = 0
  /\ ended = [w \in 0..MaxWrites |-> MaxTime + 1]

Tick ==
  /\ clock < MaxTime
  /\ clock' = clock + 1
  /\ UNCHANGED <<store, cache, answer, writes, ended>>

IsExpired(entry) == clock > entry.expires

\* Mutant of Fresh: an entry does not expire.
FreshForEver(n) == cache[n].value # 0

Fresh(n) == cache[n].value # 0 /\ ~IsExpired(cache[n])

\* get_secret: from the cache, from the store, or ValidationError.
GetSecret(n) ==
  /\ \/ Fresh(n) /\ answer' = [name |-> n, value |-> cache[n].value] /\ UNCHANGED cache
     \/ /\ ~Fresh(n) /\ store[n] # 0
        /\ answer' = [name |-> n, value |-> store[n]]
        /\ cache' = [cache EXCEPT ![n] = [value |-> store[n], expires |-> clock + TTL]]
     \/ ~Fresh(n) /\ store[n] = 0 /\ UNCHANGED <<answer, cache>>
  /\ UNCHANGED <<clock, store, writes, ended>>

\* set_secret
SetSecret(n) ==
  /\ writes < MaxWrites
  /\ writes' = writes + 1
  /\ store' = [store EXCEPT ![n] = writes + 1]
  /\ ended' = [ended EXCEPT ![store[n]] = IF store[n] = 0 THEN @ ELSE clock]
  /\ UNCHANGED <<clock, cache, answer>>

\* rotate_secret
RotateSecret(n) ==
  /\ writes < MaxWrites
  /\ writes' = writes + 1
  /\ store' = [store EXCEPT ![n] = writes + 1]
  /\ cache' = [cache EXCEPT ![n] = NoEntry]
  /\ ended' = [ended EXCEPT ![store[n]] = IF store[n] = 0 THEN @ ELSE clock]
  /\ UNCHANGED <<clock, answer>>

InvalidateCache(names) ==
  /\ cache' = [n \in Names |-> IF n \in names THEN NoEntry ELSE cache[n]]
  /\ UNCHANGED <<clock, store, answer, writes, ended>>

Clear ==
  /\ store' = [n \in Names |-> 0]
  /\ cache' = [n \in Names |-> NoEntry]
  /\ ended' = [w \in 0..MaxWrites |-> IF \E n \in Names : w # 0 /\ store[n] = w THEN clock ELSE ended[w]]
  /\ UNCHANGED <<clock, answer, writes>>

Next ==
  \/ Tick \/ Clear \/ InvalidateCache(Names)
  \/ \E n \in Names : GetSecret(n) \/ SetSecret(n) \/ RotateSecret(n) \/ InvalidateCache({n})

Spec == Init /\ [][Next]_vars

-----------------------------------------------------------------------------
(* Properties *)

\* A secret that was replaced is answered for one TTL at most, by set_secret
\* that leaves it in the cache as well as by a rotation that does not.
BoundedStaleness ==
  [][\A n \in Names : GetSecret(n) /\ answer'.value # 0 /\ answer'.name = n =>
       clock <= ended[answer'.value] + TTL]_vars
=============================================================================
