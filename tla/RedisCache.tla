----------------------------- MODULE RedisCache -----------------------------
(***************************************************************************)
(* RedisCacheAdapter in one process with threads, on one key.  get_or_set  *)
(* holds a lock of the process; the table of locks is a plain dict that is *)
(* checked and then written.  Redis drops the entry when its TTL ends, may *)
(* fail any command and serves other processes too.                        *)
(***************************************************************************)
EXTENDS Naturals, FiniteSets

CONSTANTS
  Threads,
  NoLock,
  MaxCalls  \* bound: get_or_set calls per thread

VARIABLES
  connected, \* _redis is not None: connecting worked
  cached,    \* the key has a value, in Redis or in _in_memory
  table,     \* _locks[key]; a lock is named for the thread that made it
  holder,    \* per lock: who holds it
  mine,      \* per thread: the lock _get_lock returned
  at,        \* per thread: where its get_or_set is
  made       \* per thread: calls so far

vars == <<connected, cached, table, holder, mine, at, made>>

Places == {"idle", "check", "make", "fetch", "acquire", "look", "compute", "store"}

TypeOK ==
  /\ connected \in BOOLEAN
  /\ cached \in BOOLEAN
  /\ table \in Threads \union {NoLock}
  /\ holder \in [Threads -> Threads \union {NoLock}]
  /\ mine \in [Threads -> Threads \union {NoLock}]
  /\ at \in [Threads -> Places]
  /\ made \in [Threads -> 0..MaxCalls]

Init ==
  /\ connected \in BOOLEAN
  /\ cached = FALSE
  /\ table = NoLock
  /\ holder = [t \in Threads |-> NoLock]
  /\ mine = [t \in Threads |-> NoLock]
  /\ at = [t \in Threads |-> "idle"]
  /\ made = [t \in Threads |-> 0]

-----------------------------------------------------------------------------
Goto(t, place) == at' = [at EXCEPT ![t] = place]

Call(t) ==
  /\ at[t] = "idle" /\ made[t] < MaxCalls
  /\ Goto(t, "check")
  /\ made' = [made EXCEPT ![t] = @ + 1]
  /\ UNCHANGED <<connected, cached, table, holder, mine>>

\* _get_lock, between whose steps other threads may run.
CheckLock(t) ==
  /\ at[t] = "check"
  /\ Goto(t, IF table = NoLock THEN "make" ELSE "fetch")
  /\ UNCHANGED <<connected, cached, table, holder, mine, made>>

MakeLock(t) ==
  /\ at[t] = "make"
  /\ table' = t
  /\ Goto(t, "fetch")
  /\ UNCHANGED <<connected, cached, holder, mine, made>>

FetchLock(t) ==
  /\ at[t] = "fetch"
  /\ mine' = [mine EXCEPT ![t] = table]
  /\ Goto(t, "acquire")
  /\ UNCHANGED <<connected, cached, table, holder, made>>

Acquire(t) ==
  /\ at[t] = "acquire" /\ holder[mine[t]] = NoLock
  /\ holder' = [holder EXCEPT ![mine[t]] = t]
  /\ Goto(t, "look")
  /\ UNCHANGED <<connected, cached, table, mine, made>>

\* Mutant of Leave: a call that fails keeps the lock.
LeaveHolding(t, failed) ==
  /\ holder' = IF failed THEN holder ELSE [holder EXCEPT ![mine[t]] = NoLock]
  /\ Goto(t, "idle")

\* The with block is left, by return or by an exception.
Leave(t, failed) ==
  /\ holder' = [holder EXCEPT ![mine[t]] = NoLock]
  /\ Goto(t, "idle")

\* run_redis_sync raises TransientError when a command fails.
CommandFails(t) == connected /\ Leave(t, TRUE)

Look(t) ==
  /\ at[t] = "look"
  /\ \/ cached /\ Leave(t, FALSE)
     \/ ~cached /\ Goto(t, "compute") /\ UNCHANGED holder
     \/ CommandFails(t)
  /\ UNCHANGED <<connected, cached, table, mine, made>>

\* The factory.
Compute(t) ==
  /\ at[t] = "compute"
  /\ \/ Goto(t, "store") /\ UNCHANGED holder
     \/ Leave(t, TRUE)
  /\ UNCHANGED <<connected, cached, table, mine, made>>

Store(t) ==
  /\ at[t] = "store"
  /\ \/ cached' = TRUE /\ Leave(t, FALSE)
     \/ UNCHANGED cached /\ CommandFails(t)
  /\ UNCHANGED <<connected, table, mine, made>>

\* set, delete and clear of anybody, who take no lock; get and exists change
\* nothing, and commands that fail neither.
Set == cached' = TRUE /\ UNCHANGED <<connected, table, holder, mine, at, made>>

Delete == cached' = FALSE /\ UNCHANGED <<connected, table, holder, mine, at, made>>

\* The TTL ends; the fallback's entries have none.
Expire == connected /\ Delete

Step(t) ==
  \/ CheckLock(t) \/ MakeLock(t) \/ FetchLock(t) \/ Acquire(t)
  \/ Look(t) \/ Compute(t) \/ Store(t)

Next ==
  \/ \E t \in Threads : Call(t) \/ Step(t)
  \/ Set \/ Delete \/ Expire

Spec == Init /\ [][Next]_vars

\* Threads run, factories return or raise, commands are answered or fail.
\* The factory does not call get_or_set for the same key: the lock is not
\* reentrant.
Fairness == \A t \in Threads : WF_vars(Step(t))

FairSpec == Spec /\ Fairness

-----------------------------------------------------------------------------
(* Properties *)

\* A get_or_set ends, whatever the other threads, their factories and Redis
\* do: the lock is given back on every path.
CallsReturn == \A t \in Threads : at[t] = "check" ~> at[t] = "idle"
=============================================================================
