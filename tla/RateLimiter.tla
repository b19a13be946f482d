----------------------------- MODULE RateLimiter -----------------------------
(***************************************************************************)
(* One key of TokenBucketAdapter: a token bucket or a sliding window, kept *)
(* in each process and, when there is a cache, shared by the processes.    *)
(* A call reads the shared entry (Load), decides, and writes it back       *)
(* (Finish).  asyncio.Lock and the synchronous cache client keep the calls *)
(* of one process apart; nothing keeps processes apart.                    *)
(***************************************************************************)
EXTENDS Integers, Sequences

CONSTANTS
  Procs,      \* processes, each with an adapter of its own
  Shared,     \* a CacheManager was given
  MayLose,    \* cache entries may expire, be evicted, or fail to be read
  Kinds,      \* window_type values that configure_bucket is called with
  Capacity,   \* a multiple of Rate
  Rate,       \* refill_rate, tokens per tick
  Costs,      \* costs that is_allowed is called with
  MaxTime,    \* bound: the clock stops here
  MaxSpent    \* bound: no more than this is granted between two configures

Time == 0..MaxTime

\* last_refill of a new bucket is the wall clock, which is ahead of the
\* monotonic one for ever.
Wall == MaxTime + 1

\* The lock's "no call in progress", and "no entry".
None == [kind |-> "none"]

Bucket(n, t) == [kind |-> "bucket", tokens |-> n, last |-> t]
Window(s)    == [kind |-> "window", stamps |-> s]
NewBucket    == Bucket(Capacity, Wall)

VARIABLES
  now,       \* monotonic()
  cache,     \* the shared entry
  buckets,   \* per process: _buckets[key]
  windows,   \* per process: _window_timestamps[key], None if it is no window
  loaded,    \* per process: the state the call in progress works on
  local,     \* per process: that state is the process's own object
  spent      \* history: spent[t] is what was granted at t or later, since
             \* the last configure_bucket or loss

own  == <<buckets, windows>>
call == <<loaded, local>>
vars == <<now, cache, own, call, spent>>

IsWindow(e) == e.kind = "window"

\* Whatever a lost entry, a failed read or write or a change of kind puts in
\* the way, every stored state is one the code can go on from: a bucket has
\* between 0 and Capacity tokens (BucketState rejects any other entry, and the
\* process would fall back on its own), a window at most Capacity stamps, in
\* order (_prune_window stops at the first recent one).
Buckets == [kind : {"bucket"}, tokens : 0..Capacity, last : Time \cup {Wall}]
Windows ==
  {w \in [kind : {"window"}, stamps : Seq(Time)] :
     /\ Len(w.stamps) <= Capacity
     /\ \A i, k \in DOMAIN w.stamps : i < k => w.stamps[i] <= w.stamps[k]}

TypeOK ==
  /\ now \in Time
  /\ cache \in Buckets \cup Windows \cup {None}
  /\ buckets \in [Procs -> Buckets \cup {None}]
  /\ windows \in [Procs -> Windows \cup {None}]
  /\ loaded \in [Procs -> Buckets \cup Windows \cup {None}]
  /\ local \in [Procs -> BOOLEAN]
  /\ spent \in [Time -> Nat]

Init ==
  /\ now = 0
  /\ cache = None
  /\ buckets = [p \in Procs |-> None]
  /\ windows = [p \in Procs |-> None]
  /\ loaded = [p \in Procs |-> None]
  /\ local = [p \in Procs |-> FALSE]
  /\ spent = [t \in Time |-> 0]

-----------------------------------------------------------------------------
Windowed(p) == windows[p] # None

\* The history starts again.
Forget == spent' = [t \in Time |-> 0]

\* _redis_set, _redis_set_window,
Save(e) == cache' = IF Shared THEN e ELSE cache

\* whose errors are logged and forgotten.
SaveFails == MayLose /\ UNCHANGED cache /\ Forget

\* configure_bucket: a full bucket or an empty window, here and in the cache.
Configure(p, kind) ==
  LET e == IF kind = "window" THEN Window(<<>>) ELSE NewBucket IN
  /\ loaded[p] = None
  /\ buckets' = [buckets EXCEPT ![p] = IF kind = "window" THEN None ELSE e]
  /\ windows' = [windows EXCEPT ![p] = IF kind = "window" THEN e ELSE None]
  /\ (Save(e) /\ Forget) \/ SaveFails
  /\ UNCHANGED <<now, call>>

\* Any call begins by reading the cache, and falls back on the process's own
\* state when that fails or there is no entry of the right kind.
Load(p, failed) ==
  /\ loaded[p] = None
  /\ failed => MayLose
  /\ LET shared == ~failed /\ cache # None /\ IsWindow(cache) = Windowed(p)
         mine   == IF Windowed(p) THEN windows[p]
                   ELSE IF buckets[p] = None THEN NewBucket ELSE buckets[p]
     IN /\ loaded' = [loaded EXCEPT ![p] = IF shared THEN cache ELSE mine]
        /\ local' = [local EXCEPT ![p] = ~shared]
        /\ buckets' = [buckets EXCEPT ![p] = IF shared \/ Windowed(p) THEN @ ELSE mine]
  /\ IF failed THEN Forget ELSE UNCHANGED spent
  /\ UNCHANGED <<now, cache, windows>>

\* _refill
Refill(b) ==
  LET n == IF now > b.last THEN b.tokens + Rate * (now - b.last) ELSE b.tokens
  IN Bucket(IF n > Capacity THEN Capacity ELSE n, now)

\* How many stamps popleft takes: those before the cut-off, from the left.
Popped(s, cutoff) ==
  CHOOSE n \in 0..Len(s) :
    /\ \A i \in 1..n : s[i] < cutoff
    /\ n < Len(s) => s[n + 1] >= cutoff

\* _window_size
WindowSize == Capacity \div Rate

\* Mutant of Prune: a stamp is dropped one tick early.
PruneEarly(w) == Window(SubSeq(w.stamps, Popped(w.stamps, now - WindowSize + 1) + 1, Len(w.stamps)))

\* _prune_window
Prune(w) == Window(SubSeq(w.stamps, Popped(w.stamps, now - WindowSize) + 1, Len(w.stamps)))

Current(p) == IF IsWindow(loaded[p]) THEN Prune(loaded[p]) ELSE Refill(loaded[p])

\* Mutant of Leave: a window is put back among the buckets.
LeaveMisfiled(p, e) ==
  /\ buckets' = [buckets EXCEPT ![p] = IF local[p] THEN e ELSE @]
  /\ loaded' = [loaded EXCEPT ![p] = None]
  /\ local' = [local EXCEPT ![p] = FALSE]
  /\ UNCHANGED <<now, windows>>

\* The call ends and leaves e: the process's own object was changed in place,
\* a copy from the cache is forgotten.
Leave(p, e) ==
  /\ buckets' = [buckets EXCEPT ![p] = IF local[p] /\ ~IsWindow(e) THEN e ELSE @]
  /\ windows' = [windows EXCEPT ![p] = IF local[p] /\ IsWindow(e) THEN e ELSE @]
  /\ loaded' = [loaded EXCEPT ![p] = None]
  /\ local' = [local EXCEPT ![p] = FALSE]
  /\ UNCHANGED now

Grant(c) ==
  /\ spent[0] + c <= MaxSpent
  /\ spent' = [t \in Time |-> IF t <= now THEN spent[t] + c ELSE spent[t]]

\* is_allowed on a window: a grant is one stamp, whatever its cost.
AllowWindow(p) ==
  /\ loaded[p] # None
  /\ IsWindow(loaded[p])
  /\ LET w == Current(p) IN
       /\ Len(w.stamps) < Capacity
       /\ LET e == Window(Append(w.stamps, now)) IN
            Leave(p, e) /\ ((Save(e) /\ Grant(1)) \/ SaveFails)

\* A window that is full is pruned in place and not saved.
DenyWindow(p) ==
  /\ loaded[p] # None
  /\ IsWindow(loaded[p])
  /\ Len(Current(p).stamps) >= Capacity
  /\ Leave(p, Current(p))
  /\ UNCHANGED <<cache, spent>>

\* is_allowed on a bucket.
AllowBucket(p, c) ==
  /\ loaded[p] # None
  /\ ~IsWindow(loaded[p])
  /\ Current(p).tokens >= c
  /\ LET e == Bucket(Current(p).tokens - c, now) IN
       Leave(p, e) /\ ((Save(e) /\ Grant(c)) \/ SaveFails)

DenyBucket(p) ==
  /\ loaded[p] # None
  /\ ~IsWindow(loaded[p])
  /\ \E c \in Costs : Current(p).tokens < c
  /\ Leave(p, Current(p))
  /\ (Save(Current(p)) /\ UNCHANGED spent) \/ SaveFails

\* get_remaining, and get_reset_time on a window: refilled or pruned, saved.
Peek(p) ==
  /\ loaded[p] # None
  /\ Leave(p, Current(p))
  /\ (Save(Current(p)) /\ UNCHANGED spent) \/ SaveFails

\* get_reset_time on a bucket: refilled, not saved.
PeekReset(p) ==
  /\ loaded[p] # None
  /\ ~IsWindow(loaded[p])
  /\ Leave(p, Current(p))
  /\ UNCHANGED <<cache, spent>>

\* The cache drops the entry: TTL, eviction or clear.
Lose ==
  /\ MayLose
  /\ cache # None
  /\ cache' = None
  /\ Forget
  /\ UNCHANGED <<now, own, call>>

Tick ==
  /\ now < MaxTime
  /\ now' = now + 1
  /\ UNCHANGED <<cache, own, call, spent>>

Next ==
  \/ \E p \in Procs :
       \/ \E k \in Kinds : Configure(p, k)
       \/ \E failed \in BOOLEAN : Load(p, failed)
       \/ AllowWindow(p) \/ DenyWindow(p)
       \/ \E c \in Costs : AllowBucket(p, c)
       \/ DenyBucket(p)
       \/ Peek(p) \/ PeekReset(p)
  \/ Lose
  \/ Tick

Spec == Init /\ [][Next]_vars

-----------------------------------------------------------------------------
(* Properties. *)

\* From any moment on, a bucket grants at most its capacity plus what the
\* elapsed time refills, however calls, peeks and resets are mixed, and also
\* when it goes on with the process's own copy after the shared one was lost.
BucketLimit ==
  (\A p \in Procs : ~Windowed(p)) =>
    \A t \in 0..now : spent[t] <= Capacity + Rate * (now - t)

\* No interval of the window's length holds more than Capacity grants.
WindowLimit ==
  (\A p \in Procs : Windowed(p)) =>
    \A t \in Time :
      LET end == t + WindowSize + 1
      IN spent[t] - (IF end \in Time THEN spent[end] ELSE 0) <= Capacity

\* "both processes share the same token count AND the combined requests
\* respect the global limit": BucketLimit for the processes together.
CombinedLimit == \A t \in 0..now : spent[t] <= Capacity + Rate * (now - t)
=============================================================================
