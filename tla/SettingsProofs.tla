---------------------------- MODULE SettingsProofs ----------------------------
(***************************************************************************)
(* Proofs about the components of Stores that hold what a program reads or *)
(* reports of itself: flags, spans, dependencies, errors, translations,    *)
(* settings and the machine double. Each has an inductive invariant, for   *)
(* every file, environment, tree of settings and table of rules.           *)
(***************************************************************************)
EXTENDS Stores, Containers, FiniteSets, FiniteSetTheorems, WellFoundedInduction, SeqLemmas

LEMMA BelowIs ==
  ASSUME NEW n \in Nat, n # 0
  PROVE  (n # 1 => n - 1 \in 1..(n - 1) /\ n - 1 # 0) /\ (1 <= n - 1 \/ n - 1 = 0)
OBVIOUS

\* A stack without its last frame.
LEMMA FrontIs ==
  ASSUME NEW S, NEW s \in Seq(S), Len(s) # 0
  PROVE  /\ TX!Popped(s) \in Seq(S) /\ Len(s) - 1 \in Nat
         /\ Len(TX!Popped(s)) = Len(s) - 1 /\ DOMAIN TX!Popped(s) = 1..(Len(s) - 1)
         /\ \A k \in 1..(Len(s) - 1) : TX!Popped(s)[k] = s[k]
<1>1. Len(s) \in Nat /\ Len(s) - 1 \in Nat
  OBVIOUS
<1>2. /\ 1 \in 1..(Len(s) + 1) /\ Len(s) - 1 \in (1 - 1)..Len(s)
      /\ Len(s) - 1 - 1 + 1 = Len(s) - 1
  BY <1>1
<1>3. /\ SubSeq(s, 1, Len(s) - 1) \in Seq(S) /\ Len(SubSeq(s, 1, Len(s) - 1)) = Len(s) - 1
      /\ \A k \in 1..(Len(s) - 1) : SubSeq(s, 1, Len(s) - 1)[k] = s[k]
  <2>1. /\ SubSeq(s, 1, Len(s) - 1) \in Seq(S)
        /\ Len(SubSeq(s, 1, Len(s) - 1)) = IF 1 <= Len(s) - 1 THEN Len(s) - 1 - 1 + 1 ELSE 0
        /\ \A k \in 1..(Len(s) - 1 - 1 + 1) : SubSeq(s, 1, Len(s) - 1)[k] = s[1 + k - 1]
    BY <1>2, SubSeqProperties
  <2>2. \A k \in 1..(Len(s) - 1) : 1 + k - 1 = k
    BY <1>1
  <2>3. 1 <= Len(s) - 1 \/ Len(s) - 1 = 0
    BY <1>1, BelowIs, Zenon
  <2>4. Len(SubSeq(s, 1, Len(s) - 1)) = Len(s) - 1
    BY <1>2, <2>1, <2>3
  <2>5. \A k \in 1..(Len(s) - 1) : SubSeq(s, 1, Len(s) - 1)[k] = s[k]
    BY <1>2, <2>1, <2>2
  <2>. QED
    BY <2>1, <2>4, <2>5
<1>4. DOMAIN SubSeq(s, 1, Len(s) - 1) = 1..(Len(s) - 1)
  BY <1>1, <1>3
<1>. QED
  BY <1>1, <1>3, <1>4 DEF TX!Popped

\* A set of numbers has a least: what is found by CHOOSE, and the step of a
\* recursive function that is the first to go wrong.
LEMMA Least ==
  ASSUME NEW S, S \subseteq Nat, S # {}
  PROVE  \E n \in S : \A m \in S : n <= m
<1> DEFINE R == OpToRel(<, Nat)
<1>1. PICK n \in S : \A m \in S : <<m, n>> \notin R
  <2>1. IsWellFoundedOn(R, Nat)
    BY NatLessThanWellFounded, Zenon
  <2>. HIDE DEF R
  <2>. QED
    BY <2>1, WFMin
<1>2. ASSUME NEW m \in S, m < n PROVE FALSE
  <2>1. <<m, n>> \in R
    BY <1>2 DEF OpToRel
  <2>. QED
    BY <2>1, <1>1, Zenon
<1>. QED
  BY <1>2, SMT

-----------------------------------------------------------------------------
(* FeatureFlags: the flags are dicts, whatever is read, set and asked.     *)

FFInv == FF!TypeOK

LEMMA DictsAre ==
  /\ \A F, G : F \subseteq G => FF!Dicts(F) \subseteq FF!Dicts(G)
  /\ \A F : FF!NoFlags \in FF!Dicts(F)
  /\ \A F : \A d \in FF!Dicts(F) : \A k \in FlagKeys, f \in F :
       [j \in DOMAIN d \union {k} |-> IF j = k THEN f ELSE d[j]] \in FF!Dicts(F)
<1>1. ASSUME NEW F, NEW G, F \subseteq G, NEW d \in FF!Dicts(F) PROVE d \in FF!Dicts(G)
  <2>1. PICK K \in SUBSET FlagKeys : d \in [K -> F]
    BY DEF FF!Dicts
  <2>2. d \in [K -> G]
    BY <1>1, <2>1
  <2>. QED
    BY <2>2 DEF FF!Dicts
<1>2. ASSUME NEW F PROVE FF!NoFlags \in FF!Dicts(F)
  <2>1. FF!NoFlags \in [{} -> F]
    BY DEF FF!NoFlags
  <2>. QED
    BY <2>1 DEF FF!Dicts
<1>3. ASSUME NEW F, NEW d \in FF!Dicts(F), NEW k \in FlagKeys, NEW f \in F
      PROVE  [j \in DOMAIN d \union {k} |-> IF j = k THEN f ELSE d[j]] \in FF!Dicts(F)
  <2>1. PICK K \in SUBSET FlagKeys : d \in [K -> F]
    BY DEF FF!Dicts
  <2>2. [j \in DOMAIN d \union {k} |-> IF j = k THEN f ELSE d[j]] \in [K \union {k} -> F]
    BY <2>1
  <2>3. K \union {k} \in SUBSET FlagKeys
    OBVIOUS
  <2>. QED
    BY <2>2, <2>3 DEF FF!Dicts
<1>. QED
  BY <1>1, <1>2, <1>3

LEMMA FFInit == FF!Init => FFInv
BY DictsAre DEF FF!Init, FFInv, FF!TypeOK

LEMMA FFStep == ASSUME FFInv, FF!Next \/ UNCHANGED FFvars PROVE FFInv'
<1>. USE DEF FFInv
<1>1. CASE FF!WriteFile
  BY <1>1, DictsAre DEF FF!WriteFile, FF!TypeOK
<1>2. CASE FF!Refresh
  <2>1. CASE flagFile.state = "broken"
    BY <1>2, <2>1 DEF FF!Refresh, FF!TypeOK
  <2>2. CASE flagFile.state # "broken"
    <3>1. flags' = flagFile.flags /\ flagState' \in {"good", "list"}
      BY <1>2, <2>2 DEF FF!Refresh
    <3>2. flags' \in FF!Dicts(FF!FileFlags \union FF!MemoryFlags)
      BY <3>1, DictsAre DEF FF!TypeOK
    <3>. QED
      BY <1>2, <3>1, <3>2 DEF FF!Refresh, FF!TypeOK
  <2>. QED
    BY <2>1, <2>2
<1>3. ASSUME NEW k \in FlagKeys, NEW f \in FF!MemoryFlags, FF!SetFlag(k, f)
      PROVE  FFInv'
  <2>1. flags' \in FF!Dicts(FF!FileFlags \union FF!MemoryFlags)
    BY <1>3, DictsAre DEF FF!SetFlag, FF!TypeOK
  <2>. QED
    BY <1>3, <2>1 DEF FF!SetFlag, FF!TypeOK
<1>4. ASSUME NEW k \in FlagKeys, NEW c \in BOOLEAN, FF!Ask(k, c)
      PROVE  FFInv'
  <2>1. FF!Listed(k, c) \in {"absent", "on", "off"}
    BY DEF FF!Listed
  <2>2. flagAnswer' \in [enabled : {"none", "on", "off"}, value : {"none", "value", "default"},
                         all : {"none", "absent", "on", "off"}]
    BY <1>4, <2>1 DEF FF!Ask
  <2>. QED
    BY <1>4, <2>2 DEF FF!Ask, FF!TypeOK
<1>5. CASE UNCHANGED FFvars
  BY <1>5 DEF FFvars, FF!TypeOK
<1>. QED
  BY <1>1, <1>2, <1>3, <1>4, <1>5 DEF FF!Next

-----------------------------------------------------------------------------
(* Telemetry: the spans on the stack are among those that were started.    *)

TraceSpans == [trace : 1..MaxSpans, open : BOOLEAN]

TEInv ==
  /\ TE!TypeOK /\ TE!StackIsOneTrace
  /\ spans \in Seq(TraceSpans)
  /\ spanStack \in Seq(Nat) /\ \A k \in 1..Len(spanStack) : spanStack[k] \in DOMAIN spans

LEMMA SpanBound == MaxSpans \in Nat
BY StoresOK

LEMMA TEInit == TE!Init => TEInv
BY SpanBound DEF TE!Init, TEInv, TE!TypeOK, TE!StackIsOneTrace, TE!Elements, TE!Context, TE!Blank

\* Steps that leave the spans alone.
LEMMA ContextKeeps ==
  ASSUME TEInv, UNCHANGED <<spans, spanStack, activeTrace, otel>>,
         context' \in [Tasks -> TE!Context], snapshot' \in TE!Context, logged' \in TE!Context
  PROVE  TEInv'
BY DEF TEInv, TE!TypeOK, TE!StackIsOneTrace, TE!Elements

\* A span is started: it gets the next number.
LEMMA SpanAdded ==
  ASSUME TEInv, NEW s \in TraceSpans, spans' = Append(spans, s), Len(spans) + 1 <= MaxSpans
  PROVE  /\ spans' \in Seq(TraceSpans) /\ Len(spans') = Len(spans) + 1 /\ Len(spans) \in Nat
         /\ DOMAIN spans = 1..Len(spans) /\ DOMAIN spans' = 1..(Len(spans) + 1)
         /\ \A i \in DOMAIN spans : spans'[i] = spans[i]
         /\ spans'[Len(spans) + 1] = s
         /\ \A i \in DOMAIN spans' : spans'[i] \in TraceSpans
         /\ Len(spans') <= MaxSpans
BY AppendIs, SpanBound DEF TEInv

\* The elements of the stack, as a set and by their positions.
LEMMA StackSet == ASSUME TEInv PROVE DOMAIN spanStack = 1..Len(spanStack) /\ TE!Elements(spanStack) = {spanStack[k] : k \in 1..Len(spanStack)}
BY LenProperties, Zenon DEF TEInv, TE!Elements

LEMMA StartSpanKeeps == ASSUME TEInv, NEW t \in Tasks, TE!StartSpan(t) PROVE TEInv'
<1>1. PICK traced \in BOOLEAN :
        /\ spans' = Append(spans, [trace |-> Len(spans) + 1, open |-> traced])
        /\ context' = [context EXCEPT ![t].trace = Len(spans) + 1, ![t].span = IF traced THEN Len(spans) + 1 ELSE @]
  BY DEF TE!StartSpan, TE!Number
<1>2. Len(spans) \in Nat /\ Len(spans) + 1 \in 1..MaxSpans /\ Len(spans) + 1 <= MaxSpans
  BY SpanBound DEF TE!StartSpan, TE!Number, TEInv
<1>3. [trace |-> Len(spans) + 1, open |-> traced] \in TraceSpans
  BY <1>2 DEF TraceSpans
<1>4. context' \in [Tasks -> TE!Context]
  <2>1. Len(spans) + 1 \in 0..MaxSpans
    BY <1>2, SpanBound
  <2>. QED
    BY <1>1, <2>1 DEF TEInv, TE!TypeOK, TE!Context
<1>5. UNCHANGED <<otel, snapshot, spanStack, activeTrace, logged>>
  BY DEF TE!StartSpan
<1>6. /\ spans' \in Seq(TraceSpans) /\ Len(spans') <= MaxSpans
      /\ DOMAIN spans \subseteq DOMAIN spans'
      /\ \A i \in DOMAIN spans : spans'[i] = spans[i]
      /\ \A i \in DOMAIN spans' : spans'[i] \in TraceSpans
  BY <1>1, <1>2, <1>3, SpanAdded
<1>. QED
  BY <1>4, <1>5, <1>6 DEF TEInv, TE!TypeOK, TE!StackIsOneTrace, TE!Elements, TraceSpans

LEMMA PushKeeps == ASSUME TEInv, TE!Push PROVE TEInv'
<1>. DEFINE n == Len(spans) + 1
            span == [trace |-> activeTrace', open |-> TRUE]
<1>1. /\ activeTrace' = IF activeTrace = 0 THEN n ELSE activeTrace
      /\ spans' = Append(spans, span) /\ spanStack' = Append(spanStack, n)
      /\ n <= MaxSpans /\ ~otel /\ UNCHANGED <<otel, context, snapshot, logged>>
  BY DEF TE!Push, TE!Number
<1>2. /\ Len(spans) \in Nat /\ n \in 1..MaxSpans /\ n \in Nat /\ n # 0
      /\ activeTrace' \in 1..MaxSpans /\ activeTrace' \in 0..MaxSpans
  BY <1>1, SpanBound DEF TEInv, TE!TypeOK
<1>3. span \in TraceSpans
  BY <1>2 DEF TraceSpans
<1>4. /\ spans' \in Seq(TraceSpans) /\ Len(spans') <= MaxSpans
      /\ DOMAIN spans = 1..Len(spans) /\ DOMAIN spans' = 1..n
      /\ \A i \in DOMAIN spans : spans'[i] = spans[i]
      /\ spans'[n] = span
      /\ \A i \in DOMAIN spans' : spans'[i] \in TraceSpans
  BY <1>1, <1>3, SpanAdded
<1>5. /\ spanStack' \in Seq(Nat) /\ Len(spanStack') = Len(spanStack) + 1 /\ Len(spanStack) \in Nat
      /\ DOMAIN spanStack' = 1..(Len(spanStack) + 1) /\ DOMAIN spanStack = 1..Len(spanStack)
      /\ \A k \in 1..Len(spanStack) : spanStack'[k] = spanStack[k]
      /\ spanStack'[Len(spanStack) + 1] = n
  BY <1>1, <1>2, AppendIs DEF TEInv
<1>6. \A k \in 1..Len(spanStack') : spanStack'[k] \in DOMAIN spans' /\ spans'[spanStack'[k]].trace = activeTrace'
  <2>1. TAKE k \in 1..Len(spanStack')
  <2>2. CASE k = Len(spanStack) + 1
    BY <2>2, <1>2, <1>4, <1>5 DEF span
  <2>3. CASE k # Len(spanStack) + 1
    <3>1. k \in 1..Len(spanStack) /\ k \in DOMAIN spanStack
      BY <2>1, <2>3, <1>5
    <3>2. spanStack'[k] = spanStack[k] /\ spanStack[k] \in DOMAIN spans /\ spanStack[k] \in TE!Elements(spanStack)
      BY <3>1, <1>5 DEF TEInv, TE!Elements
    <3>3. spans[spanStack[k]].trace = activeTrace /\ spanStack # <<>> /\ activeTrace # 0
      BY <3>1, <3>2 DEF TEInv, TE!StackIsOneTrace
    <3>4. spanStack[k] \in DOMAIN spans'
      BY <3>2, <1>2, <1>4
    <3>. QED
      BY <3>2, <3>3, <3>4, <1>1, <1>4
  <2>. QED
    BY <2>2, <2>3
<1>. HIDE DEF n, span
<1>7. spanStack' # <<>> /\ activeTrace' # 0
  BY <1>2, <1>5
<1>8. TE!Elements(spanStack') = {spanStack'[k] : k \in 1..Len(spanStack')}
  BY <1>5 DEF TE!Elements
<1>9. TE!StackIsOneTrace' /\ TE!TypeOK'
  BY <1>1, <1>2, <1>4, <1>6, <1>7, <1>8 DEF TEInv, TE!TypeOK, TE!StackIsOneTrace, TraceSpans
<1>. QED
  BY <1>4, <1>5, <1>6, <1>9 DEF TEInv

\* A span is closed: its trace stays what it is.
LEMMA SpanClosed ==
  ASSUME TEInv, NEW i \in DOMAIN spans, spans' = [spans EXCEPT ![i].open = FALSE]
  PROVE  /\ spans' \in Seq(TraceSpans) /\ Len(spans') <= MaxSpans
         /\ DOMAIN spans' = DOMAIN spans
         /\ \A j \in DOMAIN spans : spans'[j] \in TraceSpans /\ spans'[j].trace = spans[j].trace
<1>1. DOMAIN spans = 1..Len(spans) /\ Len(spans) \in Nat /\ \A j \in DOMAIN spans : spans[j] \in TraceSpans
  BY DEF TEInv
<1>2. /\ DOMAIN spans' = 1..Len(spans)
      /\ \A j \in 1..Len(spans) : spans'[j] = IF j = i THEN [spans[j] EXCEPT !.open = FALSE] ELSE spans[j]
      /\ spans' = [j \in 1..Len(spans) |-> spans'[j]]
  BY <1>1, Zenon
<1>3. \A j \in DOMAIN spans : spans'[j] \in TraceSpans /\ spans'[j].trace = spans[j].trace
  BY <1>1, <1>2 DEF TraceSpans
<1>4. spans' \in Seq(TraceSpans) /\ Len(spans') = Len(spans)
  <2>1. spans' \in [1..Len(spans) -> TraceSpans]
    BY <1>1, <1>2, <1>3
  <2>2. spans' \in Seq(TraceSpans)
    BY <2>1, <1>1, SeqDef
  <2>. QED
    BY <2>2, <1>1, <1>2, LenProperties
<1>. QED
  BY <1>1, <1>2, <1>3, <1>4 DEF TEInv, TE!TypeOK

\* Of the stack its lower part is left, or all of it.
LEMMA StackKeeps ==
  ASSUME TEInv, NEW i \in DOMAIN spans, spans' = [spans EXCEPT ![i].open = FALSE],
         UNCHANGED <<otel, context, snapshot, logged>>,
         spanStack' \in Seq(Nat), Len(spanStack') <= Len(spanStack),
         \A k \in 1..Len(spanStack') : spanStack'[k] = spanStack[k],
         activeTrace' = IF spanStack' = <<>> THEN 0 ELSE activeTrace
  PROVE  TEInv'
<1>1. /\ spans' \in Seq(TraceSpans) /\ Len(spans') <= MaxSpans
      /\ DOMAIN spans' = DOMAIN spans
      /\ \A j \in DOMAIN spans : spans'[j] \in TraceSpans /\ spans'[j].trace = spans[j].trace
  BY SpanClosed
<1>2. /\ DOMAIN spanStack' = 1..Len(spanStack') /\ Len(spanStack') \in Nat /\ Len(spanStack) \in Nat
      /\ DOMAIN spanStack = 1..Len(spanStack)
  BY DEF TEInv
<1>3. \A k \in 1..Len(spanStack') : k \in 1..Len(spanStack)
  BY <1>2
<1>4. TE!Elements(spanStack') \subseteq TE!Elements(spanStack)
  BY <1>2, <1>3 DEF TE!Elements
<1>5. \A k \in 1..Len(spanStack') : spanStack'[k] \in DOMAIN spans'
  BY <1>1, <1>3 DEF TEInv
<1>6. activeTrace' \in 0..MaxSpans
  BY SpanBound DEF TEInv, TE!TypeOK
<1>7. TE!StackIsOneTrace'
  <2>1. CASE spanStack' = <<>>
    BY <2>1 DEF TE!StackIsOneTrace, TE!Elements
  <2>2. CASE spanStack' # <<>>
    <3>1. spanStack # <<>>
      BY <2>2, <1>2
    <3>2. activeTrace' = activeTrace /\ activeTrace # 0
      BY <2>2, <3>1 DEF TEInv, TE!StackIsOneTrace
    <3>3. \A j \in TE!Elements(spanStack') : j \in DOMAIN spans /\ spans[j].trace = activeTrace
      BY <1>4 DEF TEInv, TE!TypeOK, TE!StackIsOneTrace
    <3>. QED
      BY <2>2, <3>2, <3>3, <1>1 DEF TE!StackIsOneTrace
  <2>. QED
    BY <2>1, <2>2
<1>. QED
  BY <1>1, <1>4, <1>5, <1>6, <1>7 DEF TEInv, TE!TypeOK, TraceSpans

LEMMA OnSpanCloseKeeps == ASSUME TEInv, NEW i \in DOMAIN spans, TE!OnSpanClose(i) PROVE TEInv'
<1>1. /\ spans' = [spans EXCEPT ![i].open = FALSE]
      /\ spanStack' = IF spanStack # <<>> /\ TE!Top(spanStack) = i THEN TE!Popped(spanStack) ELSE spanStack
      /\ activeTrace' = IF spanStack' = <<>> THEN 0 ELSE activeTrace
      /\ UNCHANGED <<otel, context, snapshot, logged>>
  BY DEF TE!OnSpanClose
<1>2. /\ spanStack' \in Seq(Nat) /\ Len(spanStack') <= Len(spanStack)
      /\ \A k \in 1..Len(spanStack') : spanStack'[k] = spanStack[k]
  <2>1. CASE spanStack' = spanStack
    BY <2>1 DEF TEInv
  <2>2. CASE spanStack # <<>> /\ spanStack' = TE!Popped(spanStack)
    <3>1. spanStack \in Seq(Nat) /\ Len(spanStack) # 0 /\ Len(spanStack) \in Nat
      BY <2>2 DEF TEInv
    <3>2. TE!Popped(spanStack) = TX!Popped(spanStack)
      BY DEF TE!Popped, TX!Popped
    <3>3. /\ TX!Popped(spanStack) \in Seq(Nat) /\ Len(TX!Popped(spanStack)) = Len(spanStack) - 1
          /\ \A k \in 1..(Len(spanStack) - 1) : TX!Popped(spanStack)[k] = spanStack[k]
      BY <3>1, FrontIs
    <3>. QED
      BY <2>2, <3>1, <3>2, <3>3
  <2>. QED
    BY <1>1, <2>1, <2>2
<1>. QED
  BY <1>1, <1>2, StackKeeps

LEMMA EndSpanKeeps == ASSUME TEInv, NEW i \in DOMAIN spans, TE!EndSpan(i) PROVE TEInv'
<1>1. spans' = [spans EXCEPT ![i].open = FALSE] /\ UNCHANGED <<otel, context, snapshot, spanStack, activeTrace, logged>>
  BY DEF TE!EndSpan
<1>2. activeTrace' = IF spanStack' = <<>> THEN 0 ELSE activeTrace
  BY <1>1 DEF TEInv, TE!StackIsOneTrace
<1>3. spanStack' \in Seq(Nat) /\ Len(spanStack') <= Len(spanStack)
  BY <1>1 DEF TEInv
<1>. QED
  BY <1>1, <1>2, <1>3, StackKeeps

LEMMA ClearKeeps == ASSUME TEInv, TE!Clear PROVE TEInv'
BY SpanBound DEF TE!Clear, TEInv, TE!TypeOK, TE!StackIsOneTrace, TE!Elements

LEMMA TEStep == ASSUME TEInv, TE!Next \/ UNCHANGED TEvars PROVE TEInv'
<1>1. CASE UNCHANGED TEvars
  BY <1>1 DEF TEvars, TEInv, TE!TypeOK, TE!StackIsOneTrace, TE!Elements
<1>2. ASSUME NEW t \in Tasks,
             \/ TE!TakeSnapshot(t) \/ TE!RestoreSnapshot(t) \/ TE!Log(t)
             \/ \E tenant \in Tenants \union {Global} : TE!Authenticate(t, tenant)
             \/ \E child \in Tasks : TE!Spawn(t, child)
      PROVE  TEInv'
  <2>1. /\ UNCHANGED <<spans, spanStack, activeTrace, otel>>
        /\ context' \in [Tasks -> TE!Context] /\ snapshot' \in TE!Context /\ logged' \in TE!Context
    <3>1. context \in [Tasks -> TE!Context] /\ snapshot \in TE!Context /\ logged \in TE!Context
      BY DEF TEInv, TE!TypeOK
    <3>2. CASE TE!TakeSnapshot(t) \/ TE!RestoreSnapshot(t) \/ TE!Log(t)
      BY <3>1, <3>2 DEF TE!TakeSnapshot, TE!RestoreSnapshot, TE!Log
    <3>3. CASE \E tenant \in Tenants \union {Global} : TE!Authenticate(t, tenant)
      BY <3>1, <3>3 DEF TE!Authenticate, TE!Context
    <3>4. CASE \E child \in Tasks : TE!Spawn(t, child)
      BY <3>1, <3>4 DEF TE!Spawn
    <3>. QED
      BY <1>2, <3>2, <3>3, <3>4
  <2>. QED
    BY <2>1, ContextKeeps
<1>. QED
  BY <1>1, <1>2, PushKeeps, ClearKeeps, StartSpanKeeps, EndSpanKeeps, OnSpanCloseKeeps DEF TE!Next

-----------------------------------------------------------------------------
(* Dependencies: what was given out by a name, since the cache was last    *)
(* invalidated, is what sys.modules holds, as a module that was executed   *)
(* once stays there; the double's mapping holds its one class.             *)

DEInv ==
  /\ DE!TypeOK /\ DE!CachedIsLoaded
  /\ registry \in Seq(DE!Entry)
  /\ importing => \A m \in Modules : \A v \in given[m] : v = modules[m]
  /\ ~importing => \A m \in Modules : given[m] \subseteq {1} /\ resolution[m] \in {0, 1}

LEMMA VersionsAre == /\ 0 \notin ModuleVersions /\ 1 \in ModuleVersions
                     /\ MaxListed \in Nat /\ MaxEntries \in Nat
BY StoresOK

LEMMA DEInit == DE!Init => DEInv
<1>. SUFFICES ASSUME DE!Init PROVE DEInv
  OBVIOUS
<1>1. resolution \in [Modules -> {0, 1}]
  BY DEF DE!Init
<1>2. DE!Nothing \in DE!Reply
  BY DEF DE!Nothing, DE!Reply
<1>3. registry = <<>> /\ registry \in Seq(DE!Entry) /\ DOMAIN registry = {}
  BY DEF DE!Init
<1>4. DE!KeysDiffer
  BY <1>3 DEF DE!KeysDiffer, DE!ListKeys
<1>. QED
  BY <1>1, <1>2, <1>3, <1>4, VersionsAre DEF DE!Init, DEInv, DE!TypeOK, DE!CachedIsLoaded

\* Steps that leave the catalog alone.
LEMMA CatalogSame ==
  ASSUME DEInv, UNCHANGED registry
  PROVE  /\ registry' \in Seq(DE!Entry)
         /\ \A i \in DOMAIN registry' : registry'[i] \in DE!Entry
         /\ DE!KeysDiffer'
BY DEF DEInv, DE!TypeOK, DE!KeysDiffer, DE!ListKeys

\* Resolving gives out what the cache holds then.
LEMMA GivesKeep ==
  ASSUME DEInv, NEW m \in Modules, NEW v \in ModuleVersions, DE!Give(m, v),
         UNCHANGED <<importing, sourceFiles, registry>>,
         modules' \in [Modules -> ModuleVersions \union {0}],
         resolution' \in [Modules -> ModuleVersions \union {0}],
         importing => v = modules'[m] /\ \A n \in Modules : modules[n] = 0 \/ modules'[n] = modules[n],
         ~importing => v = 1 /\ \A n \in Modules : resolution'[n] \in {0, 1},
         DE!CachedIsLoaded'
  PROVE  DEInv'
<1>1. reply' = DE!Class(v) /\ given' = [given EXCEPT ![m] = @ \union {v}]
  BY DEF DE!Give
<1>2. reply' \in DE!Reply
  BY <1>1 DEF DE!Class, DE!Reply
<1>3. given' \in [Modules -> SUBSET ModuleVersions] /\ given \in [Modules -> SUBSET ModuleVersions]
  BY <1>1 DEF DEInv, DE!TypeOK
<1>4. \A n \in Modules : given'[n] = IF n = m THEN given[n] \union {v} ELSE given[n]
  BY <1>1, <1>3, Zenon
<1>5. importing => \A n \in Modules : \A w \in given'[n] : w = modules'[n]
  <2>1. ASSUME importing, NEW n \in Modules, NEW w \in given'[n] PROVE w = modules'[n]
    <3>1. CASE w \in given[n]
      <4>1. w = modules[n] /\ w \in ModuleVersions
        BY <2>1, <3>1, <1>3 DEF DEInv
      <4>. QED
        BY <2>1, <4>1, VersionsAre
    <3>2. CASE n = m /\ w = v
      BY <2>1, <3>2
    <3>. QED
      BY <2>1, <3>1, <3>2, <1>4, Zenon
  <2>. QED
    BY <2>1
<1>6. ~importing => \A n \in Modules : given'[n] \subseteq {1}
  BY <1>4, Zenon DEF DEInv
<1>. QED
  BY <1>2, <1>3, <1>5, <1>6, CatalogSame DEF DEInv, DE!TypeOK

LEMMA ResolveCachedKeeps == ASSUME DEInv, NEW m \in Modules, DE!ResolveCached(m) PROVE DEInv'
<1>1. /\ resolution[m] # 0 /\ DE!Give(m, resolution[m])
      /\ UNCHANGED <<importing, sourceFiles, modules, resolution, registry>>
  BY DEF DE!ResolveCached
<1>2. resolution[m] \in ModuleVersions
  BY <1>1 DEF DEInv, DE!TypeOK
<1>3. /\ importing => resolution[m] = modules[m]
      /\ ~importing => resolution[m] = 1
  BY <1>1 DEF DEInv, DE!CachedIsLoaded
<1>4. DE!CachedIsLoaded'
  BY <1>1 DEF DEInv, DE!CachedIsLoaded
<1>. QED
  BY <1>1, <1>2, <1>3, <1>4, GivesKeep DEF DEInv, DE!TypeOK

\* Steps that give no class out and leave the cache and the modules alone.
LEMMA RepliesKeep ==
  ASSUME DEInv, reply' \in DE!Reply, UNCHANGED <<importing, sourceFiles, modules, resolution, registry, given>>
  PROVE  DEInv'
BY CatalogSame DEF DEInv, DE!TypeOK, DE!CachedIsLoaded

LEMMA ErrorsAre == \A e \in {"nothing", "ValidationError", "ModuleNotFoundError", "AttributeError"} : [is |-> e] \in DE!Reply
BY DEF DE!Reply

LEMMA ResolveKeeps == ASSUME DEInv, NEW m \in Modules, DE!Resolve(m) PROVE DEInv'
<1>. DEFINE v == DE!Imported(m)
<1>1. /\ importing /\ resolution[m] = 0 /\ UNCHANGED <<importing, sourceFiles, registry>>
  BY DEF DE!Resolve
<1>2. v \in ModuleVersions \union {0} /\ (modules[m] # 0 => v = modules[m])
  BY DEF DE!Imported, DEInv, DE!TypeOK
<1>3. CASE ~DE!IsAllowlisted(m)
  <2>1. DE!Fail("ValidationError") /\ UNCHANGED modules
    BY <1>3 DEF DE!Resolve
  <2>. QED
    BY <1>1, <2>1, ErrorsAre, RepliesKeep DEF DE!Fail
<1>4. CASE DE!IsAllowlisted(m)
  <2>1. modules' = [modules EXCEPT ![m] = v]
    BY <1>4 DEF DE!Resolve
  <2>2. /\ modules' \in [Modules -> ModuleVersions \union {0}] /\ modules'[m] = v
        /\ \A n \in Modules : n # m => modules'[n] = modules[n]
        /\ \A n \in Modules : modules[n] = 0 \/ modules'[n] = modules[n]
    BY <2>1, <1>2 DEF DEInv, DE!TypeOK
  <2>3. CASE DE!Fail("ModuleNotFoundError") \/ DE!Fail("AttributeError")
    <3>1. reply' \in DE!Reply /\ UNCHANGED <<resolution, given>>
      BY <2>3, ErrorsAre DEF DE!Fail
    <3>2. DE!CachedIsLoaded'
      BY <1>1, <2>2, <3>1 DEF DEInv, DE!CachedIsLoaded
    <3>3. \A n \in Modules : \A w \in given[n] : w = modules'[n]
      <4>1. TAKE n \in Modules
      <4>2. TAKE w \in given[n]
      <4>3. w = modules[n] /\ w \in ModuleVersions
        BY <1>1 DEF DEInv, DE!TypeOK
      <4>. QED
        BY <4>3, <2>2, VersionsAre
    <3>. QED
      BY <1>1, <2>2, <3>1, <3>2, <3>3, CatalogSame DEF DEInv, DE!TypeOK
  <2>4. CASE v # 0 /\ v \notin Classless /\ resolution' = [resolution EXCEPT ![m] = v] /\ DE!Give(m, v)
    <3>1. v \in ModuleVersions
      BY <1>2, <2>4
    <3>2. resolution' \in [Modules -> ModuleVersions \union {0}] /\ resolution'[m] = v
          /\ \A n \in Modules : n # m => resolution'[n] = resolution[n]
      BY <2>4, <1>2 DEF DEInv, DE!TypeOK
    <3>3. DE!CachedIsLoaded'
      BY <1>1, <1>4, <2>2, <2>4, <3>2 DEF DEInv, DE!CachedIsLoaded, DE!IsAllowlisted
    <3>. HIDE DEF v
    <3>. QED
      BY <1>1, <2>2, <2>4, <3>1, <3>2, <3>3, GivesKeep
  <2>5. \/ DE!Fail("ModuleNotFoundError") \/ DE!Fail("AttributeError")
        \/ v # 0 /\ v \notin Classless /\ resolution' = [resolution EXCEPT ![m] = v] /\ DE!Give(m, v)
    BY <1>4 DEF DE!Resolve
  <2>. QED
    BY <2>3, <2>4, <2>5
<1>. QED
  BY <1>3, <1>4

LEMMA LookUpKeeps == ASSUME DEInv, NEW m \in Modules, DE!LookUp(m) PROVE DEInv'
<1>. DEFINE matching == {i \in DOMAIN registry : DE!Matches(registry[i], m)}
            first == DE!Lowest(matching)
<1>1. /\ UNCHANGED <<importing, sourceFiles, modules, resolution, registry, given>>
      /\ reply' = IF matching = {} THEN DE!Nothing ELSE DE!Found(registry[first], m)
  BY DEF DE!LookUp
<1>2. CASE matching = {}
  BY <1>1, <1>2, ErrorsAre, RepliesKeep DEF DE!Nothing
<1>3. CASE matching # {}
  <2>1. matching \subseteq Nat /\ matching \subseteq DOMAIN registry
    BY DEF DEInv
  <2>2. \E n \in matching : \A k \in matching : n <= k
    BY <1>3, <2>1, Least
  <2>3. first \in matching
    BY <2>2 DEF DE!Lowest
  <2>4. registry[first] \in DE!Entry
    BY <2>1, <2>3 DEF DEInv, DE!TypeOK
  <2>. HIDE DEF first
  <2>5. DE!Found(registry[first], m) \in DE!Reply
    <3>1. registry[first].target \in DE!Target /\ registry[first].target.packages \in SUBSET Packages
      BY <2>4 DEF DE!Entry, DE!Target
    <3>. QED
      BY <3>1 DEF DE!Found, DE!Reply
  <2>. QED
    BY <1>1, <1>3, <2>5, RepliesKeep
<1>. QED
  BY <1>2, <1>3

\* A key that is registered again keeps its place, a new one is the last.
LEMMA RegisterKeeps ==
  ASSUME DEInv, NEW key \in CatalogKeys, NEW target \in DE!Target, DE!Register(key, target)
  PROVE  DEInv'
<1>. DEFINE entry == [key |-> key, target |-> target]
<1>1. UNCHANGED <<importing, sourceFiles, modules, resolution, reply, given>>
  BY DEF DE!Register
<1>2. entry \in DE!Entry /\ entry.key = key
  BY DEF DE!Entry
<1>. HIDE DEF entry
<1>3. /\ DOMAIN registry = 1..Len(registry) /\ Len(registry) \in Nat
      /\ \A i \in DOMAIN registry : registry[i] \in DE!Entry
      /\ \A i, k \in DOMAIN registry : registry[i].key = registry[k].key => i = k
  <2>1. DE!KeysDiffer /\ DOMAIN DE!ListKeys = DOMAIN registry
        /\ \A i \in DOMAIN registry : DE!ListKeys[i] = registry[i].key
    BY DEF DEInv, DE!TypeOK, DE!ListKeys
  <2>. QED
    BY <2>1 DEF DEInv, DE!TypeOK, DE!KeysDiffer
<1>4. CASE DE!IsKnown(key)
  <2>1. registry' = [i \in DOMAIN registry |-> IF registry[i].key = key THEN entry ELSE registry[i]]
    BY <1>4 DEF DE!Register, entry
  <2>2. registry' \in [1..Len(registry) -> DE!Entry]
    BY <2>1, <1>2, <1>3
  <2>3. registry' \in Seq(DE!Entry)
    BY <2>2, <1>3, SeqDef
  <2>4. DOMAIN registry' = DOMAIN registry /\ \A i \in DOMAIN registry : registry'[i].key = registry[i].key
    BY <2>1, <1>2
  <2>5. DE!KeysDiffer'
    BY <2>4, <1>3 DEF DE!KeysDiffer, DE!ListKeys
  <2>. QED
    BY <1>1, <2>2, <2>3, <2>5, <1>3 DEF DEInv, DE!TypeOK, DE!CachedIsLoaded
<1>5. CASE ~DE!IsKnown(key)
  <2>1. registry' = Append(registry, entry)
    BY <1>5 DEF DE!Register, entry
  <2>2. /\ registry' \in Seq(DE!Entry) /\ DOMAIN registry' = 1..(Len(registry) + 1)
        /\ \A k \in 1..Len(registry) : registry'[k] = registry[k]
        /\ registry'[Len(registry) + 1] = entry
    BY <2>1, <1>2, AppendIs DEF DEInv
  <2>3. \A k \in 1..Len(registry) : registry[k].key # key
    BY <1>5, <1>3 DEF DE!IsKnown
  <2>4. \A i, k \in DOMAIN registry' : registry'[i].key = registry'[k].key => i = k
    <3>1. TAKE i, k \in DOMAIN registry'
    <3>2. i \in 1..Len(registry) \/ i = Len(registry) + 1
      BY <2>2, <1>3
    <3>3. k \in 1..Len(registry) \/ k = Len(registry) + 1
      BY <2>2, <1>3
    <3>. QED
      BY <3>2, <3>3, <2>2, <2>3, <1>2, <1>3
  <2>5. DE!KeysDiffer'
    BY <2>4 DEF DE!KeysDiffer, DE!ListKeys
  <2>6. \A i \in DOMAIN registry' : registry'[i] \in DE!Entry
    BY <2>2, <1>2, <1>3
  <2>. QED
    BY <1>1, <2>2, <2>5, <2>6 DEF DEInv, DE!TypeOK, DE!CachedIsLoaded
<1>. QED
  BY <1>4, <1>5

LEMMA PackagesKeep == ASSUME DEInv, DE!GetRequiredPackages PROVE DEInv'
<1>1. DE!Required \subseteq Packages
  BY DEF DE!Required, DEInv, DE!TypeOK, DE!Entry, DE!Target
<1>2. reply' \in DE!Reply
  BY <1>1 DEF DE!GetRequiredPackages, DE!Reply
<1>. QED
  BY <1>2, RepliesKeep DEF DE!GetRequiredPackages

LEMMA InvalidatesKeep == ASSUME DEInv, DE!InvalidateCache \/ DE!InvalidateAll PROVE DEInv'
<1>1. /\ resolution' = [m \in Modules |-> 0]
      /\ given' = [m \in Modules |-> {}]
      /\ UNCHANGED <<importing, sourceFiles, modules, reply>>
      /\ registry' = registry \/ registry' = <<>>
  BY DEF DE!InvalidateCache, DE!InvalidateAll
<1>2. /\ registry' \in Seq(DE!Entry)
      /\ \A i \in DOMAIN registry' : registry'[i] \in DE!Entry
      /\ DE!KeysDiffer'
  <2>1. CASE registry' = registry
    BY <2>1, CatalogSame
  <2>2. CASE registry' = <<>>
    BY <2>2 DEF DE!KeysDiffer, DE!ListKeys
  <2>. QED
    BY <1>1, <2>1, <2>2
<1>. QED
  BY <1>1, <1>2 DEF DEInv, DE!TypeOK, DE!CachedIsLoaded

LEMMA DEStep == ASSUME DEInv, DE!Next \/ UNCHANGED DEvars PROVE DEInv'
<1>1. CASE UNCHANGED DEvars
  BY <1>1, RepliesKeep DEF DEvars, DEInv, DE!TypeOK
<1>2. ASSUME NEW m \in Modules, NEW v \in ModuleVersions \union {0}, DE!Deploy(m, v)
      PROVE  DEInv'
  <2>1. sourceFiles' \in [Modules -> ModuleVersions \union {0}]
    BY <1>2 DEF DE!Deploy, DEInv, DE!TypeOK
  <2>. QED
    BY <1>2, <2>1, CatalogSame DEF DE!Deploy, DEInv, DE!TypeOK, DE!CachedIsLoaded
<1>. QED
  BY <1>1, <1>2, ResolveCachedKeeps, ResolveKeeps, LookUpKeeps, RegisterKeeps, PackagesKeep, InvalidatesKeep DEF DE!Next

LEMMA DEKeeps == DEInv => DE!OneClass
<1>. SUFFICES ASSUME DEInv, NEW m \in Modules, NEW v \in given[m], NEW w \in given[m] PROVE v = w
  BY DEF DE!OneClass
<1>1. CASE importing
  BY <1>1 DEF DEInv
<1>2. CASE ~importing
  BY <1>2 DEF DEInv
<1>. QED
  BY <1>1, <1>2

-----------------------------------------------------------------------------
(* ErrorReports: the counter of an error's kind moves at each report.     *)

LEMMA ReportBounds ==
  /\ MaxCallDepth \in Nat /\ MaxReports \in Nat /\ MaxRaised \in Nat /\ MaxLoggers \in Nat \ {0}
  /\ Errors \subseteq ER!Kinds /\ ER!NoError \notin Errors
  /\ Bindings \subseteq ER!Context /\ ER!Unbound \in ER!Context
BY StoresOK, ContentsOK DEF ER!Kinds, ER!NoError

\* Fields with their values make a record.
LEMMA MakesContext ==
  ASSUME NEW l \in ER!Levels \union {""}, NEW e \in ER!Classes \union {""}
  PROVE  [level |-> l, error_type |-> e] \in ER!Context
BY Zenon DEF ER!Context

LEMMA MakesRecord ==
  ASSUME NEW l \in ER!Levels, NEW e \in ER!Classes \union {""}, NEW m \in ER!Classes \union {"note"}
  PROVE  [level |-> l, error_type |-> e, message |-> m] \in ER!Record
BY Zenon DEF ER!Record

\* What is given over a record, or over what a logger has bound.
LEMMA OverContext ==
  ASSUME NEW rec \in ER!Context, NEW bound \in ER!Context
  PROVE  ER!Over(rec, bound) \in ER!Context
<1>. DEFINE level == IF bound.level # "" THEN bound.level ELSE rec.level
            type == IF bound.error_type # "" THEN bound.error_type ELSE rec.error_type
<1>1. DOMAIN rec = {"level", "error_type"} /\ DOMAIN bound = {"level", "error_type"}
  BY Zenon DEF ER!Context
<1>2. ER!Over(rec, bound) = [f \in {"level", "error_type"} |-> IF bound[f] # "" THEN bound[f] ELSE rec[f]]
  BY <1>1 DEF ER!Over
<1>3. ER!Over(rec, bound) = [level |-> level, error_type |-> type]
  BY <1>2, Zenon
<1>4. level \in ER!Levels \union {""} /\ type \in ER!Classes \union {""}
  BY Zenon DEF ER!Context
<1>. HIDE DEF level, type
<1>5. [level |-> level, error_type |-> type] \in ER!Context
  BY <1>4, MakesContext, Zenon
<1>. QED
  BY <1>3, <1>5

LEMMA OverRecord ==
  ASSUME NEW rec \in ER!Record, NEW bound \in ER!Context
  PROVE  /\ ER!Over(rec, bound) \in ER!Record
         /\ ER!Over(rec, bound).message = rec.message
<1>. DEFINE level == IF bound.level # "" THEN bound.level ELSE rec.level
            type == IF bound.error_type # "" THEN bound.error_type ELSE rec.error_type
<1>1. /\ DOMAIN rec = {"level", "error_type", "message"} /\ DOMAIN bound = {"level", "error_type"}
  BY Zenon DEF ER!Context, ER!Record
<1>2. ER!Over(rec, bound) =
        [f \in {"level", "error_type", "message"} |->
           IF f \in {"level", "error_type"} /\ bound[f] # "" THEN bound[f] ELSE rec[f]]
  BY <1>1 DEF ER!Over
<1>3. "message" \notin {"level", "error_type"}
  OBVIOUS
<1>4. ER!Over(rec, bound) = [level |-> level, error_type |-> type, message |-> rec.message]
  BY <1>2, <1>3, Zenon
<1>5. level \in ER!Levels /\ type \in ER!Classes \union {""} /\ rec.message \in ER!Classes \union {"note"}
  BY Zenon DEF ER!Context, ER!Record
<1>. HIDE DEF level, type
<1>6. [level |-> level, error_type |-> type, message |-> rec.message] \in ER!Record
  BY <1>5, MakesRecord, Zenon
<1>7. ER!Over(rec, bound) \in ER!Record
  BY <1>4, <1>6
<1>8. ER!Over(rec, bound).message = rec.message
  BY <1>4
<1>. QED
  BY <1>7, <1>8

LEMMA OverReport ==
  ASSUME NEW rec \in ER!Record, NEW class \in ER!Classes
  PROVE  /\ ER!Over(rec, [error_type |-> class]) \in ER!Record
         /\ ER!Over(rec, [error_type |-> class]).message = rec.message
         /\ ER!Over(rec, [error_type |-> class]).error_type = class
<1>. DEFINE given_ == [error_type |-> class]
<1>1. DOMAIN rec = {"level", "error_type", "message"} /\ DOMAIN given_ = {"error_type"} /\ given_["error_type"] = class
  BY Zenon DEF ER!Record
<1>2. class # ""
  BY Zenon DEF ER!Classes
<1>. HIDE DEF given_
<1>3. ER!Over(rec, given_) =
        [f \in {"level", "error_type", "message"} |-> IF f \in {"error_type"} /\ given_[f] # "" THEN given_[f] ELSE rec[f]]
  BY <1>1 DEF ER!Over
<1>4. ER!Over(rec, given_) = [level |-> rec.level, error_type |-> class, message |-> rec.message]
  BY <1>1, <1>2, <1>3, Zenon
<1>5. rec.level \in ER!Levels /\ rec.message \in ER!Classes \union {"note"}
  BY Zenon DEF ER!Record
<1>6. [level |-> rec.level, error_type |-> class, message |-> rec.message] \in ER!Record
  BY <1>5, MakesRecord, Zenon
<1>7. ER!Over(rec, given_) \in ER!Record
  BY <1>4, <1>6
<1>8. ER!Over(rec, given_).message = rec.message /\ ER!Over(rec, given_).error_type = class
  BY <1>4
<1>. QED
  BY <1>7, <1>8 DEF given_

\* How many of the functions that were left have the wrapper around them.
LeftGuards == Cardinality({i \in DOMAIN left : ER!Guards(left[i])})

\* The double keeps an exception for each one it reports or stops: those that
\* were raised and are not in flight, and those handed to it.
ERInv ==
  /\ ER!TypeOK /\ ER!RecordsClassified
  /\ loggers \in Seq(ER!Context) /\ logs \in Seq(ER!Record)
  /\ calls \in Seq(ER!Function) /\ left \in Seq(ER!Function)
  /\ Len(left) + Len(calls) <= MaxCallDepth
  /\ captured <= raised + ER!Total /\ captured <= raised + MaxReports
  /\ flying # ER!NoError => captured < raised + ER!Total /\ captured < raised + MaxReports
  /\ flying = ER!NoError => left = <<>>
  /\ flying # ER!NoError => ER!Total = counted + LeftGuards /\ (capturing => LeftGuards = 0)

LEMMA BoundedIs ==
  ASSUME NEW s \in Seq(ER!Function), Len(s) <= MaxCallDepth
  PROVE  s \in ER!Stack
BY DEF ER!Stack

LEMMA ElementsIn == ASSUME NEW S, NEW s \in Seq(S) PROVE ER!Elements(s) \subseteq S
BY ElementOfSeq DEF ER!Elements

LEMMA TotalIs ==
  ASSUME total \in [ER!Classes -> Nat]
  PROVE  /\ ER!Total \in Nat
         /\ \A class \in ER!Classes : total' = [total EXCEPT ![class] = @ + 1] => ER!Total' = ER!Total + 1 /\ total' \in [ER!Classes -> Nat]
<1>1. ER!Total \in Nat
  BY DEF ER!Total, ER!Classes
<1>2. ASSUME NEW class \in ER!Classes, total' = [total EXCEPT ![class] = @ + 1]
      PROVE  ER!Total' = ER!Total + 1 /\ total' \in [ER!Classes -> Nat]
  <2>1. total' \in [ER!Classes -> Nat] /\ \A c \in ER!Classes : total'[c] = IF c = class THEN total[c] + 1 ELSE total[c]
    BY <1>2
  <2>2. /\ total["TRANSIENT"] \in Nat /\ total["PERMANENT"] \in Nat /\ total["VALIDATION"] \in Nat
        /\ total["AUTH"] \in Nat /\ total["RATE_LIMIT"] \in Nat
    BY DEF ER!Classes
  <2>. QED
    BY <2>1, <2>2 DEF ER!Total, ER!Classes
<1>. QED
  BY <1>1, <1>2

\* A record is written with a logger's context.
LEMMA WrittenIs ==
  ASSUME ERInv, NEW i \in DOMAIN loggers, NEW level \in ER!Levels, NEW m \in ER!Classes \union {"note"}
  PROVE  LET rec == ER!Over([level |-> level, error_type |-> "", message |-> m], loggers[i])
         IN  rec \in ER!Record /\ rec.message = m
<1>1. loggers[i] \in ER!Context
  BY ElementOfSeq DEF ERInv
<1>2. [level |-> level, error_type |-> "", message |-> m] \in ER!Record
  BY MakesRecord, Zenon
<1>3. [level |-> level, error_type |-> "", message |-> m].message = m
  OBVIOUS
<1>. HIDE DEF ER!Record, ER!Context
<1>. QED
  BY <1>1, <1>2, <1>3, OverRecord, Zenon

LEMMA RecordAdded ==
  ASSUME ERInv, NEW rec \in ER!Record, logs' = Append(logs, rec), rec.message \in ER!Classes => rec.error_type = rec.message
  PROVE  logs' \in Seq(ER!Record) /\ ER!RecordsClassified'
<1>1. /\ logs' \in Seq(ER!Record) /\ DOMAIN logs' = 1..(Len(logs) + 1) /\ DOMAIN logs = 1..Len(logs) /\ Len(logs) \in Nat
      /\ \A k \in 1..Len(logs) : logs'[k] = logs[k]
      /\ logs'[Len(logs) + 1] = rec
  BY AppendIs DEF ERInv
<1>. QED
  BY <1>1 DEF ERInv, ER!RecordsClassified

\* report: one record, classified, and one count.
LEMMA ReportedIs ==
  ASSUME ERInv, NEW error \in Errors, ER!Reported(error)
  PROVE  /\ logs' \in Seq(ER!Record) /\ ER!RecordsClassified'
         /\ ER!Total' = ER!Total + 1 /\ ER!Total \in Nat /\ total' \in [ER!Classes -> Nat]
<1>. DEFINE class == ER!Classify(error)
            rec == ER!Over([level |-> "ERROR", error_type |-> "", message |-> class], loggers[1])
            written == ER!Over(rec, [error_type |-> class])
<1>1. class \in ER!Classes
  BY DEF ER!Classify, ER!Classes
<1>2. logs' = Append(logs, written) /\ total' = [total EXCEPT ![class] = @ + 1]
  BY Zenon DEF ER!Reported, ER!Written
<1>. HIDE DEF class
<1>3. 1 \in DOMAIN loggers /\ "ERROR" \in ER!Levels
  BY LenProperties DEF ERInv, ER!TypeOK, ER!Levels
<1>4. rec \in ER!Record /\ rec.message = class
  BY <1>1, <1>3, WrittenIs, Zenon
<1>. HIDE DEF rec
<1>5. written \in ER!Record /\ written.message = class /\ written.error_type = class
  BY <1>1, <1>4, OverReport
<1>. HIDE DEF written
<1>6. logs' \in Seq(ER!Record) /\ ER!RecordsClassified'
  BY <1>2, <1>5, RecordAdded
<1>7. ER!Total' = ER!Total + 1 /\ ER!Total \in Nat /\ total' \in [ER!Classes -> Nat]
  BY <1>1, <1>2, TotalIs DEF ERInv, ER!TypeOK
<1>. QED
  BY <1>6, <1>7

\* The function that is left joins those that were left.
LEMMA GuardLeft ==
  ASSUME ERInv, NEW f \in ER!Function, left' = Append(left, f)
  PROVE  /\ left' \in Seq(ER!Function) /\ Len(left') = Len(left) + 1
         /\ LeftGuards \in Nat /\ LeftGuards' = LeftGuards + (IF ER!Guards(f) THEN 1 ELSE 0)
<1>. DEFINE n == Len(left)
            old == {i \in DOMAIN left : ER!Guards(left[i])}
            new == {i \in DOMAIN left' : ER!Guards(left'[i])}
<1>1. /\ left' \in Seq(ER!Function) /\ Len(left') = n + 1 /\ DOMAIN left' = 1..(n + 1)
      /\ DOMAIN left = 1..n /\ n \in Nat /\ \A k \in 1..n : left'[k] = left[k]
      /\ left'[n + 1] = f
  BY AppendIs DEF ERInv
<1>2. IsFiniteSet(old) /\ n + 1 \notin old
  <2>1. IsFiniteSet(1..n)
    BY <1>1, FS_Interval
  <2>. QED
    BY <2>1, <1>1, FS_Subset
<1>3. new = IF ER!Guards(f) THEN old \union {n + 1} ELSE old
  BY <1>1
<1>4. Cardinality(old) \in Nat
  BY <1>2, FS_CardinalityType
<1>5. Cardinality(new) = Cardinality(old) + (IF ER!Guards(f) THEN 1 ELSE 0)
  <2>. HIDE DEF old, new, n
  <2>1. CASE ER!Guards(f)
    BY <2>1, <1>2, <1>3, FS_AddElement
  <2>2. CASE ~ER!Guards(f)
    BY <2>2, <1>3, <1>4
  <2>. QED
    BY <2>1, <2>2
<1>6. LeftGuards = Cardinality(old) /\ LeftGuards' = Cardinality(new)
  BY DEF LeftGuards
<1>. HIDE DEF old, new
<1>. QED
  BY <1>1, <1>4, <1>5, <1>6

LEMMA NoneLeft == ASSUME left' = <<>> PROVE LeftGuards' = 0
<1>1. {i \in DOMAIN left' : ER!Guards(left'[i])} = {}
  OBVIOUS
<1>. QED
  BY <1>1, FS_EmptySet DEF LeftGuards

\* What of the invariant only depends on the buffer and the loggers.
LEMMA LoggingKeeps ==
  ASSUME ERInv, UNCHANGED <<capturing, calls, flying, captured, total, raised, counted, left>>,
         loggers' \in Seq(ER!Context), Len(loggers') \in 1..MaxLoggers,
         logs' \in Seq(ER!Record), ER!RecordsClassified'
  PROVE  ERInv'
<1>1. ER!Elements(loggers') \subseteq ER!Context /\ ER!Elements(logs') \subseteq ER!Record
  BY ElementsIn
<1>2. ER!Total' = ER!Total /\ LeftGuards' = LeftGuards
  BY DEF ER!Total, LeftGuards
<1>. HIDE DEF ER!Record, ER!Context, ER!Function
<1>. QED
  BY <1>1, <1>2 DEF ERInv, ER!TypeOK

LEMMA CapturedFits ==
  ASSUME NEW n \in Nat, NEW m \in Nat, NEW r \in 0..n, NEW c \in Nat, c <= r + m
  PROVE  c \in 0..r + m
OBVIOUS

\* Steps of the functions and their exceptions.
LEMMA CallsKeep ==
  ASSUME ERInv, UNCHANGED <<capturing, loggers>>,
         logs' \in Seq(ER!Record), ER!RecordsClassified',
         calls' \in Seq(ER!Function), left' \in Seq(ER!Function),
         Len(left') + Len(calls') <= MaxCallDepth,
         flying' \in Errors \union {ER!NoError},
         total' \in [ER!Classes -> Nat], raised' \in 0..MaxRaised, counted' \in Nat, captured' \in Nat,
         captured' <= raised' + ER!Total', captured' <= raised' + MaxReports,
         flying' # ER!NoError => captured' < raised' + ER!Total' /\ captured' < raised' + MaxReports,
         flying' = ER!NoError => left' = <<>>,
         flying' # ER!NoError => ER!Total' = counted' + LeftGuards' /\ (capturing => LeftGuards' = 0)
  PROVE  ERInv'
<1>1. ER!Elements(logs') \subseteq ER!Record
  BY ElementsIn
<1>2. Len(calls') \in Nat /\ Len(left') \in Nat /\ Len(calls') <= MaxCallDepth /\ Len(left') <= MaxCallDepth
  BY LenProperties, ReportBounds
<1>3. calls' \in ER!Stack /\ left' \in ER!Stack
  BY <1>2, BoundedIs, ReportBounds
<1>4. captured' \in 0..raised' + MaxReports
  BY ReportBounds, CapturedFits, Zenon
<1>. HIDE DEF ER!Record, ER!Context, ER!Function
<1>. QED
  BY <1>1, <1>3, <1>4 DEF ERInv, ER!TypeOK

LEMMA ERNumbers ==
  ASSUME ERInv
  PROVE  /\ ER!Total \in Nat /\ captured \in Nat /\ raised \in Nat /\ counted \in Nat /\ MaxReports \in Nat
         /\ Len(calls) \in Nat /\ Len(left) \in Nat /\ total \in [ER!Classes -> Nat] /\ raised \in 0..MaxRaised
         /\ MaxCallDepth \in Nat
<1>1. /\ total \in [ER!Classes -> Nat] /\ captured \in 0..raised + MaxReports /\ raised \in 0..MaxRaised /\ counted \in Nat
  BY DEF ERInv, ER!TypeOK
<1>2. Len(calls) \in Nat /\ Len(left) \in Nat
  BY LenProperties DEF ERInv
<1>. QED
  BY <1>1, <1>2, ReportBounds, TotalIs

LEMMA ERInit == ER!Init => ERInv
<1>. SUFFICES ASSUME ER!Init PROVE ERInv
  OBVIOUS
<1>1. PICK context_ \in Bindings : loggers = <<context_>>
  BY DEF ER!Init
<1>2. context_ \in ER!Context
  BY ReportBounds
<1>3. /\ loggers \in Seq(ER!Context) /\ Len(loggers) = 1 /\ ER!Elements(loggers) \subseteq ER!Context
  <2>. HIDE DEF ER!Context
  <2>1. loggers \in Seq(ER!Context) /\ Len(loggers) = 1
    BY <1>1, <1>2
  <2>. QED
    BY <2>1, ElementsIn
<1>4. /\ logs = <<>> /\ calls = <<>> /\ left = <<>> /\ flying = ER!NoError /\ captured = 0 /\ raised = 0 /\ counted = 0
      /\ capturing \in BOOLEAN /\ total = [c \in ER!Classes |-> 0]
  BY DEF ER!Init
<1>5. /\ <<>> \in ER!Stack /\ ER!Elements(<<>>) = {}
      /\ \A S : <<>> \in Seq(S)
  <2>1. <<>> \in Seq(ER!Function) /\ Len(<<>>) <= MaxCallDepth
    BY ReportBounds
  <2>2. <<>> \in ER!Stack
    BY <2>1, BoundedIs, ReportBounds
  <2>. QED
    BY <2>2 DEF ER!Elements
<1>6. total \in [ER!Classes -> Nat] /\ ER!Total = 0
  BY <1>4 DEF ER!Total, ER!Classes
<1>7. ER!TypeOK
  <2>. HIDE DEF ER!Context, ER!Record, ER!Function, ER!Classes
  <2>. QED
    BY <1>3, <1>4, <1>5, <1>6, ReportBounds DEF ER!TypeOK
<1>8. ER!RecordsClassified
  BY <1>4 DEF ER!RecordsClassified
<1>9. captured <= raised + ER!Total /\ captured <= raised + MaxReports
  BY <1>4, <1>6, ReportBounds
<1>. HIDE DEF ER!Context, ER!Record, ER!Function, ER!NoError
<1>10. Len(left) + Len(calls) <= MaxCallDepth
  BY <1>4, ReportBounds
<1>. QED
  BY <1>3, <1>4, <1>5, <1>7, <1>8, <1>9, <1>10 DEF ERInv

LEMMA BindKeeps == ASSUME ERInv, NEW i \in DOMAIN loggers, NEW b \in Bindings, ER!Bind(i, b) PROVE ERInv'
<1>1. /\ Len(loggers) < MaxLoggers /\ loggers' = Append(loggers, ER!Over(loggers[i], b))
      /\ UNCHANGED <<capturing, calls, flying, captured, total, logs, raised, counted, left>>
  BY DEF ER!Bind
<1>2. loggers[i] \in ER!Context /\ b \in ER!Context
  BY ReportBounds, ElementOfSeq DEF ERInv
<1>. HIDE DEF ER!Context, ER!Record
<1>3. ER!Over(loggers[i], b) \in ER!Context
  BY <1>2, OverContext
<1>4. loggers' \in Seq(ER!Context) /\ Len(loggers') = Len(loggers) + 1 /\ Len(loggers) \in Nat
  BY <1>1, <1>3, AppendIs DEF ERInv
<1>5. logs' \in Seq(ER!Record) /\ ER!RecordsClassified'
  BY <1>1 DEF ERInv, ER!RecordsClassified
<1>. QED
  BY <1>1, <1>4, <1>5, ReportBounds, LoggingKeeps

LEMMA NoteKeeps == ASSUME ERInv, NEW i \in DOMAIN loggers, ER!Note(i) PROVE ERInv'
<1>. DEFINE rec == ER!Over([level |-> "INFO", error_type |-> "", message |-> "note"], loggers[i])
            written == ER!Over(rec, ER!Unbound)
<1>1. /\ logs' = Append(logs, written)
      /\ UNCHANGED <<capturing, calls, flying, captured, total, loggers, raised, counted, left>>
  BY Zenon DEF ER!Note, ER!Written
<1>2. rec \in ER!Record /\ rec.message = "note"
  <2>1. "INFO" \in ER!Levels /\ "note" \in ER!Classes \union {"note"}
    BY DEF ER!Levels
  <2>. QED
    BY <2>1, WrittenIs, Zenon
<1>. HIDE DEF rec, ER!Unbound
<1>3. written \in ER!Record /\ written.message = "note"
  BY <1>2, OverRecord, ReportBounds
<1>. HIDE DEF written
<1>4. "note" \notin ER!Classes
  BY DEF ER!Classes
<1>5. logs' \in Seq(ER!Record) /\ ER!RecordsClassified'
  BY <1>1, <1>3, <1>4, RecordAdded
<1>6. loggers' \in Seq(ER!Context) /\ Len(loggers') \in 1..MaxLoggers
  BY <1>1 DEF ERInv, ER!TypeOK
<1>. QED
  BY <1>1, <1>5, <1>6, LoggingKeeps

LEMMA ClearLogsKeeps == ASSUME ERInv, ER!ClearLogs PROVE ERInv'
<1>1. /\ logs' = <<>> /\ UNCHANGED <<capturing, calls, flying, captured, total, loggers, raised, counted, left>>
  BY DEF ER!ClearLogs
<1>2. logs' \in Seq(ER!Record) /\ ER!RecordsClassified'
  BY <1>1 DEF ER!RecordsClassified
<1>3. loggers' \in Seq(ER!Context) /\ Len(loggers') \in 1..MaxLoggers
  BY <1>1 DEF ERInv, ER!TypeOK
<1>. QED
  BY <1>1, <1>2, <1>3, LoggingKeeps

\* report and the handle of both adapters: nothing is in flight.
LEMMA ReportKeeps == ASSUME ERInv, NEW error \in Errors, ER!Report(error) \/ ER!HandleCaptured(error) PROVE ERInv'
<1>. USE ERNumbers
<1>1. /\ flying = ER!NoError /\ ER!Total < MaxReports /\ ER!Reported(error) /\ captured' \in {captured, captured + 1}
      /\ UNCHANGED <<capturing, calls, flying, loggers, raised, counted, left>>
  BY DEF ER!Report, ER!HandleCaptured
<1>2. /\ logs' \in Seq(ER!Record) /\ ER!RecordsClassified'
      /\ ER!Total' = ER!Total + 1 /\ total' \in [ER!Classes -> Nat]
  BY <1>1, ReportedIs
<1>. HIDE DEF ER!NoError
<1>3. captured' \in Nat /\ captured' <= raised' + ER!Total' /\ captured' <= raised' + MaxReports
  <2>1. captured <= raised + ER!Total /\ captured <= raised + MaxReports
    BY DEF ERInv
  <2>. QED
    BY <1>1, <1>2, <2>1
<1>4. /\ left' = <<>> /\ flying' = ER!NoError /\ calls' \in Seq(ER!Function) /\ left' \in Seq(ER!Function)
      /\ Len(left') + Len(calls') <= MaxCallDepth /\ raised' \in 0..MaxRaised /\ counted' \in Nat
  BY <1>1 DEF ERInv
<1>. QED
  BY <1>1, <1>2, <1>3, <1>4, CallsKeep

LEMMA CallKeepsER == ASSUME ERInv, NEW f \in ER!Function, ER!Call(f) PROVE ERInv'
<1>. USE ERNumbers
<1>1. /\ flying = ER!NoError /\ Len(calls) < MaxCallDepth /\ calls' = Append(calls, f)
      /\ UNCHANGED <<capturing, flying, captured, total, loggers, logs, raised, counted, left>>
  BY DEF ER!Call
<1>. HIDE DEF ER!NoError, ER!Function, ER!Record, ER!Classes
<1>2. calls' \in Seq(ER!Function) /\ Len(calls') = Len(calls) + 1
  BY <1>1, AppendIs DEF ERInv
<1>3. left = <<>> /\ Len(left) = 0
  BY <1>1 DEF ERInv
<1>4. Len(left') + Len(calls') <= MaxCallDepth
  BY <1>1, <1>2, <1>3
<1>5. ER!Total' = ER!Total
  BY <1>1 DEF ER!Total
<1>6. /\ logs' \in Seq(ER!Record) /\ ER!RecordsClassified' /\ left' \in Seq(ER!Function)
      /\ flying' \in Errors \union {ER!NoError}
      /\ captured' <= raised' + ER!Total' /\ captured' <= raised' + MaxReports
  BY <1>1, <1>5 DEF ERInv, ER!RecordsClassified, ER!TypeOK
<1>. QED
  BY <1>1, <1>2, <1>3, <1>4, <1>6, CallsKeep

\* The innermost function is left.
LEMMA Left ==
  ASSUME ERInv, calls # <<>>, calls' = ER!Popped(calls)
  PROVE  /\ calls' \in Seq(ER!Function) /\ Len(calls') = Len(calls) - 1
         /\ ER!Top(calls) \in ER!Function
<1>1. Len(calls) # 0
  BY EmptySeq DEF ERInv
<1>2. ER!Popped(calls) = TX!Popped(calls)
  BY DEF ER!Popped, TX!Popped
<1>. HIDE DEF ER!Function
<1>3. calls' \in Seq(ER!Function) /\ Len(calls') = Len(calls) - 1
  BY <1>1, <1>2, FrontIs DEF ERInv
<1>4. Len(calls) \in 1..Len(calls) /\ ER!Top(calls) = calls[Len(calls)]
  BY <1>1, LenProperties DEF ERInv, ER!Top
<1>5. calls[Len(calls)] \in ER!Function
  BY <1>4, ElementOfSeq DEF ERInv
<1>. QED
  BY <1>3, <1>4, <1>5

LEMMA ReturnKeeps == ASSUME ERInv, ER!Return PROVE ERInv'
<1>. USE ERNumbers
<1>1. /\ flying = ER!NoError /\ calls # <<>> /\ calls' = ER!Popped(calls)
      /\ UNCHANGED <<capturing, flying, captured, total, loggers, logs, raised, counted, left>>
  BY DEF ER!Return
<1>. HIDE DEF ER!NoError, ER!Function, ER!Record, ER!Classes
<1>2. calls' \in Seq(ER!Function) /\ Len(calls') = Len(calls) - 1
  BY <1>1, Left
<1>3. left = <<>> /\ Len(left) + Len(calls) <= MaxCallDepth
  BY <1>1 DEF ERInv
<1>4. Len(left') + Len(calls') <= MaxCallDepth
  BY <1>1, <1>2, <1>3
<1>5. ER!Total' = ER!Total
  BY <1>1 DEF ER!Total
<1>6. /\ logs' \in Seq(ER!Record) /\ ER!RecordsClassified' /\ left' \in Seq(ER!Function)
      /\ flying' \in Errors \union {ER!NoError}
      /\ captured' <= raised' + ER!Total' /\ captured' <= raised' + MaxReports
  BY <1>1, <1>5 DEF ERInv, ER!RecordsClassified, ER!TypeOK
<1>. QED
  BY <1>1, <1>2, <1>3, <1>4, <1>6, CallsKeep

LEMMA RaiseKeeps == ASSUME ERInv, NEW error \in Errors, ER!Raise(error) PROVE ERInv'
<1>. USE ERNumbers
<1>1. /\ flying = ER!NoError /\ raised < MaxRaised /\ flying' = error /\ raised' = raised + 1
      /\ counted' = ER!Total /\ left' = <<>>
      /\ UNCHANGED <<capturing, calls, captured, total, loggers, logs>>
  BY DEF ER!Raise
<1>. HIDE DEF ER!NoError, ER!Function, ER!Record, ER!Classes
<1>2. raised' \in 0..MaxRaised /\ counted' \in Nat /\ captured' \in Nat /\ flying' # ER!NoError
  BY <1>1, ReportBounds
<1>3. left = <<>> /\ Len(left) + Len(calls) <= MaxCallDepth /\ calls \in Seq(ER!Function) /\ <<>> \in Seq(ER!Function)
  BY <1>1 DEF ERInv
<1>4. Len(left') + Len(calls') <= MaxCallDepth /\ left' \in Seq(ER!Function) /\ calls' \in Seq(ER!Function)
  BY <1>1, <1>3
<1>5. ER!Total' = ER!Total /\ LeftGuards' = 0
  BY <1>1, NoneLeft DEF ER!Total
<1>6. captured <= raised + ER!Total /\ captured <= raised + MaxReports
  BY DEF ERInv
<1>7. /\ captured' <= raised' + ER!Total' /\ captured' <= raised' + MaxReports
      /\ captured' < raised' + ER!Total' /\ captured' < raised' + MaxReports
  BY <1>1, <1>5, <1>6
<1>8. ER!Total' = counted' + LeftGuards'
  BY <1>1, <1>5
<1>9. /\ logs' \in Seq(ER!Record) /\ ER!RecordsClassified' /\ total' \in [ER!Classes -> Nat]
  BY <1>1 DEF ERInv, ER!RecordsClassified
<1>. QED
  BY <1>1, <1>2, <1>4, <1>5, <1>7, <1>8, <1>9, CallsKeep

\* The exception leaves a function, reported by its wrapper or not.
LEMMA LeaveKeepsER == ASSUME ERInv, ER!Leave \/ ER!LeaveReported PROVE ERInv'
<1>. USE ERNumbers
<1>1. /\ flying # ER!NoError /\ calls # <<>>
      /\ calls' = ER!Popped(calls) /\ left' = Append(left, ER!Top(calls))
      /\ UNCHANGED <<capturing, flying, captured, loggers, raised, counted>>
  BY DEF ER!Leave, ER!LeaveReported
<1>. DEFINE guarded == IF ER!Guards(ER!Top(calls)) THEN 1 ELSE 0
<1>2. /\ calls' \in Seq(ER!Function) /\ Len(calls') = Len(calls) - 1 /\ ER!Top(calls) \in ER!Function
  BY <1>1, Left
<1>3. /\ left' \in Seq(ER!Function) /\ Len(left') = Len(left) + 1
      /\ LeftGuards \in Nat /\ LeftGuards' = LeftGuards + guarded
  BY <1>1, <1>2, GuardLeft
<1>4. /\ logs' \in Seq(ER!Record) /\ ER!RecordsClassified' /\ total' \in [ER!Classes -> Nat]
      /\ ER!Total' = ER!Total + guarded /\ ER!Total' \in Nat
      /\ guarded = 1 => ~capturing
  <2>1. CASE ER!Leave
    <3>1. ~ER!Guards(ER!Top(calls)) /\ UNCHANGED <<total, logs>>
      BY <2>1 DEF ER!Leave
    <3>2. logs' \in Seq(ER!Record) /\ ER!RecordsClassified' /\ ER!Total' = ER!Total
      BY <3>1 DEF ERInv, ER!RecordsClassified, ER!Total
    <3>3. guarded = 0
      BY <3>1
    <3>. HIDE DEF guarded
    <3>. QED
      BY <3>1, <3>2, <3>3
  <2>2. CASE ER!LeaveReported
    <3>1. ER!Guards(ER!Top(calls)) /\ ~capturing /\ ER!Reported(flying) /\ flying \in Errors
      BY <1>1, <2>2 DEF ER!LeaveReported, ERInv, ER!TypeOK
    <3>2. guarded = 1
      BY <3>1
    <3>. HIDE DEF guarded
    <3>. QED
      BY <3>1, <3>2, ReportedIs
  <2>. QED
    BY <2>1, <2>2
<1>5. guarded \in {0, 1}
  OBVIOUS
<1>. HIDE DEF ER!NoError, ER!Function, ER!Record, ER!Classes, guarded
<1>6. Len(left) + Len(calls) <= MaxCallDepth
  BY DEF ERInv
<1>7. Len(left') + Len(calls') <= MaxCallDepth
  BY <1>2, <1>3, <1>6
<1>8. /\ captured < raised + ER!Total /\ captured < raised + MaxReports
      /\ ER!Total = counted + LeftGuards /\ (capturing => LeftGuards = 0)
  BY <1>1 DEF ERInv
<1>9. /\ captured' < raised' + ER!Total' /\ captured' < raised' + MaxReports
      /\ captured' <= raised' + ER!Total' /\ captured' <= raised' + MaxReports
  <2>1. ER!Total' >= ER!Total
    BY <1>4, <1>5
  <2>2. captured' = captured /\ raised' = raised
    BY <1>1
  <2>. QED
    BY <1>4, <1>8, <2>1, <2>2
<1>10. ER!Total' = counted' + LeftGuards' /\ (capturing => LeftGuards' = 0)
  <2>1. ER!Total' = counted' + LeftGuards'
    BY <1>1, <1>3, <1>4, <1>5, <1>8
  <2>2. ASSUME capturing PROVE LeftGuards' = 0
    <3>1. guarded = 0
      BY <2>2, <1>4, <1>5
    <3>2. LeftGuards = 0
      BY <2>2, <1>8
    <3>. QED
      BY <1>3, <3>1, <3>2
  <2>. QED
    BY <2>1, <2>2
<1>11. flying' \in Errors \union {ER!NoError} /\ flying' # ER!NoError
  BY <1>1 DEF ERInv, ER!TypeOK
<1>12. raised' \in 0..MaxRaised /\ counted' \in Nat /\ captured' \in Nat
  BY <1>1
<1>. QED
  BY <1>1, <1>2, <1>3, <1>4, <1>7, <1>9, <1>10, <1>11, <1>12, CallsKeep

\* The double stops the exception and keeps it.
LEMMA CaptureKeeps == ASSUME ERInv, ER!Capture PROVE ERInv'
<1>. USE ERNumbers
<1>1. /\ flying # ER!NoError /\ calls # <<>> /\ captured' = captured + 1 /\ ER!Reported(flying)
      /\ calls' = ER!Popped(calls) /\ flying' = ER!NoError /\ left' = <<>> /\ counted' = 0
      /\ UNCHANGED <<capturing, loggers, raised>>
  BY DEF ER!Capture
<1>2. flying \in Errors
  BY <1>1 DEF ERInv, ER!TypeOK
<1>3. /\ logs' \in Seq(ER!Record) /\ ER!RecordsClassified' /\ total' \in [ER!Classes -> Nat]
      /\ ER!Total' = ER!Total + 1
  BY <1>1, <1>2, ReportedIs
<1>4. /\ calls' \in Seq(ER!Function) /\ Len(calls') = Len(calls) - 1
  BY <1>1, Left
<1>. HIDE DEF ER!NoError, ER!Function, ER!Record, ER!Classes
<1>5. captured < raised + ER!Total /\ captured < raised + MaxReports /\ Len(left) + Len(calls) <= MaxCallDepth
  BY <1>1 DEF ERInv
<1>6. captured' <= raised' + ER!Total' /\ captured' <= raised' + MaxReports /\ captured' \in Nat
  BY <1>1, <1>3, <1>5
<1>7. Len(left') = 0 /\ left' \in Seq(ER!Function)
  BY <1>1
<1>8. Len(left') + Len(calls') <= MaxCallDepth
  BY <1>4, <1>5, <1>7
<1>9. raised' \in 0..MaxRaised /\ counted' \in Nat /\ flying' \in Errors \union {ER!NoError}
  BY <1>1
<1>. QED
  BY <1>1, <1>3, <1>4, <1>6, <1>7, <1>8, <1>9, CallsKeep

LEMMA CatchKeeps == ASSUME ERInv, ER!Catch PROVE ERInv'
<1>. USE ERNumbers
<1>1. /\ flying' = ER!NoError /\ left' = <<>> /\ counted' = 0
      /\ UNCHANGED <<capturing, calls, captured, total, loggers, logs, raised>>
  BY DEF ER!Catch
<1>. HIDE DEF ER!NoError, ER!Function, ER!Record, ER!Classes
<1>2. ER!Total' = ER!Total /\ logs' \in Seq(ER!Record) /\ ER!RecordsClassified' /\ calls' \in Seq(ER!Function)
  BY <1>1 DEF ERInv, ER!RecordsClassified, ER!Total
<1>3. /\ captured <= raised + ER!Total /\ captured <= raised + MaxReports
      /\ Len(left) + Len(calls) <= MaxCallDepth
  BY DEF ERInv
<1>4. Len(left') = 0 /\ left' \in Seq(ER!Function)
  BY <1>1
<1>5. Len(left') + Len(calls') <= MaxCallDepth
  BY <1>1, <1>3, <1>4
<1>6. captured' <= raised' + ER!Total' /\ captured' <= raised' + MaxReports
  BY <1>1, <1>2, <1>3
<1>7. raised' \in 0..MaxRaised /\ counted' \in Nat /\ flying' \in Errors \union {ER!NoError} /\ captured' \in Nat
      /\ total' \in [ER!Classes -> Nat]
  BY <1>1
<1>. QED
  BY <1>1, <1>2, <1>4, <1>5, <1>6, <1>7, CallsKeep

LEMMA ClearCapturedKeeps == ASSUME ERInv, ER!ClearCaptured PROVE ERInv'
<1>. USE ERNumbers
<1>1. captured' = 0 /\ UNCHANGED <<capturing, calls, flying, total, loggers, logs, raised, counted, left>>
  BY DEF ER!ClearCaptured
<1>. HIDE DEF ER!NoError, ER!Function, ER!Record, ER!Classes
<1>2. ER!Total' = ER!Total /\ LeftGuards' = LeftGuards /\ logs' \in Seq(ER!Record) /\ ER!RecordsClassified'
  BY <1>1 DEF ERInv, ER!RecordsClassified, ER!Total, LeftGuards
<1>3. captured \in Nat /\ (flying # ER!NoError => captured < raised + ER!Total /\ captured < raised + MaxReports)
  BY DEF ERInv
<1>4. /\ captured' <= raised' + ER!Total' /\ captured' <= raised' + MaxReports
      /\ flying' # ER!NoError => captured' < raised' + ER!Total' /\ captured' < raised' + MaxReports
  <2>1. raised + ER!Total \in Nat /\ raised + MaxReports \in Nat
    OBVIOUS
  <2>2. \A n \in Nat : 0 <= n /\ (captured < n => 0 < n)
    BY <1>3
  <2>. QED
    BY <1>1, <1>2, <1>3, <2>1, <2>2
<1>5. /\ calls' \in Seq(ER!Function) /\ left' \in Seq(ER!Function)
      /\ Len(left') + Len(calls') <= MaxCallDepth /\ flying' \in Errors \union {ER!NoError}
      /\ total' \in [ER!Classes -> Nat] /\ raised' \in 0..MaxRaised /\ counted' \in Nat /\ captured' \in Nat
  BY <1>1 DEF ERInv, ER!TypeOK
<1>6. /\ flying' = ER!NoError => left' = <<>>
      /\ flying' # ER!NoError => ER!Total' = counted' + LeftGuards' /\ (capturing => LeftGuards' = 0)
  BY <1>1, <1>2 DEF ERInv
<1>. QED
  BY <1>1, <1>2, <1>4, <1>5, <1>6, CallsKeep

LEMMA ERStep == ASSUME ERInv, ER!Next \/ UNCHANGED ERvars PROVE ERInv'
<1>1. CASE UNCHANGED ERvars
  <2>1. UNCHANGED <<capturing, calls, flying, captured, total, loggers, logs, raised, counted, left>>
    BY <1>1 DEF ERvars
  <2>2. logs' \in Seq(ER!Record) /\ ER!RecordsClassified'
    BY <2>1 DEF ERInv, ER!RecordsClassified
  <2>3. loggers' \in Seq(ER!Context) /\ Len(loggers') \in 1..MaxLoggers
    BY <2>1 DEF ERInv, ER!TypeOK
  <2>. QED
    BY <2>1, <2>2, <2>3, LoggingKeeps
<1>2. CASE ER!Next
  <2>1. \/ \E i \in DOMAIN loggers : ER!Note(i) \/ \E b \in Bindings : ER!Bind(i, b)
        \/ \E error \in Errors : ER!Report(error) \/ ER!HandleCaptured(error) \/ ER!Raise(error)
        \/ \E f \in ER!Function : ER!Call(f)
        \/ ER!Return \/ ER!Leave \/ ER!LeaveReported \/ ER!Capture \/ ER!Catch
        \/ ER!ClearLogs \/ ER!ClearCaptured
    BY <1>2 DEF ER!Next, ER!Handle
  <2>. QED
    BY <2>1, NoteKeeps, BindKeeps, ReportKeeps, RaiseKeeps, CallKeepsER, ReturnKeeps, LeaveKeepsER,
       CaptureKeeps, CatchKeeps, ClearLogsKeeps, ClearCapturedKeeps
<1>. QED
  BY <1>1, <1>2

\* What was counted on the way.
LEMMA ERCounts == ERInv => ER!CountedOnTheWay
<1>. SUFFICES ASSUME ERInv, flying # ER!NoError PROVE ER!CountedOnTheWay
  BY DEF ER!CountedOnTheWay
<1>1. ER!Total = counted + LeftGuards /\ (capturing => LeftGuards = 0)
  BY DEF ERInv
<1>2. counted \in Nat /\ LeftGuards \in Nat
  <2>1. DOMAIN left = 1..Len(left) /\ Len(left) \in Nat
    BY LenProperties DEF ERInv
  <2>2. IsFiniteSet(DOMAIN left)
    BY <2>1, FS_Interval
  <2>3. IsFiniteSet({i \in DOMAIN left : ER!Guards(left[i])})
    BY <2>2, FS_Subset
  <2>. QED
    BY <2>3, ERNumbers, FS_CardinalityType DEF LeftGuards
<1>3. ER!Total - counted = LeftGuards
  BY <1>1, <1>2
<1>4. LeftGuards = ER!Cardinality({i \in DOMAIN left : ER!Guards(left[i])})
  BY DEF LeftGuards, ER!Cardinality, Cardinality
<1>. QED
  BY <1>1, <1>3, <1>4 DEF ER!CountedOnTheWay

-----------------------------------------------------------------------------
(* Nested dicts: what Overlay keeps and what it replaces.                  *)

LEMMA ConflictSelf == \A p \in Seq(STRING) : Conflict(p, p)
BY LenProperties DEF Conflict, Begins

LEMMA ConflictBoth == \A p, q : Conflict(p, q) = Conflict(q, p)
BY DEF Conflict

LEMMA OverlayIs ==
  ASSUME NEW b, NEW o
  PROVE  LET t == Overlay(b, o)
         IN  /\ DOMAIN t = {p \in DOMAIN b : \A q \in DOMAIN o : ~Conflict(p, q)} \union DOMAIN o
             /\ \A p \in DOMAIN o : t[p] = o[p]
             /\ \A p \in DOMAIN b : (\A q \in DOMAIN o : ~Conflict(p, q)) /\ p \notin DOMAIN o => t[p] = b[p]
             /\ IsTree(b) /\ IsTree(o) => IsTree(t)
<1>. DEFINE kept == {p \in DOMAIN b : \A q \in DOMAIN o : ~Conflict(p, q)}
            t == Overlay(b, o)
<1>1. t = [p \in kept \union DOMAIN o |-> IF p \in DOMAIN o THEN o[p] ELSE b[p]]
  BY DEF Overlay
<1>. HIDE DEF t
<1>2. DOMAIN t = kept \union DOMAIN o
  BY <1>1
<1>3. ASSUME IsTree(b), IsTree(o), NEW p \in DOMAIN t, NEW q \in DOMAIN t, Conflict(p, q)
      PROVE  p = q
  <2>1. Conflict(q, p)
    BY <1>3, ConflictBoth
  <2>2. CASE p \in DOMAIN o /\ q \in DOMAIN o
    BY <2>2, <1>3 DEF IsTree
  <2>3. CASE p \in kept /\ q \in kept
    BY <2>3, <1>3 DEF IsTree
  <2>4. ~(p \in kept /\ q \in DOMAIN o) /\ ~(q \in kept /\ p \in DOMAIN o)
    BY <1>3, <2>1
  <2>. QED
    BY <1>2, <1>3, <2>2, <2>3, <2>4
<1>4. IsTree(b) /\ IsTree(o) => IsTree(t)
  BY <1>3 DEF IsTree
<1>. QED
  BY <1>1, <1>2, <1>4 DEF t

-----------------------------------------------------------------------------
(* Translations: loads add up.                                             *)

Load == [locale : Locales, paths : TextSets]

TRInv ==
  /\ TR!TypeOK /\ TR!LoadsAddUp
  /\ history \in Seq(Load)

LEMMA TextsAre ==
  /\ MaxLoads \in Nat /\ Fallback \in Locales
  /\ \A paths \in TextSets : paths \subseteq Seq(STRING) /\ \A p, q \in paths : Conflict(p, q) => p = q
<1>1. \A p, q : TR!Conflict(p, q) = Conflict(p, q)
  BY DEF TR!Conflict, Conflict, TR!Begins, Begins
<1>. QED
  BY <1>1, StoresOK, ContentsOK, Zenon

\* The instances have the same operators.
LEMMA SameTexts ==
  /\ \A p, q : TR!Conflict(p, q) = Conflict(p, q)
  /\ \A t : TR!IsTree(t) = IsTree(t)
  /\ \A b, o : TR!Overlay(b, o) = Overlay(b, o)
<1>1. \A p, q : TR!Conflict(p, q) = Conflict(p, q)
  BY DEF TR!Conflict, Conflict, TR!Begins, Begins
<1>2. \A t : TR!IsTree(t) = IsTree(t)
  BY <1>1 DEF TR!IsTree, IsTree
<1>3. ASSUME NEW b, NEW o PROVE TR!Overlay(b, o) = Overlay(b, o)
  <2>1. {p \in DOMAIN b : \A q \in DOMAIN o : ~TR!Conflict(p, q)} = {p \in DOMAIN b : \A q \in DOMAIN o : ~Conflict(p, q)}
    BY <1>1
  <2>. QED
    BY <2>1 DEF TR!Overlay, Overlay
<1>. QED
  BY <1>1, <1>2, <1>3

LEMMA TRInit == TR!Init => TRInv
<1>. SUFFICES ASSUME TR!Init PROVE TRInv
  OBVIOUS
<1>1. history = <<>> /\ loads = 0 /\ DOMAIN texts = {} /\ Len(history) = 0 /\ DOMAIN history = {}
  BY DEF TR!Init
<1>. QED
  BY <1>1, TextsAre DEF TR!Init, TRInv, TR!TypeOK, TR!LoadsAddUp

LEMMA TRLoadKeeps == ASSUME TRInv, NEW l \in Locales, NEW paths \in TextSets, TR!Load(l, paths) PROVE TRInv'
<1>. DEFINE n == loads + 1
            overlay == [p \in paths |-> n]
            old == IF l \in DOMAIN texts THEN texts[l] ELSE TR!NoTree
            new == Overlay(old, overlay)
            load == [locale |-> l, paths |-> paths]
<1>1. /\ loads < MaxLoads /\ loads' = n /\ history' = Append(history, load)
      /\ UNCHANGED <<yaml, locale, found>>
      /\ texts' = [m \in DOMAIN texts \union {l} |-> IF m = l THEN new ELSE texts[m]]
  BY SameTexts DEF TR!Load, TR!MergeIntoLocale, TR!MergeDicts
<1>2. loads \in Nat /\ loads = Len(history) /\ n \in 0..MaxLoads /\ n \in Nat
  BY <1>1, TextsAre DEF TRInv, TR!TypeOK
<1>3. load \in Load
  BY DEF Load
<1>4. /\ history' \in Seq(Load) /\ DOMAIN history' = 1..n /\ DOMAIN history = 1..loads
      /\ \A k \in 1..loads : history'[k] = history[k]
      /\ history'[n] = load /\ Len(history') = n
  <2>. HIDE DEF load
  <2>. QED
    BY <1>1, <1>2, <1>3, AppendIs DEF TRInv
<1>5. paths \subseteq Seq(STRING) /\ \A p, q \in paths : Conflict(p, q) => p = q
  BY TextsAre
<1>6. IsTree(overlay) /\ DOMAIN overlay = paths /\ \A p \in paths : overlay[p] = n
  BY <1>5 DEF IsTree
<1>7. IsTree(old)
  <2>1. IsTree(TR!NoTree)
    BY DEF IsTree, TR!NoTree
  <2>. QED
    BY <2>1, SameTexts DEF TRInv, TR!TypeOK
<1>. HIDE DEF overlay, old
<1>8. /\ DOMAIN new = {p \in DOMAIN old : \A q \in paths : ~Conflict(p, q)} \union paths
      /\ \A p \in paths : new[p] = n
      /\ \A p \in DOMAIN old : (\A q \in paths : ~Conflict(p, q)) /\ p \notin paths => new[p] = old[p]
      /\ IsTree(new)
  <2>1. /\ DOMAIN new = {p \in DOMAIN old : \A q \in DOMAIN overlay : ~Conflict(p, q)} \union DOMAIN overlay
        /\ \A p \in DOMAIN overlay : new[p] = overlay[p]
        /\ \A p \in DOMAIN old : (\A q \in DOMAIN overlay : ~Conflict(p, q)) /\ p \notin DOMAIN overlay => new[p] = old[p]
        /\ IsTree(old) /\ IsTree(overlay) => IsTree(new)
    BY OverlayIs
  <2>. HIDE DEF new
  <2>. QED
    BY <2>1, <1>6, <1>7
<1>. HIDE DEF new
<1>9. /\ DOMAIN texts' = DOMAIN texts \union {l} /\ texts'[l] = new
      /\ \A m \in DOMAIN texts : m # l => texts'[m] = texts[m]
  BY <1>1
<1>10. TR!TypeOK'
  <2>1. \A m \in DOMAIN texts' : TR!IsTree(texts'[m])
    BY <1>8, <1>9, SameTexts DEF TRInv, TR!TypeOK
  <2>2. DOMAIN texts' \subseteq Locales
    BY <1>9 DEF TRInv, TR!TypeOK
  <2>. QED
    BY <1>1, <1>2, <1>4, <2>1, <2>2 DEF TRInv, TR!TypeOK
<1>11. ASSUME NEW k \in 1..n, NEW p \in history'[k].paths,
              \A m \in (k + 1)..n : history'[m].locale = history'[k].locale =>
                 \A q \in history'[m].paths : ~Conflict(p, q)
       PROVE  LET c == history'[k].locale IN c \in DOMAIN texts' /\ p \in DOMAIN texts'[c] /\ texts'[c][p] = k
  <2>1. CASE k = n
    BY <2>1, <1>4, <1>8, <1>9, <1>11 DEF load
  <2>2. CASE k # n
    <3>1. k \in 1..loads /\ history'[k] = history[k]
      BY <2>2, <1>2, <1>4
    <3>2. ASSUME NEW m \in (k + 1)..loads, history[m].locale = history[k].locale, NEW q \in history[m].paths
          PROVE  ~Conflict(p, q)
      <4>1. m \in (k + 1)..n /\ m \in 1..loads /\ history'[m] = history[m]
        BY <3>1, <1>2, <1>4
      <4>. QED
        BY <4>1, <3>1, <3>2, <1>11
    <3>. DEFINE c == history[k].locale
    <3>3. c \in DOMAIN texts /\ p \in DOMAIN texts[c] /\ texts[c][p] = k
      <4>1. p \in history[k].paths /\ k \in DOMAIN history
        BY <3>1, <1>4, <1>11
      <4>2. \A m \in {m \in (k + 1)..loads : history[m].locale = c} : \A q \in history[m].paths : ~TR!Conflict(p, q)
        BY <3>2, SameTexts
      <4>. QED
        BY <4>1, <4>2 DEF TRInv, TR!LoadsAddUp
    <3>4. CASE c # l
      BY <3>1, <3>3, <3>4, <1>9
    <3>5. CASE c = l
      <4>1. n \in (k + 1)..n /\ history'[n].locale = history'[k].locale /\ history'[n].paths = paths
        BY <3>1, <3>5, <1>2, <1>4 DEF load
      <4>2. \A q \in paths : ~Conflict(p, q)
        BY <4>1, <1>11
      <4>3. p \notin paths
        BY <4>2, <1>5, ConflictSelf
      <4>4. p \in DOMAIN old /\ old[p] = k
        BY <3>3, <3>5 DEF old
      <4>. QED
        BY <4>2, <4>3, <4>4, <3>1, <3>5, <1>8, <1>9
    <3>. QED
      BY <3>4, <3>5
  <2>. QED
    BY <2>1, <2>2
<1>12. TR!LoadsAddUp'
  <2>1. SUFFICES ASSUME NEW k \in DOMAIN history', NEW p \in history'[k].paths,
                        \A m \in {m \in (k + 1)..loads' : history'[m].locale = history'[k].locale} :
                          \A q \in history'[m].paths : ~TR!Conflict(p, q)
                 PROVE  LET c == history'[k].locale
                        IN  c \in DOMAIN texts' /\ p \in DOMAIN texts'[c] /\ texts'[c][p] = k
    BY DEF TR!LoadsAddUp
  <2>2. k \in 1..n
    BY <1>4
  <2>3. \A m \in (k + 1)..n : history'[m].locale = history'[k].locale => \A q \in history'[m].paths : ~Conflict(p, q)
    BY <2>1, <1>1, SameTexts
  <2>. QED
    BY <2>2, <2>3, <1>11
<1>. QED
  BY <1>4, <1>10, <1>12 DEF TRInv

LEMMA TRStep == ASSUME TRInv, TR!Next \/ UNCHANGED TRvars PROVE TRInv'
<1>1. ASSUME NEW l \in Locales, TR!SetLocale(l) PROVE TRInv'
  BY <1>1 DEF TR!SetLocale, TRInv, TR!TypeOK, TR!LoadsAddUp
<1>2. ASSUME NEW p, TR!T(p) PROVE TRInv'
  <2>1. found' \in {"none", "locale", "fallback", "missing"}
    BY <1>2 DEF TR!T, TR!ResolveKey
  <2>. QED
    BY <1>2, <2>1 DEF TR!T, TRInv, TR!TypeOK, TR!LoadsAddUp
<1>3. CASE UNCHANGED TRvars
  BY <1>3 DEF TRvars, TRInv, TR!TypeOK, TR!LoadsAddUp
<1>. QED
  BY <1>1, <1>2, <1>3, TRLoadKeeps DEF TR!Next, TR!LoadFails, TR!vars, TRvars

-----------------------------------------------------------------------------
(* Config: the order of precedence, and nothing is lost.                   *)

\* Trees of settings.
Settings(t) == IsTree(t) /\ \A p \in DOMAIN t : t[p] \in CF!Leaves

LEMMA SettingsAre ==
  /\ \A t \in SettingFiles \union {DefaultSettings} : Settings(t) /\ DOMAIN t \subseteq Seq(STRING)
  /\ Environments \subseteq Seq([path : Seq(STRING), type : CF!Types \union {"digit"}])
<1>1. \A t : CF!IsTree(t) = IsTree(t)
  BY DEF CF!IsTree, IsTree, CF!Conflict, Conflict, CF!Begins, Begins
<1>. QED
  BY <1>1, ContentsOK, Zenon DEF Settings

LEMMA SameSettings ==
  /\ \A p, q : CF!Conflict(p, q) = Conflict(p, q)
  /\ \A t : CF!IsTree(t) = IsTree(t)
  /\ \A b, o : CF!Overlay(b, o) = Overlay(b, o)
<1>1. \A p, q : CF!Conflict(p, q) = Conflict(p, q)
  BY DEF CF!Conflict, Conflict, CF!Begins, Begins
<1>2. \A t : CF!IsTree(t) = IsTree(t)
  BY <1>1 DEF CF!IsTree, IsTree
<1>3. ASSUME NEW b, NEW o PROVE CF!Overlay(b, o) = Overlay(b, o)
  <2>1. {p \in DOMAIN b : \A q \in DOMAIN o : ~CF!Conflict(p, q)} = {p \in DOMAIN b : \A q \in DOMAIN o : ~Conflict(p, q)}
    BY <1>1
  <2>. QED
    BY <2>1 DEF CF!Overlay, Overlay
<1>. QED
  BY <1>1, <1>2, <1>3

\* One leaf is set.
WithLeaf(t, path, leaf, s) ==
  /\ Settings(s)
  /\ DOMAIN s = {p \in DOMAIN t : ~Conflict(p, path)} \union {path}
  /\ s[path] = leaf
  /\ \A p \in DOMAIN t : ~Conflict(p, path) /\ p # path => s[p] = t[p]

LEMMA LeafSet ==
  ASSUME NEW t, Settings(t), NEW path, NEW leaf \in CF!Leaves
  PROVE  WithLeaf(t, path, leaf, CF!SetLeaf(t, path, leaf))
<1>. DEFINE o == [p \in {path} |-> leaf]
            s == Overlay(t, o)
<1>1. CF!SetLeaf(t, path, leaf) = s
  BY SameSettings DEF CF!SetLeaf
<1>2. DOMAIN o = {path} /\ o[path] = leaf /\ IsTree(o)
  BY DEF IsTree
<1>. HIDE DEF o
<1>3. /\ DOMAIN s = {p \in DOMAIN t : \A q \in DOMAIN o : ~Conflict(p, q)} \union DOMAIN o
      /\ \A p \in DOMAIN o : s[p] = o[p]
      /\ \A p \in DOMAIN t : (\A q \in DOMAIN o : ~Conflict(p, q)) /\ p \notin DOMAIN o => s[p] = t[p]
      /\ IsTree(t) /\ IsTree(o) => IsTree(s)
  BY OverlayIs
<1>. HIDE DEF s
<1>4. /\ DOMAIN s = {p \in DOMAIN t : ~Conflict(p, path)} \union {path}
      /\ s[path] = leaf
      /\ \A p \in DOMAIN t : ~Conflict(p, path) /\ p # path => s[p] = t[p]
  BY <1>2, <1>3
<1>5. Settings(s)
  BY <1>2, <1>3, <1>4 DEF Settings
<1>. QED
  BY <1>1, <1>4, <1>5 DEF WithLeaf

\* The file over the defaults.
LEMMA FileOver ==
  ASSUME NEW f \in SettingFiles
  PROVE  LET t == CF!DeepMerge(DefaultSettings, f)
         IN  /\ Settings(t)
             /\ DOMAIN t = {p \in DOMAIN DefaultSettings : \A q \in DOMAIN f : ~Conflict(p, q)} \union DOMAIN f
             /\ \A p \in DOMAIN f : t[p] = f[p]
             /\ \A p \in DOMAIN t \ DOMAIN f : t[p] = DefaultSettings[p]
<1>. DEFINE t == Overlay(DefaultSettings, f)
<1>1. CF!DeepMerge(DefaultSettings, f) = t
  BY SameSettings DEF CF!DeepMerge
<1>2. Settings(f) /\ Settings(DefaultSettings)
  BY SettingsAre
<1>3. /\ DOMAIN t = {p \in DOMAIN DefaultSettings : \A q \in DOMAIN f : ~Conflict(p, q)} \union DOMAIN f
      /\ \A p \in DOMAIN f : t[p] = f[p]
      /\ \A p \in DOMAIN DefaultSettings : (\A q \in DOMAIN f : ~Conflict(p, q)) /\ p \notin DOMAIN f => t[p] = DefaultSettings[p]
      /\ IsTree(DefaultSettings) /\ IsTree(f) => IsTree(t)
  BY OverlayIs
<1>. HIDE DEF t
<1>4. \A p \in DOMAIN t \ DOMAIN f : t[p] = DefaultSettings[p]
  BY <1>3
<1>5. Settings(t)
  BY <1>2, <1>3, <1>4 DEF Settings
<1>. QED
  BY <1>1, <1>3, <1>4, <1>5

\* The variables one after the other: a recursive function of that kind exists.
Overrides(t, env, n, o) == o = [k \in 0..n |-> IF k = 0 THEN t ELSE CF!SetNested(o[k - 1], env[k])]

LEMMA OverridesExist == ASSUME NEW t, NEW env, NEW n \in Nat PROVE \E o : Overrides(t, env, n, o)
<1>. DEFINE S == {m \in Nat : ~\E o : Overrides(t, env, m, o)}
<1>1. SUFFICES ASSUME S # {} PROVE FALSE
  OBVIOUS
<1>2. PICK m \in S : \A k \in S : m <= k
  BY <1>1, Least, Zenon
<1>3. m \in Nat /\ ~\E o : Overrides(t, env, m, o)
  BY <1>2
<1>4. CASE m = 0
  <2>. DEFINE o == [k \in 0..0 |-> t]
  <2>1. o = [k \in 0..0 |-> IF k = 0 THEN t ELSE CF!SetNested(o[k - 1], env[k])]
    OBVIOUS
  <2>. QED
    BY <2>1, <1>3, <1>4, Zenon DEF Overrides
<1>5. CASE m # 0
  <2>1. m - 1 \in Nat /\ m - 1 \notin S
    BY <1>2, <1>3, <1>5
  <2>2. PICK g : Overrides(t, env, m - 1, g)
    BY <2>1
  <2>. DEFINE o == [k \in 0..m |-> IF k = m THEN CF!SetNested(g[m - 1], env[m]) ELSE g[k]]
  <2>3. ASSUME NEW k \in 0..m PROVE o[k] = IF k = 0 THEN t ELSE CF!SetNested(o[k - 1], env[k])
    <3>1. CASE k = m
      <4>1. m - 1 \in 0..m /\ m - 1 # m
        BY <1>3, <1>5
      <4>2. o[k] = CF!SetNested(g[m - 1], env[m]) /\ o[m - 1] = g[m - 1]
        BY <3>1, <4>1
      <4>. HIDE DEF o
      <4>. QED
        BY <3>1, <4>2, <1>5
    <3>2. CASE k # m
      <4>1. k \in 0..(m - 1) /\ o[k] = g[k]
        BY <3>2, <1>3
      <4>2. g[k] = IF k = 0 THEN t ELSE CF!SetNested(g[k - 1], env[k])
        BY <2>2, <4>1 DEF Overrides
      <4>3. k # 0 => k - 1 \in 0..m /\ k - 1 # m
        BY <3>2, <1>3
      <4>4. k # 0 => o[k - 1] = g[k - 1]
        BY <4>3
      <4>. HIDE DEF o
      <4>. QED
        BY <4>1, <4>2, <4>4
    <3>. QED
      BY <3>1, <3>2
  <2>4. o = [k \in 0..m |-> o[k]]
    OBVIOUS
  <2>. HIDE DEF o
  <2>5. o = [k \in 0..m |-> IF k = 0 THEN t ELSE CF!SetNested(o[k - 1], env[k])]
    BY <2>3, <2>4
  <2>. QED
    BY <2>5, <1>3 DEF Overrides
<1>. QED
  BY <1>4, <1>5

LEMMA EnvOverridesIs ==
  ASSUME NEW t, NEW env, Len(env) \in Nat
  PROVE  \E o : Overrides(t, env, Len(env), o) /\ CF!EnvOverrides(t, env) = o[Len(env)]
<1>. DEFINE o == CHOOSE o : o = [k \in 0..Len(env) |-> IF k = 0 THEN t ELSE CF!SetNested(o[k - 1], env[k])]
<1>1. CF!EnvOverrides(t, env) = o[Len(env)]
  BY DEF CF!EnvOverrides
<1>2. \E p : p = [k \in 0..Len(env) |-> IF k = 0 THEN t ELSE CF!SetNested(p[k - 1], env[k])]
  <2>. HIDE DEF o
  <2>1. PICK p : Overrides(t, env, Len(env), p)
    BY OverridesExist
  <2>2. p = [k \in 0..Len(env) |-> IF k = 0 THEN t ELSE CF!SetNested(p[k - 1], env[k])]
    BY <2>1 DEF Overrides
  <2>. QED
    BY <2>2
<1>3. Overrides(t, env, Len(env), o)
  BY <1>2 DEF Overrides
<1>. QED
  BY <1>1, <1>3, Zenon

\* The first n variables, over a tree t: each leaf is that of the last variable
\* in its way, else that of t, and what nothing is in the way of is there.
Variable == [path : Seq(STRING), type : CF!Types \union {"digit"}]

Overlaid(t, env, n, s) ==
  /\ Settings(s)
  /\ \A p \in DOMAIN s :
       \/ s[p].from = "env" /\ \E i \in 1..n : env[i].path = p /\ \A j \in (i + 1)..n : ~Conflict(p, env[j].path)
       \/ p \in DOMAIN t /\ s[p] = t[p] /\ \A j \in 1..n : ~Conflict(p, env[j].path)
  /\ \A p \in DOMAIN t : (\A j \in 1..n : ~Conflict(p, env[j].path)) => p \in DOMAIN s

LEMMA OverlaidNext ==
  ASSUME NEW t, NEW env \in Seq(Variable), NEW n \in Nat, n + 1 <= Len(env), NEW s, Overlaid(t, env, n, s)
  PROVE  Overlaid(t, env, n + 1, CF!SetNested(s, env[n + 1]))
<1>. DEFINE var == env[n + 1]
            path == var.path
            leaf == [from |-> "env", type |-> CF!Coerce(var.type)]
            new == CF!SetLeaf(s, path, leaf)
<1>1. CF!SetNested(s, env[n + 1]) = new
  BY DEF CF!SetNested
<1>2. n + 1 \in 1..Len(env) /\ var \in Variable
  BY ElementOfSeq, LenProperties
<1>3. leaf \in CF!Leaves /\ leaf.from = "env"
  <2>1. var.type \in CF!Types \union {"digit"}
    BY <1>2 DEF Variable
  <2>2. CF!Coerce(var.type) \in CF!Types
    BY <2>1 DEF CF!Coerce, CF!Types
  <2>. HIDE DEF CF!Types, var
  <2>. QED
    BY <2>2 DEF CF!Leaves
<1>4. Settings(s)
  BY DEF Overlaid
<1>. HIDE DEF leaf, new, path
<1>5. /\ Settings(new)
      /\ DOMAIN new = {p \in DOMAIN s : ~Conflict(p, path)} \union {path}
      /\ new[path] = leaf
      /\ \A p \in DOMAIN s : ~Conflict(p, path) /\ p # path => new[p] = s[p]
  <2>1. leaf \in CF!Leaves
    BY <1>3
  <2>2. WithLeaf(s, path, leaf, new)
    BY <1>4, <2>1, LeafSet DEF new
  <2>. QED
    BY <2>2 DEF WithLeaf
<1>. USE DEF path
<1>6. \A m \in Nat : \A j \in m..(n + 1) : j \in m..n \/ j = n + 1
  OBVIOUS
<1>7. ASSUME NEW p \in DOMAIN new
      PROVE  \/ new[p].from = "env" /\ \E i \in 1..(n + 1) : env[i].path = p /\ \A j \in (i + 1)..(n + 1) : ~Conflict(p, env[j].path)
             \/ p \in DOMAIN t /\ new[p] = t[p] /\ \A j \in 1..(n + 1) : ~Conflict(p, env[j].path)
  <2>1. CASE p = path
    <3>1. n + 1 \in 1..(n + 1) /\ env[n + 1].path = p /\ (n + 1 + 1)..(n + 1) = {}
      BY <2>1
    <3>. QED
      BY <2>1, <3>1, <1>3, <1>5
  <2>2. CASE p # path
    <3>1. p \in DOMAIN s /\ ~Conflict(p, path) /\ new[p] = s[p]
      BY <2>2, <1>5
    <3>2. CASE s[p].from = "env" /\ \E i \in 1..n : env[i].path = p /\ \A j \in (i + 1)..n : ~Conflict(p, env[j].path)
      <4>1. PICK i \in 1..n : env[i].path = p /\ \A j \in (i + 1)..n : ~Conflict(p, env[j].path)
        BY <3>2
      <4>2. \A j \in (i + 1)..(n + 1) : ~Conflict(p, env[j].path)
        BY <3>1, <4>1, <1>6
      <4>3. i \in 1..(n + 1)
        OBVIOUS
      <4>. QED
        BY <3>1, <3>2, <4>1, <4>2, <4>3
    <3>3. CASE p \in DOMAIN t /\ s[p] = t[p] /\ \A j \in 1..n : ~Conflict(p, env[j].path)
      <4>1. \A j \in 1..(n + 1) : ~Conflict(p, env[j].path)
        BY <3>1, <3>3, <1>6
      <4>. QED
        BY <3>1, <3>3, <4>1
    <3>. QED
      BY <3>1, <3>2, <3>3 DEF Overlaid
  <2>. QED
    BY <2>1, <2>2
<1>8. ASSUME NEW p \in DOMAIN t, \A j \in 1..(n + 1) : ~Conflict(p, env[j].path)
      PROVE  p \in DOMAIN new
  <2>1. \A j \in 1..n : j \in 1..(n + 1)
    OBVIOUS
  <2>2. p \in DOMAIN s
    BY <2>1, <1>8 DEF Overlaid
  <2>3. n + 1 \in 1..(n + 1)
    OBVIOUS
  <2>4. ~Conflict(p, path)
    BY <1>8, <2>3
  <2>. QED
    BY <2>2, <2>4, <1>5
<1>9. Overlaid(t, env, n + 1, new)
  BY <1>5, <1>7, <1>8 DEF Overlaid
<1>. QED
  BY <1>1, <1>9 DEF new

LEMMA OverridesOverlay ==
  ASSUME NEW t, Settings(t), NEW env \in Seq(Variable), NEW o, Overrides(t, env, Len(env), o)
  PROVE  \A n \in 0..Len(env) : Overlaid(t, env, n, o[n])
<1>. DEFINE S == {n \in 0..Len(env) : ~Overlaid(t, env, n, o[n])}
<1>1. SUFFICES ASSUME S # {} PROVE FALSE
  OBVIOUS
<1>2. Len(env) \in Nat /\ S \subseteq Nat
  BY LenProperties
<1>3. PICK n \in S : \A k \in S : n <= k
  BY <1>1, <1>2, Least
<1>4. n \in 0..Len(env) /\ ~Overlaid(t, env, n, o[n])
  BY <1>3
<1>5. \A k \in 0..Len(env) : o[k] = IF k = 0 THEN t ELSE CF!SetNested(o[k - 1], env[k])
  BY DEF Overrides
<1>6. CASE n = 0
  <2>1. o[n] = t
    BY <1>4, <1>5, <1>6
  <2>2. 1..n = {}
    BY <1>6
  <2>3. Overlaid(t, env, n, t)
    BY <2>2 DEF Overlaid
  <2>. QED
    BY <2>1, <2>3, <1>4
<1>7. CASE n # 0
  <2>1. n - 1 \in Nat /\ n - 1 \in 0..Len(env) /\ (n - 1) + 1 = n /\ n <= Len(env) /\ ~(n <= n - 1)
    BY <1>2, <1>4, <1>7
  <2>2. n - 1 \notin S
    BY <1>3, <2>1
  <2>3. Overlaid(t, env, n - 1, o[n - 1])
    BY <2>1, <2>2
  <2>4. o[n] = CF!SetNested(o[n - 1], env[n])
    BY <1>4, <1>5, <1>7
  <2>5. Overlaid(t, env, (n - 1) + 1, CF!SetNested(o[n - 1], env[(n - 1) + 1]))
    BY <2>1, <2>3, OverlaidNext
  <2>. QED
    BY <2>1, <2>4, <2>5, <1>4
<1>. QED
  BY <1>6, <1>7

\* What a load makes of a file and the variables.
Ordered(c, f, env) ==
  \A p \in DOMAIN c :
    LET by == CF!Deciding(p, env)
    IN  IF \E i \in by : env[i].path = p THEN c[p].from = "env"
        ELSE IF p \in DOMAIN f THEN c[p] = f[p]
        ELSE /\ p \in DOMAIN DefaultSettings /\ c[p] = DefaultSettings[p]
             /\ \A q \in DOMAIN f : ~Conflict(p, q)

Survive(c, f, env) ==
  \A p \in DOMAIN DefaultSettings :
    (\A q \in DOMAIN f \union {env[i].path : i \in DOMAIN env} : ~Conflict(p, q)) => p \in DOMAIN c

LEMMA MergedIs ==
  ASSUME NEW f \in SettingFiles, NEW env \in Environments
  PROVE  LET c == CF!Merged(f, env)
         IN  Settings(c) /\ Ordered(c, f, env) /\ Survive(c, f, env)
<1>. DEFINE t == CF!DeepMerge(DefaultSettings, f)
            c == CF!Merged(f, env)
            n == Len(env)
<1>1. /\ Settings(t)
      /\ DOMAIN t = {p \in DOMAIN DefaultSettings : \A q \in DOMAIN f : ~Conflict(p, q)} \union DOMAIN f
      /\ \A p \in DOMAIN f : t[p] = f[p]
      /\ \A p \in DOMAIN t \ DOMAIN f : t[p] = DefaultSettings[p]
  BY FileOver
<1>2. env \in Seq(Variable)
  BY SettingsAre, Zenon DEF Variable
<1>3. n \in Nat /\ DOMAIN env = 1..n
  BY <1>2, LenProperties
<1>4. c = CF!EnvOverrides(t, env)
  BY DEF CF!Merged
<1>. HIDE DEF t, c
<1>5. Overlaid(t, env, n, c)
  <2>1. PICK o : Overrides(t, env, n, o) /\ CF!EnvOverrides(t, env) = o[n]
    BY <1>3, EnvOverridesIs
  <2>2. n \in 0..n
    BY <1>3
  <2>3. Overlaid(t, env, n, o[n])
    BY <1>1, <1>2, <2>1, <2>2, OverridesOverlay
  <2>. QED
    BY <2>1, <2>3, <1>4
<1>6. \A i \in 1..n : env[i].path \in Seq(STRING)
  <2>1. \A i \in 1..n : env[i] \in Variable
    BY <1>2, ElementOfSeq
  <2>. QED
    BY <2>1 DEF Variable
<1>7. Ordered(c, f, env)
  <2>1. SUFFICES ASSUME NEW p \in DOMAIN c
                 PROVE  IF \E i \in CF!Deciding(p, env) : env[i].path = p THEN c[p].from = "env"
                        ELSE IF p \in DOMAIN f THEN c[p] = f[p]
                        ELSE /\ p \in DOMAIN DefaultSettings /\ c[p] = DefaultSettings[p]
                             /\ \A q \in DOMAIN f : ~Conflict(p, q)
    BY DEF Ordered
  <2>2. CF!Deciding(p, env) = {i \in 1..n : Conflict(p, env[i].path) /\ \A j \in (i + 1)..n : ~Conflict(p, env[j].path)}
    BY <1>3, SameSettings DEF CF!Deciding
  <2>3. CASE c[p].from = "env" /\ \E i \in 1..n : env[i].path = p /\ \A j \in (i + 1)..n : ~Conflict(p, env[j].path)
    <3>1. PICK i \in 1..n : env[i].path = p /\ \A j \in (i + 1)..n : ~Conflict(p, env[j].path)
      BY <2>3
    <3>2. Conflict(p, env[i].path)
      BY <3>1, <1>6, ConflictSelf
    <3>3. i \in CF!Deciding(p, env)
      BY <2>2, <3>1, <3>2
    <3>. QED
      BY <2>3, <3>1, <3>3
  <2>4. CASE p \in DOMAIN t /\ c[p] = t[p] /\ \A j \in 1..n : ~Conflict(p, env[j].path)
    <3>1. CF!Deciding(p, env) = {}
      BY <2>2, <2>4
    <3>. QED
      BY <2>4, <3>1, <1>1
  <2>. QED
    BY <2>1, <2>3, <2>4, <1>5 DEF Overlaid
<1>8. Survive(c, f, env)
  BY <1>1, <1>3, <1>5 DEF Survive, Overlaid
<1>9. Settings(c)
  BY <1>5 DEF Overlaid
<1>. QED
  BY <1>7, <1>8, <1>9 DEF c

CFInv ==
  /\ CF!TypeOK
  /\ kind = "pydantic" => Ordered(config, loaded.file, loaded.env) /\ Survive(config, loaded.file, loaded.env)

LEMMA CFTyped ==
  ASSUME kind \in {"pydantic", "memory"}, disk \in {{}} \union {{f} : f \in SettingFiles}, environ \in Environments,
         Settings(config), asked \in {"none", "default", "error"} \union CF!Types,
         loaded.file \in SettingFiles, loaded.env \in Environments
  PROVE  CF!TypeOK
BY SameSettings DEF CF!TypeOK, Settings

LEMMA CFTypes ==
  ASSUME CFInv
  PROVE  /\ kind \in {"pydantic", "memory"} /\ disk \in {{}} \union {{f} : f \in SettingFiles} /\ environ \in Environments
         /\ Settings(config) /\ asked \in {"none", "default", "error"} \union CF!Types
         /\ loaded.file \in SettingFiles /\ loaded.env \in Environments
BY SameSettings DEF CFInv, CF!TypeOK, Settings

LEMMA CFInit == CF!Init => CFInv
<1>. SUFFICES ASSUME CF!Init PROVE CFInv
  OBVIOUS
<1>1. PICK f \in SettingFiles, e \in Environments :
        /\ disk = {f} /\ environ = e /\ loaded = [file |-> f, env |-> e]
        /\ config = IF kind = "pydantic" THEN CF!Merged(f, e) ELSE CF!DeepMerge(DefaultSettings, f)
  BY DEF CF!Init
<1>2. kind \in {"pydantic", "memory"} /\ asked = "none"
  BY DEF CF!Init
<1>3. Settings(config)
  BY <1>1, MergedIs, FileOver, Zenon
<1>4. CF!TypeOK
  <2>1. loaded.file = f /\ loaded.env = e
    BY <1>1
  <2>. QED
    BY <1>1, <1>2, <1>3, <2>1, CFTyped
<1>5. kind = "pydantic" => Ordered(config, f, e) /\ Survive(config, f, e)
  BY <1>1, MergedIs
<1>. QED
  BY <1>1, <1>4, <1>5 DEF CFInv

\* Steps that change what the last load saw at most.
LEMMA CFOther ==
  ASSUME CFInv, UNCHANGED <<kind, config, loaded>>,
         disk' \in {{}} \union {{f} : f \in SettingFiles}, environ' \in Environments,
         asked' \in {"none", "default", "error"} \union CF!Types
  PROVE  CFInv'
BY DEF CFInv, CF!TypeOK

LEMMA ReloadKeeps == ASSUME CFInv, CF!Reload PROVE CFInv'
<1>1. PICK f \in disk :
        LET new == CF!Merged(f, environ)
        IN  \/ config' = new /\ loaded' = [file |-> f, env |-> environ]
            \/ UNCHANGED <<config, loaded>>
  BY DEF CF!Reload
<1>2. UNCHANGED <<kind, disk, environ, asked>> /\ f \in SettingFiles
  BY CFTypes DEF CF!Reload
<1>3. CASE UNCHANGED <<config, loaded>>
  BY <1>2, <1>3, CFOther, CFTypes
<1>4. CASE config' = CF!Merged(f, environ) /\ loaded' = [file |-> f, env |-> environ]
  <2>1. /\ Settings(config') /\ Ordered(config', f, environ) /\ Survive(config', f, environ)
    BY <1>2, <1>4, MergedIs, CFTypes
  <2>2. loaded'.file = f /\ loaded'.env = environ
    BY <1>4
  <2>3. CF!IsTree(config') /\ \A p \in DOMAIN config' : config'[p] \in CF!Leaves
    BY <2>1, SameSettings DEF Settings
  <2>4. CF!TypeOK'
    BY <1>2, <2>2, <2>3, CFTypes DEF CF!TypeOK
  <2>. QED
    BY <2>1, <2>2, <2>4 DEF CFInv
<1>. QED
  BY <1>1, <1>3, <1>4

LEMMA SetValueKeeps == ASSUME CFInv, NEW p, CF!SetValue(p) PROVE CFInv'
<1>. DEFINE leaf == [from |-> "user", type |-> "number"]
<1>1. /\ kind = "memory" /\ config' = CF!SetLeaf(config, p, leaf)
      /\ UNCHANGED <<kind, disk, environ, asked, loaded>>
  BY DEF CF!SetValue
<1>2. leaf \in CF!Leaves
  BY DEF CF!Leaves, CF!Types
<1>3. WithLeaf(config, p, leaf, config')
  BY <1>1, <1>2, CFTypes, LeafSet
<1>4. CF!IsTree(config') /\ \A q \in DOMAIN config' : config'[q] \in CF!Leaves
  BY <1>3, SameSettings DEF WithLeaf, Settings
<1>. QED
  BY <1>1, <1>4 DEF CFInv, CF!TypeOK

LEMMA AskKeeps == ASSUME CFInv, NEW p, NEW getter \in {"string", "number", "boolean", "json"}, NEW d \in BOOLEAN, CF!Ask(getter, p, d) PROVE CFInv'
<1>1. asked' = CF!Answer(getter, p, d) /\ UNCHANGED <<kind, disk, environ, config, loaded>>
  BY DEF CF!Ask
<1>2. CF!Accepts(getter) \subseteq CF!Types \union {"section"}
  BY DEF CF!Accepts, CF!Types
<1>3. "text" \in CF!Types
  BY DEF CF!Types
<1>. HIDE DEF CF!Types, CF!Accepts
<1>4. CF!Answer(getter, p, d) \in {"none", "default", "error"} \union CF!Types
  BY <1>2, <1>3 DEF CF!Answer
<1>. QED
  BY <1>1, <1>4, CFOther, CFTypes

LEMMA CFStep == ASSUME CFInv, CF!Next \/ UNCHANGED CFvars PROVE CFInv'
<1>1. CASE CF!Change
  BY <1>1, CFOther, CFTypes DEF CF!Change
<1>2. CASE UNCHANGED <<kind, disk, environ, config, asked, loaded>>
  BY <1>2, CFOther, CFTypes
<1>3. CASE CF!ReloadFails
  BY <1>2, <1>3 DEF CF!ReloadFails, CF!vars
<1>. QED
  BY <1>1, <1>2, <1>3, ReloadKeeps, SetValueKeeps, AskKeeps DEF CF!Next, CFvars

LEMMA CFKeeps == CFInv => CF!Precedence /\ CF!DefaultsSurvive
BY SameSettings DEF CFInv, Ordered, Survive, CF!Precedence, CF!DefaultsSurvive

-----------------------------------------------------------------------------
(* MemoryStateMachine: the log of a run is a path, turn by turn.           *)

MoveEvent == [from : States, to : States, ok : BOOLEAN]
Statuses == [state : States, running : BOOLEAN, terminated : BOOLEAN, count : Nat, failed : BOOLEAN]

\* The moves in a log after its first b events, and how many up to the i-th event.
MovesIn(log, b) == {i \in (b + 1)..Len(log) : log[i].ok}
RankIn(log, b, i) == Cardinality({j \in MovesIn(log, b) : j <= i})

PathIn(log, b) ==
  \A i \in MovesIn(log, b) :
    /\ <<log[i].from, log[i].to>> \in MoveRules
    /\ \A j \in MovesIn(log, b) : RankIn(log, b, j) + 1 = RankIn(log, b, i) => log[i].from = log[j].to

\* The k-th move goes to s.
EndsIn(log, b, k, s) == \A i \in MovesIn(log, b) : RankIn(log, b, i) = k => log[i].to = s

LEMMA MachineBounds ==
  MaxIter \in Nat /\ MaxRuns \in Nat /\ Initial \in States /\ NoState \notin States
BY StoresOK

LEMMA MovesFinite ==
  ASSUME NEW log \in Seq(MoveEvent), NEW b \in Nat
  PROVE  /\ IsFiniteSet(MovesIn(log, b)) /\ Cardinality(MovesIn(log, b)) \in Nat
         /\ \A i : RankIn(log, b, i) \in Nat /\ RankIn(log, b, i) <= Cardinality(MovesIn(log, b))
<1>1. Len(log) \in Nat /\ IsFiniteSet((b + 1)..Len(log))
  BY LenProperties, FS_Interval
<1>2. IsFiniteSet(MovesIn(log, b))
  BY <1>1, FS_Subset DEF MovesIn
<1>3. ASSUME NEW i PROVE RankIn(log, b, i) \in Nat /\ RankIn(log, b, i) <= Cardinality(MovesIn(log, b))
  <2>1. {j \in MovesIn(log, b) : j <= i} \subseteq MovesIn(log, b)
    OBVIOUS
  <2>. QED
    BY <2>1, <1>2, FS_Subset, FS_CardinalityType DEF RankIn
<1>. QED
  BY <1>2, <1>3, FS_CardinalityType

\* An event that is no move changes neither moves nor ranks.
LEMMA FailureLogged ==
  ASSUME NEW log \in Seq(MoveEvent), NEW b \in Nat, NEW e \in MoveEvent, ~e.ok, PathIn(log, b)
  PROVE  LET new == Append(log, e)
         IN  /\ new \in Seq(MoveEvent) /\ Len(new) = Len(log) + 1
             /\ Cardinality(MovesIn(new, b)) = Cardinality(MovesIn(log, b))
             /\ PathIn(new, b)
             /\ \A k, s : EndsIn(log, b, k, s) => EndsIn(new, b, k, s)
<1>. DEFINE new == Append(log, e)
            n == Len(log)
<1>1. /\ new \in Seq(MoveEvent) /\ Len(new) = n + 1 /\ n \in Nat
      /\ \A k \in 1..n : new[k] = log[k]
      /\ new[n + 1] = e
  BY AppendIs
<1>. HIDE DEF new, n
<1>2. \A i : i \in MovesIn(new, b) <=> i \in MovesIn(log, b)
  <2>1. \A i \in (b + 1)..(n + 1) : i \in (b + 1)..n \/ i = n + 1
    BY <1>1
  <2>2. \A i \in (b + 1)..n : i \in 1..n /\ i \in (b + 1)..(n + 1)
    BY <1>1
  <2>. QED
    BY <2>1, <2>2, <1>1 DEF MovesIn, n
<1>3. MovesIn(new, b) = MovesIn(log, b)
  BY <1>2, Zenon
<1>4. \A i : RankIn(new, b, i) = RankIn(log, b, i)
  BY <1>3 DEF RankIn
<1>5. \A i \in MovesIn(log, b) : new[i] = log[i]
  <2>1. \A i \in (b + 1)..n : i \in 1..n
    BY <1>1
  <2>. QED
    BY <2>1, <1>1 DEF MovesIn, n
<1>6. PathIn(new, b)
  BY <1>3, <1>4, <1>5 DEF PathIn
<1>7. \A k, s : EndsIn(log, b, k, s) => EndsIn(new, b, k, s)
  BY <1>3, <1>4, <1>5 DEF EndsIn
<1>. QED
  BY <1>1, <1>3, <1>6, <1>7 DEF new, n

\* A move along a rule from where the path ends is the next one.
LEMMA MoveLogged ==
  ASSUME NEW log \in Seq(MoveEvent), NEW b \in Nat, b <= Len(log), NEW e \in MoveEvent, e.ok, PathIn(log, b),
         <<e.from, e.to>> \in MoveRules, EndsIn(log, b, Cardinality(MovesIn(log, b)), e.from)
  PROVE  LET new == Append(log, e)
             c == Cardinality(MovesIn(log, b))
         IN  /\ new \in Seq(MoveEvent) /\ Len(new) = Len(log) + 1
             /\ Cardinality(MovesIn(new, b)) = c + 1
             /\ PathIn(new, b)
             /\ EndsIn(new, b, c + 1, e.to)
             /\ \A k, s : EndsIn(log, b, k, s) /\ k <= c /\ k \in Nat => EndsIn(new, b, k, s)
<1>. DEFINE new == Append(log, e)
            n == Len(log)
            M == MovesIn(log, b)
            c == Cardinality(M)
<1>1. /\ new \in Seq(MoveEvent) /\ Len(new) = n + 1 /\ n \in Nat
      /\ \A k \in 1..n : new[k] = log[k]
      /\ new[n + 1] = e
  BY AppendIs
<1>. HIDE DEF new, n
<1>2. MovesIn(new, b) = M \union {n + 1}
  <2>1. \A i \in (b + 1)..(n + 1) : i \in (b + 1)..n \/ i = n + 1
    BY <1>1
  <2>2. \A i \in (b + 1)..n : i \in 1..n /\ i \in (b + 1)..(n + 1)
    BY <1>1
  <2>3. n + 1 \in (b + 1)..(n + 1)
    BY <1>1 DEF n
  <2>4. \A i : i \in MovesIn(new, b) <=> i \in M \/ i = n + 1
    BY <2>1, <2>2, <2>3, <1>1 DEF MovesIn, n
  <2>. QED
    BY <2>4
<1>3. \A i \in M : i \in 1..n /\ i <= n /\ i # n + 1 /\ new[i] = log[i]
  <2>1. \A i \in (b + 1)..n : i \in 1..n /\ i <= n /\ i # n + 1
    BY <1>1
  <2>2. \A i \in M : i \in (b + 1)..n
    BY DEF MovesIn, n
  <2>. QED
    BY <2>1, <2>2, <1>1
<1>. HIDE DEF M
<1>4. n + 1 \notin M /\ IsFiniteSet(M) /\ c \in Nat
  BY <1>3, MovesFinite DEF M
<1>5. Cardinality(MovesIn(new, b)) = c + 1
  BY <1>2, <1>4, FS_AddElement, Zenon
<1>6. \A i \in M : RankIn(new, b, i) = RankIn(log, b, i) /\ RankIn(log, b, i) \in Nat /\ RankIn(log, b, i) <= c
  <2>1. TAKE i \in M
  <2>2. ~(n + 1 <= i)
    BY <1>1, <1>3
  <2>3. {j \in MovesIn(new, b) : j <= i} = {j \in M : j <= i}
    BY <2>2, <1>2
  <2>. QED
    BY <2>3, MovesFinite, Zenon DEF RankIn, M
<1>7. RankIn(new, b, n + 1) = c + 1
  <2>1. \A i \in MovesIn(new, b) : i <= n + 1
    BY <1>1, <1>2, <1>3
  <2>2. {j \in MovesIn(new, b) : j <= n + 1} = MovesIn(new, b)
    BY <2>1
  <2>. QED
    BY <2>2, <1>5, Zenon DEF RankIn
<1>. HIDE DEF c
<1>8. PathIn(new, b)
  <2>1. SUFFICES ASSUME NEW i \in MovesIn(new, b)
                 PROVE  /\ <<new[i].from, new[i].to>> \in MoveRules
                        /\ \A j \in MovesIn(new, b) : RankIn(new, b, j) + 1 = RankIn(new, b, i) => new[i].from = new[j].to
    BY DEF PathIn
  <2>2. CASE i \in M
    <3>1. <<new[i].from, new[i].to>> \in MoveRules
      BY <2>2, <1>3 DEF PathIn, M
    <3>2. ASSUME NEW j \in MovesIn(new, b), RankIn(new, b, j) + 1 = RankIn(new, b, i) PROVE new[i].from = new[j].to
      <4>1. j # n + 1
        BY <3>2, <2>2, <1>4, <1>6, <1>7
      <4>2. j \in M
        BY <4>1, <1>2
      <4>3. RankIn(log, b, j) + 1 = RankIn(log, b, i)
        BY <4>2, <2>2, <3>2, <1>6
      <4>. QED
        BY <4>2, <4>3, <2>2, <1>3 DEF PathIn, M
    <3>. QED
      BY <3>1, <3>2
  <2>3. CASE i = n + 1
    <3>1. <<new[i].from, new[i].to>> \in MoveRules
      BY <2>3, <1>1
    <3>2. ASSUME NEW j \in MovesIn(new, b), RankIn(new, b, j) + 1 = RankIn(new, b, i) PROVE new[i].from = new[j].to
      <4>1. RankIn(new, b, j) + 1 = c + 1
        BY <3>2, <2>3, <1>7
      <4>2. j # n + 1
        BY <4>1, <1>4, <1>7
      <4>3. j \in M
        BY <4>2, <1>2
      <4>4. RankIn(log, b, j) = c
        BY <4>1, <4>3, <1>4, <1>6
      <4>5. log[j].to = e.from
        BY <4>3, <4>4 DEF EndsIn, M, c
      <4>. QED
        BY <4>3, <4>5, <2>3, <1>1, <1>3
    <3>. QED
      BY <3>1, <3>2
  <2>. QED
    BY <2>2, <2>3, <1>2
<1>9. EndsIn(new, b, c + 1, e.to)
  <2>1. SUFFICES ASSUME NEW i \in MovesIn(new, b), RankIn(new, b, i) = c + 1 PROVE new[i].to = e.to
    BY DEF EndsIn
  <2>2. i \notin M
    BY <2>1, <1>4, <1>6
  <2>. QED
    BY <2>2, <1>1, <1>2
<1>10. ASSUME NEW k, NEW s, EndsIn(log, b, k, s), k <= c, k \in Nat PROVE EndsIn(new, b, k, s)
  <2>1. SUFFICES ASSUME NEW i \in MovesIn(new, b), RankIn(new, b, i) = k PROVE new[i].to = s
    BY DEF EndsIn
  <2>2. i # n + 1
    BY <2>1, <1>4, <1>7, <1>10
  <2>3. i \in M
    BY <2>2, <1>2
  <2>. QED
    BY <2>1, <2>3, <1>3, <1>6, <1>10 DEF EndsIn, M
<1>. QED
  BY <1>1, <1>5, <1>8, <1>9, <1>10 DEF new, n, M, c

MachineRun ==
  [cur : States, prev : States \union {NoState}, log : Seq(MoveEvent),
   how : {"none", "returned", "raised", "escaped"}, status : Statuses]

\* A run after n turns that began when the log had b events.
RunOK(m, n, b) ==
  /\ m \in MachineRun
  /\ b <= Len(m.log) /\ Len(m.log) <= b + n /\ m.status.count <= n
  /\ PathIn(m.log, b)
  /\ m.how = "none" => EndsIn(m.log, b, m.status.count, m.cur)
  /\ \/ m.status.count = Cardinality(MovesIn(m.log, b))
     \/ m.how = "escaped" /\ m.status.count + 1 = Cardinality(MovesIn(m.log, b))
  /\ strategy # "rollback" => EndsIn(m.log, b, m.status.count, m.status.state)
  /\ m.status.running => m.how \in {"none", "escaped"}

LEMMA RunLonger ==
  ASSUME NEW b \in Nat, NEW n \in Nat, NEW m, RunOK(m, n, b)
  PROVE  RunOK(m, n + 1, b)
<1>1. Len(m.log) \in Nat /\ m.status.count \in Nat
  BY LenProperties DEF RunOK, MachineRun, Statuses
<1>2. Len(m.log) <= b + (n + 1) /\ m.status.count <= n + 1
  BY <1>1 DEF RunOK
<1>. QED
  BY <1>2 DEF RunOK

\* The run ends, or its status changes, with nothing logged.
LEMMA RunEnds ==
  ASSUME NEW b \in Nat, NEW n \in Nat, NEW m, RunOK(m, n, b), m.how = "none",
         NEW how \in {"none", "returned", "raised", "escaped"}, NEW st \in Statuses, st.count = m.status.count,
         st.state = m.status.state \/ strategy = "rollback",
         st.running => how \in {"none", "escaped"}
  PROVE  RunOK([m EXCEPT !.how = how, !.status = st], n, b)
<1>. DEFINE new == [m EXCEPT !.how = how, !.status = st]
<1>1. m \in MachineRun
  BY DEF RunOK
<1>2. new \in MachineRun /\ new.cur = m.cur /\ new.log = m.log /\ new.how = how /\ new.status = st
  BY <1>1 DEF MachineRun
<1>. HIDE DEF new
<1>3. RunOK(new, n, b)
  BY <1>2 DEF RunOK
<1>. QED
  BY <1>3 DEF new

LEMMA RunStatus ==
  ASSUME NEW b \in Nat, NEW n \in Nat, NEW m, RunOK(m, n, b), m.how = "none",
         NEW st \in Statuses, st.count = m.status.count,
         st.state = m.status.state \/ strategy = "rollback"
  PROVE  RunOK([m EXCEPT !.status = st], n, b)
<1>1. [m EXCEPT !.status = st] = [m EXCEPT !.how = "none", !.status = st]
  BY Zenon DEF RunOK, MachineRun
<1>. QED
  BY <1>1, RunEnds, Zenon

\* The handler raised.
LEMMA RunFails ==
  ASSUME NEW b \in Nat, NEW n \in Nat, NEW m, RunOK(m, n, b), m.how = "none"
  PROVE  LET new == [m EXCEPT !.log = SM!Event(m, m.cur, FALSE)]
         IN  RunOK(new, n + 1, b) /\ new.how = "none" /\ new.status = m.status /\ new.prev = m.prev
<1>. DEFINE e == [from |-> m.cur, to |-> m.cur, ok |-> FALSE]
            l == Append(m.log, e)
            new == [m EXCEPT !.log = l]
<1>1. SM!Event(m, m.cur, FALSE) = l
  BY DEF SM!Event
<1>2. m \in MachineRun /\ m.log \in Seq(MoveEvent) /\ m.status.count \in Nat
  BY DEF RunOK, MachineRun, Statuses
<1>3. e \in MoveEvent /\ ~e.ok
  BY <1>2 DEF MachineRun, MoveEvent
<1>. HIDE DEF e
<1>4. /\ l \in Seq(MoveEvent) /\ Len(l) = Len(m.log) + 1
      /\ Cardinality(MovesIn(l, b)) = Cardinality(MovesIn(m.log, b))
      /\ PathIn(l, b)
      /\ \A k, s : EndsIn(m.log, b, k, s) => EndsIn(l, b, k, s)
  BY <1>2, <1>3, FailureLogged DEF RunOK
<1>. HIDE DEF l
<1>5. /\ new \in MachineRun /\ new.cur = m.cur /\ new.log = l /\ new.how = m.how /\ new.status = m.status
      /\ new.prev = m.prev
  BY <1>2, <1>4 DEF MachineRun
<1>. HIDE DEF new
<1>6. b <= Len(l) /\ Len(l) <= b + (n + 1) /\ m.status.count <= n + 1
  <2>1. Len(m.log) \in Nat /\ b <= Len(m.log) /\ Len(m.log) <= b + n /\ m.status.count <= n
    BY <1>2, LenProperties DEF RunOK
  <2>. QED
    BY <2>1, <1>2, <1>4
<1>7. RunOK(new, n + 1, b)
  BY <1>4, <1>5, <1>6 DEF RunOK
<1>. QED
  BY <1>1, <1>5, <1>7, Zenon DEF new

\* What a move to t adds to the log.
LEMMA RunLogs ==
  ASSUME NEW b \in Nat, NEW n \in Nat, NEW m, RunOK(m, n, b), m.how = "none",
         NEW t \in States, <<m.cur, t>> \in MoveRules
  PROVE  LET l == SM!Event(m, t, TRUE)
             c == m.status.count
         IN  /\ l \in Seq(MoveEvent) /\ b <= Len(l) /\ Len(l) <= b + (n + 1)
             /\ c \in Nat /\ c <= n /\ Cardinality(MovesIn(l, b)) = c + 1
             /\ PathIn(l, b)
             /\ EndsIn(l, b, c + 1, t)
             /\ \A s : EndsIn(m.log, b, c, s) => EndsIn(l, b, c, s)
<1>. DEFINE e == [from |-> m.cur, to |-> t, ok |-> TRUE]
            l == Append(m.log, e)
            c == m.status.count
<1>1. SM!Event(m, t, TRUE) = l
  BY DEF SM!Event
<1>2. m \in MachineRun /\ m.log \in Seq(MoveEvent) /\ c \in Nat
  BY DEF RunOK, MachineRun, Statuses
<1>3. e \in MoveEvent /\ e.ok /\ e.from = m.cur /\ e.to = t
  BY <1>2 DEF MachineRun, MoveEvent
<1>. HIDE DEF e
<1>4. c = Cardinality(MovesIn(m.log, b)) /\ EndsIn(m.log, b, c, e.from)
  BY <1>3 DEF RunOK
<1>5. /\ l \in Seq(MoveEvent) /\ Len(l) = Len(m.log) + 1
      /\ Cardinality(MovesIn(l, b)) = c + 1
      /\ PathIn(l, b)
      /\ EndsIn(l, b, c + 1, e.to)
      /\ \A k, s : EndsIn(m.log, b, k, s) /\ k <= c /\ k \in Nat => EndsIn(l, b, k, s)
  <2>1. b <= Len(m.log) /\ PathIn(m.log, b) /\ <<e.from, e.to>> \in MoveRules
    BY <1>3 DEF RunOK
  <2>. HIDE DEF c
  <2>. QED
    BY <2>1, <1>2, <1>3, <1>4, MoveLogged
<1>. HIDE DEF l
<1>6. b <= Len(l) /\ Len(l) <= b + (n + 1) /\ c <= n
  <2>1. Len(m.log) \in Nat /\ b <= Len(m.log) /\ Len(m.log) <= b + n /\ c <= n
    BY <1>2, LenProperties DEF RunOK
  <2>. QED
    BY <2>1, <1>2, <1>5
<1>7. EndsIn(l, b, c + 1, t)
  BY <1>3, <1>5
<1>8. \A s : EndsIn(m.log, b, c, s) => EndsIn(l, b, c, s)
  <2>1. c <= c
    BY <1>2
  <2>. HIDE DEF c
  <2>. QED
    BY <1>2, <1>5, <2>1
<1>. HIDE DEF c
<1>9. /\ l \in Seq(MoveEvent) /\ b <= Len(l) /\ Len(l) <= b + (n + 1)
      /\ c \in Nat /\ c <= n /\ Cardinality(MovesIn(l, b)) = c + 1
      /\ PathIn(l, b)
  BY <1>2, <1>5, <1>6
<1>. QED
  BY <1>1, <1>7, <1>8, <1>9 DEF c

\* The machine moves.
LEMMA RunMoves ==
  ASSUME NEW b \in Nat, NEW n \in Nat, NEW m, RunOK(m, n, b), m.how = "none",
         NEW t \in States, <<m.cur, t>> \in MoveRules
  PROVE  RunOK(SM!Moved(m, t), n + 1, b) /\ SM!Moved(m, t).how = "none"
<1>. DEFINE l == SM!Event(m, t, TRUE)
            c == m.status.count
            new == SM!Moved(m, t)
            st == [m.status EXCEPT !.state = t, !.count = @ + 1]
<1>1. m \in MachineRun /\ m.status \in Statuses
  BY DEF RunOK, MachineRun
<1>2. /\ l \in Seq(MoveEvent) /\ b <= Len(l) /\ Len(l) <= b + (n + 1)
      /\ c \in Nat /\ c <= n /\ Cardinality(MovesIn(l, b)) = c + 1
      /\ PathIn(l, b)
      /\ EndsIn(l, b, c + 1, t)
  BY RunLogs, Zenon
<1>3. st \in Statuses /\ st.state = t /\ st.count = c + 1
  <2>1. c + 1 \in Nat
    BY <1>2
  <2>. QED
    BY <1>1, <2>1 DEF Statuses
<1>4. new = [m EXCEPT !.log = l, !.prev = m.cur, !.cur = t, !.status = st]
  BY DEF SM!Moved
<1>. HIDE DEF l, st, new
<1>5. new \in MachineRun /\ new.cur = t /\ new.log = l /\ new.how = "none" /\ new.status = st
  BY <1>1, <1>2, <1>3, <1>4 DEF MachineRun
<1>6. st.count <= n + 1
  BY <1>2, <1>3
<1>. HIDE DEF c
<1>7. RunOK(new, n + 1, b)
  BY <1>2, <1>3, <1>5, <1>6 DEF RunOK
<1>. QED
  BY <1>5, <1>7 DEF new

\* The on_transition hook raised: the move is logged and does not happen.
LEMMA RunEscapes ==
  ASSUME NEW b \in Nat, NEW n \in Nat, NEW m, RunOK(m, n, b), m.how = "none",
         NEW t \in States, <<m.cur, t>> \in MoveRules
  PROVE  RunOK(SM!End([m EXCEPT !.log = SM!Event(m, t, TRUE)], "escaped", m.status), n + 1, b)
<1>. DEFINE l == SM!Event(m, t, TRUE)
            c == m.status.count
            new == SM!End([m EXCEPT !.log = l], "escaped", m.status)
<1>1. m \in MachineRun /\ m.status \in Statuses
  BY DEF RunOK, MachineRun
<1>2. /\ l \in Seq(MoveEvent) /\ b <= Len(l) /\ Len(l) <= b + (n + 1)
      /\ c \in Nat /\ c <= n /\ Cardinality(MovesIn(l, b)) = c + 1
      /\ PathIn(l, b)
      /\ \A s : EndsIn(m.log, b, c, s) => EndsIn(l, b, c, s)
  BY RunLogs
<1>. HIDE DEF l
<1>3. new \in MachineRun /\ new.log = l /\ new.how = "escaped" /\ new.status = m.status
  BY <1>1, <1>2, Zenon DEF MachineRun, SM!End
<1>. HIDE DEF new
<1>4. c <= n + 1
  BY <1>2
<1>5. strategy # "rollback" => EndsIn(l, b, c, m.status.state)
  BY <1>2 DEF RunOK
<1>6. RunOK(new, n + 1, b)
  BY <1>2, <1>3, <1>4, <1>5 DEF RunOK
<1>. QED
  BY <1>6 DEF new, l

\* The statuses a turn may leave.
LEMMA StatusesOf ==
  ASSUME NEW st \in Statuses
  PROVE  /\ SM!Settled(st) \in Statuses /\ SM!Settled(st).count = st.count /\ SM!Settled(st).state = st.state
         /\ ~SM!Settled(st).running
         /\ [st EXCEPT !.failed = TRUE] \in Statuses /\ [st EXCEPT !.failed = TRUE].count = st.count
         /\ [st EXCEPT !.failed = TRUE].state = st.state /\ [st EXCEPT !.failed = TRUE].running = st.running
         /\ \A s \in States : [st EXCEPT !.state = s] \in Statuses /\ [st EXCEPT !.state = s].count = st.count
BY Zenon DEF SM!Settled, Statuses

\* One of these happens in a turn.
LEMMA TurnIs ==
  ASSUME NEW m, NEW met
  PROVE  \/ SM!Turn(m, met) = m /\ m.how # "none"
         \/ /\ m.how = "none"
            /\ \/ SM!Turn(m, met) = SM!End(m, "returned", SM!Settled(m.status))
               \/ SM!Turn(m, met) = SM!HandlerError(m)
               \/ SM!Turn(m, met) = SM!End(m, "escaped", m.status)
               \/ SM!Turn(m, met) = SM!Refused(m)
               \/ SM!Turn(m, met) = SM!End(m, "returned", [SM!Settled(m.status) EXCEPT !.failed = TRUE])
               \/ /\ <<m.cur, met[1]>> \in MoveRules
                  /\ \/ SM!Turn(m, met) = SM!End([m EXCEPT !.log = SM!Event(m, met[1], TRUE)], "escaped", m.status)
                     \/ SM!Turn(m, met) = SM!End(SM!Moved(m, met[1]), "escaped", SM!Moved(m, met[1]).status)
                     \/ SM!Turn(m, met) = SM!Moved(m, met[1])
<1>. DEFINE t == met[1]
            what == met[2]
<1>1. CASE m.how # "none"
  BY <1>1 DEF SM!Turn
<1>2. CASE m.how = "none" /\ m.cur \notin Handled
  BY <1>2 DEF SM!Turn
<1>3. CASE m.how = "none" /\ m.cur \in Handled /\ what \in {"raise", "hook"}
  BY <1>3 DEF SM!Turn
<1>4. CASE m.how = "none" /\ m.cur \in Handled /\ what \notin {"raise", "hook"} /\ <<m.cur, t>> \notin MoveRules
  BY <1>4 DEF SM!Turn
<1>5. CASE m.how = "none" /\ m.cur \in Handled /\ what \notin {"raise", "hook"} /\ <<m.cur, t>> \in MoveRules
  BY <1>5 DEF SM!Turn
<1>. QED
  BY <1>1, <1>2, <1>3, <1>4, <1>5

\* A run that ends by itself.
LEMMA RunSettles ==
  ASSUME NEW b \in Nat, NEW n \in Nat, NEW m, RunOK(m, n, b), m.how = "none",
         NEW how \in {"returned", "raised"}, NEW st \in Statuses, st.count = m.status.count,
         st.state = m.status.state \/ strategy = "rollback"
  PROVE  /\ RunOK(SM!End(m, how, SM!Settled(st)), n, b)
         /\ RunOK(SM!End(m, how, [SM!Settled(st) EXCEPT !.failed = TRUE]), n, b)
<1>. DEFINE s1 == SM!Settled(st)
            s2 == [s1 EXCEPT !.failed = TRUE]
<1>1. s1 \in Statuses /\ s1.count = st.count /\ s1.state = st.state /\ ~s1.running
  BY StatusesOf
<1>. HIDE DEF s1
<1>2. s2 \in Statuses /\ s2.count = s1.count /\ s2.state = s1.state /\ s2.running = s1.running
  BY <1>1, StatusesOf
<1>. HIDE DEF s2
<1>3. how \in {"none", "returned", "raised", "escaped"}
  OBVIOUS
<1>4. RunOK([m EXCEPT !.how = how, !.status = s1], n, b)
  BY <1>1, <1>3, RunEnds, Zenon
<1>5. RunOK([m EXCEPT !.how = how, !.status = s2], n, b)
  BY <1>1, <1>2, <1>3, RunEnds, Zenon
<1>. QED
  BY <1>4, <1>5 DEF SM!End, s1, s2

LEMMA ErrorKeeps ==
  ASSUME NEW b \in Nat, NEW n \in Nat, NEW m, RunOK(m, n, b), m.how = "none"
  PROVE  RunOK(SM!HandlerError(m), n + 1, b)
<1>. DEFINE failed == [m.status EXCEPT !.failed = TRUE]
            logs_ == [m EXCEPT !.log = SM!Event(m, m.cur, FALSE)]
            back == [failed EXCEPT !.state = m.prev]
<1>1. \/ SM!HandlerError(m) = [logs_ EXCEPT !.status = failed]
      \/ strategy = "rollback" /\ m.prev # NoState /\ SM!HandlerError(m) = [logs_ EXCEPT !.status = back]
      \/ SM!HandlerError(m) = SM!End(logs_, "returned", SM!Settled(failed))
  BY DEF SM!HandlerError
<1>2. m.status \in Statuses /\ m.prev \in States \union {NoState}
  BY DEF RunOK, MachineRun
<1>3. failed \in Statuses /\ failed.count = m.status.count /\ failed.state = m.status.state
  BY <1>2, StatusesOf
<1>4. RunOK(logs_, n + 1, b) /\ logs_.how = "none" /\ logs_.status = m.status
  BY RunFails, Zenon
<1>. HIDE DEF failed, logs_
<1>5. m.prev # NoState => back \in Statuses /\ back.count = failed.count
  BY <1>2, <1>3, StatusesOf
<1>. HIDE DEF back
<1>6. n + 1 \in Nat
  OBVIOUS
<1>7. RunOK([logs_ EXCEPT !.status = failed], n + 1, b)
  BY <1>3, <1>4, <1>6, RunStatus
<1>8. strategy = "rollback" /\ m.prev # NoState => RunOK([logs_ EXCEPT !.status = back], n + 1, b)
  BY <1>3, <1>4, <1>5, <1>6, RunStatus
<1>9. RunOK(SM!End(logs_, "returned", SM!Settled(failed)), n + 1, b)
  BY <1>3, <1>4, <1>6, RunSettles
<1>. QED
  BY <1>1, <1>7, <1>8, <1>9

LEMMA EscapeKeeps ==
  ASSUME NEW b \in Nat, NEW n \in Nat, NEW m, RunOK(m, n, b), m.how = "none"
  PROVE  RunOK(SM!End(m, "escaped", m.status), n, b)
<1>1. m.status \in Statuses /\ "escaped" \in {"none", "returned", "raised", "escaped"} /\ "escaped" \in {"none", "escaped"}
  BY DEF RunOK, MachineRun
<1>. QED
  BY <1>1, RunEnds, Zenon DEF SM!End

LEMMA TurnKeeps ==
  ASSUME NEW b \in Nat, NEW n \in Nat, NEW m, RunOK(m, n, b), NEW met \in SM!Outcomes
  PROVE  RunOK(SM!Turn(m, met), n + 1, b)
<1>. DEFINE t == met[1]
<1>1. t \in States
  BY MachineBounds DEF SM!Outcomes
<1>. HIDE DEF t
<1>2. m.status \in Statuses
  BY DEF RunOK, MachineRun
<1>3. CASE SM!Turn(m, met) = m
  BY <1>3, RunLonger
<1>4. CASE m.how = "none"
  <2>1. RunOK(SM!End(m, "returned", SM!Settled(m.status)), n + 1, b)
    BY <1>2, <1>4, RunSettles, RunLonger
  <2>2. RunOK(SM!End(m, "returned", [SM!Settled(m.status) EXCEPT !.failed = TRUE]), n + 1, b)
    BY <1>2, <1>4, RunSettles, RunLonger
  <2>3. RunOK(SM!End(m, "escaped", m.status), n + 1, b)
    BY <1>4, EscapeKeeps, RunLonger
  <2>4. RunOK(SM!Refused(m), n + 1, b)
    <3>1. RunOK(SM!End(m, "raised", SM!Settled(m.status)), n + 1, b)
      BY <1>2, <1>4, RunSettles, RunLonger
    <3>. QED
      BY <2>2, <3>1 DEF SM!Refused
  <2>5. RunOK(SM!HandlerError(m), n + 1, b)
    BY <1>4, ErrorKeeps
  <2>6. ASSUME <<m.cur, t>> \in MoveRules
        PROVE  /\ RunOK(SM!End([m EXCEPT !.log = SM!Event(m, t, TRUE)], "escaped", m.status), n + 1, b)
               /\ RunOK(SM!End(SM!Moved(m, t), "escaped", SM!Moved(m, t).status), n + 1, b)
               /\ RunOK(SM!Moved(m, t), n + 1, b)
    <3>1. RunOK(SM!Moved(m, t), n + 1, b) /\ SM!Moved(m, t).how = "none"
      BY <1>1, <1>4, <2>6, RunMoves
    <3>2. n + 1 \in Nat
      OBVIOUS
    <3>3. RunOK(SM!End(SM!Moved(m, t), "escaped", SM!Moved(m, t).status), n + 1, b)
      BY <3>1, <3>2, EscapeKeeps
    <3>. QED
      BY <1>1, <1>4, <2>6, <3>1, <3>3, RunEscapes, Zenon
  <2>. QED
    BY <1>4, <2>1, <2>2, <2>3, <2>4, <2>5, <2>6, TurnIs DEF t
<1>. QED
  BY <1>3, <1>4, TurnIs

\* The run after each turn: a recursive function of that kind exists.
Turns(begun, met, n, f) == f = [k \in 0..n |-> IF k = 0 THEN begun ELSE SM!Turn(f[k - 1], met[k])]

LEMMA TurnsExist == ASSUME NEW begun, NEW met, NEW n \in Nat PROVE \E f : Turns(begun, met, n, f)
<1>. DEFINE S == {m \in Nat : ~\E f : Turns(begun, met, m, f)}
<1>1. SUFFICES ASSUME S # {} PROVE FALSE
  OBVIOUS
<1>2. PICK m \in S : \A k \in S : m <= k
  BY <1>1, Least
<1>3. m \in Nat /\ ~\E f : Turns(begun, met, m, f)
  BY <1>2
<1>4. CASE m = 0
  <2>. DEFINE f == [k \in 0..0 |-> begun]
  <2>1. f = [k \in 0..0 |-> IF k = 0 THEN begun ELSE SM!Turn(f[k - 1], met[k])]
    OBVIOUS
  <2>. QED
    BY <2>1, <1>3, <1>4 DEF Turns
<1>5. CASE m # 0
  <2>1. m - 1 \in Nat /\ m - 1 \notin S
    BY <1>2, <1>3, <1>5
  <2>2. PICK g : Turns(begun, met, m - 1, g)
    BY <2>1
  <2>. DEFINE f == [k \in 0..m |-> IF k = m THEN SM!Turn(g[m - 1], met[m]) ELSE g[k]]
  <2>3. ASSUME NEW k \in 0..m PROVE f[k] = IF k = 0 THEN begun ELSE SM!Turn(f[k - 1], met[k])
    <3>1. CASE k = m
      <4>1. m - 1 \in 0..m /\ m - 1 # m
        BY <1>3, <1>5
      <4>2. f[k] = SM!Turn(g[m - 1], met[m]) /\ f[m - 1] = g[m - 1]
        BY <3>1, <4>1
      <4>. HIDE DEF f
      <4>. QED
        BY <3>1, <4>2, <1>5
    <3>2. CASE k # m
      <4>1. k \in 0..(m - 1) /\ f[k] = g[k]
        BY <3>2, <1>3
      <4>2. g[k] = IF k = 0 THEN begun ELSE SM!Turn(g[k - 1], met[k])
        BY <2>2, <4>1 DEF Turns
      <4>3. k # 0 => k - 1 \in 0..m /\ k - 1 # m
        BY <3>2, <1>3
      <4>4. k # 0 => f[k - 1] = g[k - 1]
        BY <4>3
      <4>. HIDE DEF f
      <4>. QED
        BY <4>1, <4>2, <4>4
    <3>. QED
      BY <3>1, <3>2
  <2>4. f = [k \in 0..m |-> f[k]]
    OBVIOUS
  <2>. HIDE DEF f
  <2>5. f = [k \in 0..m |-> IF k = 0 THEN begun ELSE SM!Turn(f[k - 1], met[k])]
    BY <2>3, <2>4
  <2>. QED
    BY <2>5, <1>3 DEF Turns
<1>. QED
  BY <1>4, <1>5

LEMMA TurnsKeep ==
  ASSUME NEW b \in Nat, NEW met \in Seq(SM!Outcomes), NEW begun, RunOK(begun, 0, b), NEW f, Turns(begun, met, Len(met), f)
  PROVE  \A n \in 0..Len(met) : RunOK(f[n], n, b)
<1>. DEFINE S == {n \in 0..Len(met) : ~RunOK(f[n], n, b)}
<1>1. SUFFICES ASSUME S # {} PROVE FALSE
  OBVIOUS
<1>2. Len(met) \in Nat /\ S \subseteq Nat
  BY LenProperties
<1>3. PICK n \in S : \A k \in S : n <= k
  BY <1>1, <1>2, Least
<1>4. n \in 0..Len(met) /\ ~RunOK(f[n], n, b)
  BY <1>3
<1>5. \A k \in 0..Len(met) : f[k] = IF k = 0 THEN begun ELSE SM!Turn(f[k - 1], met[k])
  BY DEF Turns
<1>6. CASE n = 0
  BY <1>4, <1>5, <1>6
<1>7. CASE n # 0
  <2>1. n - 1 \in Nat /\ n - 1 \in 0..Len(met) /\ (n - 1) + 1 = n /\ n \in 1..Len(met) /\ ~(n <= n - 1)
    BY <1>2, <1>4, <1>7
  <2>2. n - 1 \notin S
    BY <1>3, <2>1
  <2>3. RunOK(f[n - 1], n - 1, b)
    BY <2>1, <2>2
  <2>4. f[n] = SM!Turn(f[n - 1], met[n]) /\ met[n] \in SM!Outcomes
    BY <1>4, <1>5, <1>7, <2>1, ElementOfSeq
  <2>5. RunOK(SM!Turn(f[n - 1], met[n]), (n - 1) + 1, b)
    BY <2>1, <2>3, <2>4, TurnKeeps
  <2>. QED
    BY <2>1, <2>4, <2>5, <1>4
<1>. QED
  BY <1>6, <1>7

SMInv == SM!TypeOK /\ SM!LogIsPath /\ SM!RunningIsEscaped

\* What a run that is over leaves, in the words of the property.
LEMMA RunIsOver ==
  ASSUME SMInv, NEW over, RunOK(over, MaxIter, Len(events)), over.how # "none",
         status' = over.status, events' = over.log, outcome' = over.how, mark' = Len(events),
         UNCHANGED <<strict, strategy>>, runs' \in 0..MaxRuns
  PROVE  SMInv'
<1>. DEFINE b == Len(events)
<1>1. b \in Nat
  BY LenProperties DEF SMInv, SM!TypeOK
<1>2. over \in MachineRun /\ over.status \in Statuses /\ over.log \in Seq(MoveEvent)
      /\ over.how \in {"returned", "raised", "escaped"}
  BY DEF RunOK, MachineRun
<1>3. b <= Len(events') /\ Len(events') <= b + MaxIter /\ Len(events') \in Nat /\ status'.count <= MaxIter
  BY <1>2, LenProperties DEF RunOK
<1>4. SM!TypeOK'
  <2>1. status'.count \in 0..MaxIter
    BY <1>2, <1>3, MachineBounds DEF Statuses
  <2>2. status' \in [state : States, running : BOOLEAN, terminated : BOOLEAN, count : 0..MaxIter, failed : BOOLEAN]
    BY <1>2, <2>1 DEF Statuses
  <2>3. mark' \in 0..Len(events')
    BY <1>1, <1>3
  <2>4. events' \in Seq([from : States, to : States, ok : BOOLEAN])
    BY <1>2 DEF MoveEvent
  <2>. QED
    BY <1>2, <2>2, <2>3, <2>4 DEF SMInv, SM!TypeOK
<1>5. SM!Moves' = MovesIn(events', b)
  BY DEF SM!Moves, MovesIn
<1>6. \A i : SM!Rank(i)' = RankIn(events', b, i)
  BY <1>5 DEF SM!Rank, RankIn, SM!Cardinality, Cardinality
<1>7. SM!Cardinality(MovesIn(events', b)) = Cardinality(MovesIn(events', b))
  BY DEF SM!Cardinality, Cardinality
<1>8. SM!LogIsPath'
  <2>1. \/ status'.count = Cardinality(MovesIn(events', b))
        \/ outcome' = "escaped" /\ status'.count + 1 = Cardinality(MovesIn(events', b))
    BY DEF RunOK
  <2>2. Len(events') - mark' <= MaxIter
    BY <1>1, <1>3, MachineBounds
  <2>3. PathIn(events', b)
    BY DEF RunOK
  <2>4. strategy' # "rollback" => EndsIn(events', b, status'.count, status'.state)
    BY DEF RunOK
  <2>. QED
    BY <1>5, <1>6, <1>7, <2>1, <2>2, <2>3, <2>4 DEF SM!LogIsPath, PathIn, EndsIn
<1>9. SM!RunningIsEscaped'
  BY <1>2 DEF RunOK, SM!RunningIsEscaped
<1>. QED
  BY <1>4, <1>8, <1>9 DEF SMInv

\* A run before its first turn.
LEMMA RunBegins ==
  ASSUME SMInv, NEW s \in States, NEW how \in {"none", "escaped"}
  PROVE  RunOK([cur |-> s, prev |-> NoState, log |-> events, how |-> how, status |-> [SM!Fresh(s) EXCEPT !.running = TRUE]],
               0, Len(events))
<1>. DEFINE st == [SM!Fresh(s) EXCEPT !.running = TRUE]
            begun == [cur |-> s, prev |-> NoState, log |-> events, how |-> how, status |-> st]
            b == Len(events)
<1>1. events \in Seq(MoveEvent) /\ b \in Nat
  BY LenProperties DEF SMInv, SM!TypeOK, MoveEvent
<1>2. st \in Statuses /\ st.count = 0 /\ st.state = s
  BY DEF SM!Fresh, Statuses
<1>. HIDE DEF st
<1>3. begun \in MachineRun /\ begun.log = events /\ begun.how = how /\ begun.status = st /\ begun.cur = s
  BY <1>1, <1>2 DEF MachineRun
<1>. HIDE DEF begun
<1>4. MovesIn(events, b) = {}
  <2>1. (b + 1)..b = {}
    BY <1>1
  <2>. QED
    BY <2>1 DEF MovesIn
<1>5. Cardinality(MovesIn(events, b)) = 0
  BY <1>4, FS_EmptySet
<1>6. PathIn(events, b) /\ \A k, e : EndsIn(events, b, k, e)
  BY <1>4 DEF PathIn, EndsIn
<1>7. b <= b /\ b <= b + 0
  BY <1>1
<1>8. RunOK(begun, 0, b)
  BY <1>2, <1>3, <1>5, <1>6, <1>7 DEF RunOK
<1>. QED
  BY <1>8 DEF begun, st

LEMMA RunKeeps ==
  ASSUME SMInv, NEW s \in States, NEW entered \in BOOLEAN, NEW met \in Seq(SM!Outcomes), Len(met) <= MaxIter,
         SM!Run(s, entered, met)
  PROVE  SMInv'
<1>. DEFINE how == IF entered THEN "none" ELSE "escaped"
            begun == [cur |-> s, prev |-> NoState, log |-> events, how |-> how,
                      status |-> [SM!Fresh(s) EXCEPT !.running = TRUE]]
            turned == CHOOSE f : f = [n \in 0..Len(met) |-> IF n = 0 THEN begun ELSE SM!Turn(f[n - 1], met[n])]
            last == turned[Len(met)]
            over == IF last.how = "none" THEN SM!End(last, "returned", SM!Settled(last.status)) ELSE last
            b == Len(events)
            n == Len(met)
<1>1. /\ status' = over.status /\ events' = over.log /\ outcome' = over.how
      /\ mark' = b /\ runs < MaxRuns /\ runs' = runs + 1 /\ UNCHANGED <<strict, strategy>>
  BY DEF SM!Run
<1>2. b \in Nat /\ n \in Nat /\ n <= MaxIter
  BY LenProperties DEF SMInv, SM!TypeOK
<1>3. RunOK(begun, 0, b)
  <2>1. how \in {"none", "escaped"}
    OBVIOUS
  <2>. HIDE DEF how
  <2>. QED
    BY <2>1, RunBegins
<1>. HIDE DEF begun
<1>4. Turns(begun, met, n, turned)
  <2>1. \E f : Turns(begun, met, n, f)
    BY <1>2, TurnsExist
  <2>. QED
    BY <2>1 DEF Turns
<1>. HIDE DEF turned
<1>5. RunOK(last, n, b)
  <2>1. n \in 0..n
    BY <1>2
  <2>. HIDE DEF RunOK
  <2>. QED
    BY <1>2, <1>3, <1>4, <2>1, TurnsKeep
<1>. HIDE DEF last
<1>6. RunOK(over, n, b) /\ over.how # "none"
  <2>1. CASE last.how = "none"
    <3>1. last \in MachineRun /\ last.status \in Statuses
      BY <1>5 DEF RunOK, MachineRun
    <3>2. over = SM!End(last, "returned", SM!Settled(last.status))
      BY <2>1
    <3>3. RunOK(SM!End(last, "returned", SM!Settled(last.status)), n, b)
      BY <1>2, <1>5, <2>1, <3>1, RunSettles
    <3>4. SM!End(last, "returned", SM!Settled(last.status)).how = "returned"
      BY <3>1 DEF SM!End, MachineRun
    <3>. HIDE DEF over
    <3>. QED
      BY <3>2, <3>3, <3>4
  <2>2. CASE last.how # "none"
    BY <2>2, <1>5
  <2>. QED
    BY <2>1, <2>2
<1>. HIDE DEF over
<1>7. RunOK(over, MaxIter, b)
  <2>1. over \in MachineRun /\ over.status.count \in Nat /\ Len(over.log) \in Nat
    BY <1>6, LenProperties DEF RunOK, MachineRun, Statuses
  <2>2. Len(over.log) <= b + MaxIter /\ over.status.count <= MaxIter
    BY <1>2, <1>6, <2>1, MachineBounds DEF RunOK
  <2>. QED
    BY <1>6, <2>2 DEF RunOK
<1>8. runs' \in 0..MaxRuns
  BY <1>1, MachineBounds DEF SMInv, SM!TypeOK
<1>. QED
  BY <1>1, <1>6, <1>7, <1>8, RunIsOver

LEMMA SMInit == SM!Init => SMInv
BY MachineBounds DEF SM!Init, SMInv, SM!TypeOK, SM!LogIsPath, SM!RunningIsEscaped, SM!Fresh

LEMMA SMReset == ASSUME SMInv, SM!Reset PROVE SMInv'
<1>1. /\ status' = SM!Fresh(Initial) /\ events' = <<>> /\ mark' = 0 /\ outcome' = "none"
      /\ UNCHANGED <<strict, strategy, runs>>
  BY DEF SM!Reset
<1>2. status' \in [state : States, running : BOOLEAN, terminated : BOOLEAN, count : 0..MaxIter, failed : BOOLEAN]
      /\ ~status'.running
  BY <1>1, MachineBounds DEF SM!Fresh
<1>3. SM!TypeOK'
  BY <1>1, <1>2 DEF SMInv, SM!TypeOK
<1>. QED
  BY <1>1, <1>2, <1>3 DEF SMInv, SM!LogIsPath, SM!RunningIsEscaped

LEMMA SMStep == ASSUME SMInv, SM!Next \/ UNCHANGED SMvars PROVE SMInv'
<1>1. CASE UNCHANGED SMvars
  <2>1. SM!TypeOK' /\ SM!RunningIsEscaped'
    BY <1>1 DEF SMvars, SMInv, SM!TypeOK, SM!RunningIsEscaped
  <2>2. SM!Moves' = SM!Moves
    BY <1>1 DEF SMvars, SM!Moves
  <2>3. \A i : SM!Rank(i)' = SM!Rank(i)
    BY <2>2 DEF SM!Rank
  <2>4. SM!LogIsPath'
    BY <1>1, <2>2, <2>3 DEF SMvars, SMInv, SM!LogIsPath
  <2>. QED
    BY <2>1, <2>4 DEF SMInv
<1>2. ASSUME NEW s \in States, SM!Run(s, FALSE, <<>>) PROVE SMInv'
  <2>1. <<>> \in Seq(SM!Outcomes) /\ Len(<<>>) <= MaxIter /\ FALSE \in BOOLEAN
    BY MachineBounds
  <2>. QED
    BY <1>2, <2>1, RunKeeps, Zenon
<1>3. ASSUME NEW s \in States, NEW met \in [1..MaxIter -> SM!Outcomes], SM!Run(s, TRUE, met) PROVE SMInv'
  <2>1. met \in Seq(SM!Outcomes) /\ Len(met) = MaxIter
    BY MachineBounds, SeqDef
  <2>2. Len(met) <= MaxIter /\ TRUE \in BOOLEAN
    BY <2>1, MachineBounds
  <2>. QED
    BY <1>3, <2>1, <2>2, RunKeeps
<1>. QED
  BY <1>1, <1>2, <1>3, SMReset DEF SM!Next
=============================================================================
