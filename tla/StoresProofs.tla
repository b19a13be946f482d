----------------------------- MODULE StoresProofs -----------------------------
(***************************************************************************)
(* Proofs about Stores, for every number of rows, clients, tasks, callers, *)
(* apps, processes and keys, and for every bound: each component has an    *)
(* inductive invariant, and a step of the composition is a step of one     *)
(* component that leaves the others alone.                                 *)
(***************************************************************************)
EXTENDS Stores, Containers, FiniteSets, FiniteSetTheorems, WellFoundedInduction, SeqLemmas, SettingsProofs

\* The bounds, one by one.
LEMMA BoundsAre ==
  /\ MaxRowWrites \in Nat /\ MaxScopes \in Nat /\ MaxWrites \in Nat /\ MaxUploads \in Nat
  /\ MaxCalls \in Nat /\ MaxVersion \in Nat /\ MaxApplies \in Nat /\ MaxFileTime \in Nat
  /\ MaxFileWrites \in Nat /\ MaxClock \in Nat /\ MaxSecrets \in Nat /\ TTL \in Nat
BY StoresOK

-----------------------------------------------------------------------------
(* RowVersions: the row in the table is of the latest life, and no copy is *)
(* ahead of it; a copy of its life and version has its content.            *)

Row(i) ==
  table[i] # NoRow => table[i].life = lives[i] /\ table[i].version <= stamp

Copy(c, i) ==
  copies[c][i] # NoRow =>
    /\ copies[c][i].life <= lives[i]
    /\ (table[i] # NoRow /\ copies[c][i].life = table[i].life) =>
         /\ copies[c][i].version <= table[i].version
         /\ copies[c][i].version = table[i].version => copies[c][i].stamp = table[i].stamp

RVInv ==
  /\ RV!TypeOK
  /\ \A i \in Ids : lives[i] <= stamp /\ Row(i)
  /\ \A c \in Clients, i \in Ids : Copy(c, i)

LEMMA RVInit == RV!Init => RVInv
BY BoundsAre DEF RV!Init, RVInv, RV!TypeOK, Row, Copy

LEMMA UpdatedIs ==
  ASSUME NEW q \in RV!RowType, NEW v \in 1..MaxRowWrites, NEW s \in 1..MaxRowWrites
  PROVE  /\ [q EXCEPT !.version = v, !.stamp = s] \in RV!RowType
         /\ [q EXCEPT !.version = v, !.stamp = s].version = v
         /\ [q EXCEPT !.version = v, !.stamp = s].life = q.life
BY DEF RV!RowType

\* A write of row r: it is newer than all copies of its life.
LEMMA PutKeeps ==
  ASSUME RVInv, NEW c \in Clients, NEW i \in Ids, NEW r \in RV!RowType,
         RV!Put(c, i, r), r.life = lives'[i], r.version <= stamp + 1,
         lives' \in [Ids -> Nat], lives'[i] <= stamp + 1, lives[i] <= lives'[i],
         \A j \in Ids : j # i => lives'[j] = lives[j],
         \/ lives'[i] = lives[i] + 1
         \/ table[i] # NoRow /\ r.life = table[i].life /\ r.version = table[i].version + 1
  PROVE  RVInv'
<1>1. /\ stamp \in Nat /\ stamp < MaxRowWrites /\ stamp' = stamp + 1
      /\ table' = [table EXCEPT ![i] = r]
      /\ copies' = [copies EXCEPT ![c][i] = r]
      /\ scope' = scope
  BY BoundsAre DEF RV!Put, RVInv, RV!TypeOK
<1>2. stamp' \in 0..MaxRowWrites /\ stamp' \in Nat
  BY <1>1, BoundsAre
<1>3. \A j \in Ids : lives'[j] \in Nat /\ lives'[j] <= stamp'
  BY <1>1 DEF RVInv, RV!TypeOK
<1>4. lives' \in [Ids -> 0..MaxRowWrites]
  BY <1>2, <1>3, BoundsAre
<1>5. RV!TypeOK'
  BY <1>1, <1>2, <1>4 DEF RVInv, RV!TypeOK
<1>6. /\ table'[i] = r /\ \A j \in Ids : j # i => table'[j] = table[j]
      /\ copies'[c][i] = r
      /\ \A d \in Clients, j \in Ids : d # c \/ j # i => copies'[d][j] = copies[d][j]
  BY <1>1 DEF RVInv, RV!TypeOK
<1>7. ASSUME NEW j \in Ids PROVE Row(j)'
  <2>1. CASE j = i
    BY <2>1, <1>1, <1>6 DEF Row
  <2>2. CASE j # i
    <3>1. table[j] # NoRow => table[j] \in RV!RowType
      BY DEF RVInv, RV!TypeOK
    <3>. QED
      BY <2>2, <3>1, <1>1, <1>6 DEF RVInv, Row, RV!RowType
  <2>. QED
    BY <2>1, <2>2
<1>8. ASSUME NEW d \in Clients, NEW j \in Ids PROVE Copy(d, j)'
  <2>0. /\ copies[d][j] # NoRow => copies[d][j] \in RV!RowType
        /\ table[j] # NoRow => table[j] \in RV!RowType
        /\ lives[j] \in Nat
    BY DEF RVInv, RV!TypeOK
  <2>1. CASE j # i
    BY <2>1, <1>6 DEF RVInv, Copy
  <2>2. CASE j = i /\ d = c
    BY <2>2, <1>3, <1>6 DEF Copy, RV!RowType
  <2>3. CASE j = i /\ d # c
    <3>1. copies'[d][j] = copies[d][j] /\ table'[j] = r
      BY <2>3, <1>6
    <3>2. copies[d][j] # NoRow => copies[d][j].life <= lives'[j]
      BY <2>0, <2>3, <1>3 DEF RVInv, Copy, RV!RowType
    <3>3. ASSUME copies[d][j] # NoRow, copies[d][j].life = r.life
          PROVE  copies[d][j].version < r.version
      BY <2>0, <2>3, <3>3 DEF RVInv, Copy, Row, RV!RowType
    <3>. QED
      BY <2>0, <3>1, <3>2, <3>3 DEF Copy, RV!RowType
  <2>. QED
    BY <2>1, <2>2, <2>3
<1>. QED
  BY <1>3, <1>5, <1>7, <1>8 DEF RVInv

LEMMA RVStep == ASSUME RVInv, RV!Next \/ UNCHANGED RVvars PROVE RVInv'
<1>1. CASE UNCHANGED RVvars
  BY <1>1 DEF RVvars, RVInv, RV!TypeOK, Row, Copy
<1>2. ASSUME NEW c \in Clients, RV!FindAll(c) PROVE RVInv'
  <2>1. /\ copies' = [copies EXCEPT ![c] = table]
        /\ UNCHANGED <<table, scope, stamp, lives>>
    BY <1>2 DEF RV!FindAll
  <2>2. \A d \in Clients, j \in Ids : copies'[d][j] = copies[d][j] \/ copies'[d][j] = table[j]
    BY <2>1 DEF RVInv, RV!TypeOK
  <2>3. \A j \in Ids : lives[j] \in Nat /\ (table[j] # NoRow => table[j] \in RV!RowType)
    BY DEF RVInv, RV!TypeOK
  <2>4. RV!TypeOK'
    BY <2>1 DEF RVInv, RV!TypeOK
  <2>. QED
    BY <2>1, <2>2, <2>3, <2>4 DEF RVInv, Row, Copy, RV!RowType
<1>3. ASSUME NEW c \in Clients, NEW i \in Ids, RV!Find(c, i) PROVE RVInv'
  <2>1. /\ copies' = [copies EXCEPT ![c][i] = table[i]]
        /\ UNCHANGED <<table, scope, stamp, lives>>
    BY <1>3 DEF RV!Find
  <2>2. \A d \in Clients, j \in Ids : copies'[d][j] = copies[d][j] \/ copies'[d][j] = table[j]
    BY <2>1 DEF RVInv, RV!TypeOK
  <2>3. \A j \in Ids : lives[j] \in Nat /\ (table[j] # NoRow => table[j] \in RV!RowType)
    BY DEF RVInv, RV!TypeOK
  <2>4. RV!TypeOK'
    BY <2>1 DEF RVInv, RV!TypeOK
  <2>. QED
    BY <2>1, <2>2, <2>3, <2>4 DEF RVInv, Row, Copy, RV!RowType
<1>4. ASSUME NEW c \in Clients, NEW i \in Ids, RV!Insert(c, i) PROVE RVInv'
  <2> DEFINE r == [life |-> lives[i] + 1, version |-> 1, stamp |-> stamp + 1]
  <2>1. stamp \in Nat /\ stamp < MaxRowWrites /\ lives \in [Ids -> Nat] /\ lives[i] <= stamp
    BY <1>4, BoundsAre DEF RV!Insert, RV!Put, RVInv, RV!TypeOK
  <2>2. r \in RV!RowType
    BY <2>1, BoundsAre DEF RV!RowType
  <2>3. lives' = [lives EXCEPT ![i] = @ + 1] /\ RV!Put(c, i, r)
    BY <1>4 DEF RV!Insert
  <2>4. r.life = lives'[i] /\ r.version <= stamp + 1
    BY <2>1, <2>3
  <2>. HIDE DEF r
  <2>. QED
    BY <2>1, <2>2, <2>3, <2>4, PutKeeps
<1>5. ASSUME NEW c \in Clients, NEW i \in Ids, NEW blind \in BOOLEAN, RV!Update(c, i, blind) PROVE RVInv'
  <2> DEFINE r == [table[i] EXCEPT !.version = @ + 1, !.stamp = stamp + 1]
  <2>1. /\ stamp \in Nat /\ stamp < MaxRowWrites /\ lives \in [Ids -> Nat] /\ lives[i] <= stamp
        /\ table[i] # NoRow /\ table[i] \in RV!RowType /\ table[i].life = lives[i]
        /\ table[i].version <= stamp
    BY <1>5, BoundsAre DEF RV!Update, RV!Put, RVInv, RV!TypeOK, Row
  <2>2. /\ table[i].life \in 1..MaxRowWrites
        /\ table[i].version + 1 \in 1..MaxRowWrites /\ stamp + 1 \in 1..MaxRowWrites
        /\ table[i].version \in Nat
    <3>1. table[i].life \in 1..MaxRowWrites /\ table[i].version \in 1..MaxRowWrites
      BY <2>1 DEF RV!RowType
    <3>. QED
      BY <2>1, <3>1, BoundsAre
  <2>6. PICK q \in RV!RowType, v \in 1..MaxRowWrites, s \in 1..MaxRowWrites :
          q = table[i] /\ v = table[i].version + 1 /\ s = stamp + 1
    BY <2>1, <2>2
  <2>7. r = [q EXCEPT !.version = v, !.stamp = s]
    BY <2>6
  <2>8. /\ [q EXCEPT !.version = v, !.stamp = s] \in RV!RowType
        /\ [q EXCEPT !.version = v, !.stamp = s].version = v
        /\ [q EXCEPT !.version = v, !.stamp = s].life = q.life
    BY UpdatedIs, Zenon
  <2>3. RV!Put(c, i, r) /\ lives' = lives
    BY <1>5 DEF RV!Update
  <2>. HIDE DEF r
  <2>5. r \in RV!RowType /\ r.version = table[i].version + 1 /\ r.life = table[i].life
    BY <2>6, <2>7, <2>8
  <2>4. r \in RV!RowType /\ r.life = lives'[i] /\ r.version <= stamp + 1 /\ r.version = table[i].version + 1
        /\ r.life = table[i].life
    BY <2>1, <2>2, <2>3, <2>5
  <2>. QED
    BY <2>1, <2>3, <2>4, PutKeeps
<1>6. ASSUME NEW i \in Ids, NEW c \in Clients, RV!Delete(c, i) PROVE RVInv'
  <2>1. table' = [table EXCEPT ![i] = NoRow] /\ UNCHANGED <<copies, scope, stamp, lives>>
    BY <1>6 DEF RV!Delete
  <2>2. \A j \in Ids : table'[j] = NoRow \/ table'[j] = table[j]
    BY <2>1 DEF RVInv, RV!TypeOK
  <2>. QED
    BY <2>1, <2>2 DEF RVInv, RV!TypeOK, Row, Copy
<1>7. ASSUME NEW c \in Clients, RV!Begin(c) \/ RV!Commit(c) \/ RV!Rollback(c) \/ RV!Leave(c) PROVE RVInv'
  <2>1. UNCHANGED <<table, copies, stamp, lives>>
    BY <1>7 DEF RV!Begin, RV!Commit, RV!Rollback, RV!Leave
  <2>2. \E v \in {"none", "open", "committed", "rolledback"} : scope' = [scope EXCEPT ![c] = v]
    BY <1>7 DEF RV!Begin, RV!Commit, RV!Rollback, RV!Leave
  <2>3. scope' \in [Clients -> {"none", "open", "committed", "rolledback"}]
    BY <2>2 DEF RVInv, RV!TypeOK
  <2>. QED
    BY <2>1, <2>3 DEF RVInv, RV!TypeOK, Row, Copy
<1>. QED
  BY <1>1, <1>2, <1>3, <1>4, <1>5, <1>6, <1>7 DEF RV!Next

LEMMA RVKeeps == RVInv => RV!VersionsIdentify
BY DEF RVInv, RV!TypeOK, Copy, RV!VersionsIdentify

-----------------------------------------------------------------------------
(* MemorySecrets: no two names have one secret, the stored ones have not   *)
(* ended, and an entry expires one TTL after its secret ended at the       *)
(* latest.                                                                 *)

Forever == MaxClock + 1

MSInv ==
  /\ MS!TypeOK
  /\ \A n \in Names : secrets[n] <= writes
  /\ \A n, m \in Names : secrets[n] = secrets[m] /\ secrets[n] # 0 => n = m
  /\ \A n \in Names : secrets[n] # 0 => ended[secrets[n]] = Forever
  /\ \A w \in 0..MaxSecrets : w > writes => ended[w] = Forever
  /\ \A n \in Names : secretCache[n].value # 0 =>
       /\ secretCache[n].expires <= ended[secretCache[n].value] + TTL
       /\ secretCache[n].expires <= clock + TTL

LEMMA MSInit == MS!Init => MSInv
<1>. SUFFICES ASSUME MS!Init PROVE MSInv
  OBVIOUS
<1>1. Forever \in 0..(MaxClock + 1) /\ 0 \in 0..MaxSecrets /\ 0 \in 0..(MaxClock + TTL) /\ 0 \in 0..MaxClock
  BY BoundsAre DEF Forever
<1>2. ended \in [0..MaxSecrets -> 0..(MaxClock + 1)] /\ \A w \in 0..MaxSecrets : ended[w] = Forever
  BY <1>1 DEF MS!Init, Forever
<1>3. /\ secrets \in [Names -> 0..MaxSecrets] /\ \A n \in Names : secrets[n] = 0
      /\ secretCache \in [Names -> [value : 0..MaxSecrets, expires : 0..(MaxClock + TTL)]]
      /\ \A n \in Names : secretCache[n].value = 0
  BY <1>1 DEF MS!Init, MS!NoEntry
<1>4. secretAnswer \in [name : Names, value : 0..MaxSecrets] /\ clock = 0 /\ writes = 0
  BY <1>1 DEF MS!Init
<1>. QED
  BY <1>1, <1>2, <1>3, <1>4 DEF MSInv, MS!TypeOK

\* A new secret takes the place of what was stored under a name, with or
\* without the cache entry.
LEMMA NewSecret ==
  ASSUME MSInv, NEW n \in Names, writes < MaxSecrets, writes' = writes + 1,
         secrets' = [secrets EXCEPT ![n] = writes + 1],
         secretCache' = secretCache \/ secretCache' = [secretCache EXCEPT ![n] = MS!NoEntry],
         ended' = [ended EXCEPT ![secrets[n]] = IF secrets[n] = 0 THEN @ ELSE clock],
         UNCHANGED <<clock, secretAnswer>>
  PROVE  MSInv'
<1>1. /\ writes \in Nat /\ writes + 1 \in 0..MaxSecrets /\ clock \in 0..MaxClock
      /\ clock \in 0..(MaxClock + 1)
      /\ \A m \in Names : secrets[m] \in 0..MaxSecrets /\ secrets[m] <= writes
      /\ \A w \in 0..MaxSecrets : ended[w] \in 0..(MaxClock + 1)
      /\ Forever \in Nat /\ MaxSecrets \in Nat /\ TTL \in Nat /\ MaxClock \in Nat
  <2>1. /\ clock \in 0..MaxClock /\ writes \in 0..MaxSecrets
        /\ \A m \in Names : secrets[m] \in 0..MaxSecrets /\ secrets[m] <= writes
        /\ \A w \in 0..MaxSecrets : ended[w] \in 0..(MaxClock + 1)
    BY DEF MSInv, MS!TypeOK
  <2>. QED
    BY <2>1, BoundsAre DEF Forever
<1>2. /\ secrets' \in [Names -> 0..MaxSecrets]
      /\ secrets'[n] = writes + 1
      /\ \A m \in Names : m # n => secrets'[m] = secrets[m]
  BY <1>1 DEF MSInv, MS!TypeOK
<1>3. /\ ended' \in [0..MaxSecrets -> 0..(MaxClock + 1)]
      /\ \A w \in 0..MaxSecrets : ended'[w] = IF w = secrets[n] /\ w # 0 THEN clock ELSE ended[w]
  BY <1>1 DEF MSInv, MS!TypeOK
<1>4. /\ secretCache' \in [Names -> [value : 0..MaxSecrets, expires : 0..(MaxClock + TTL)]]
      /\ \A m \in Names : secretCache'[m].value = 0 \/ secretCache'[m] = secretCache[m]
  <2>1. MS!NoEntry \in [value : 0..MaxSecrets, expires : 0..(MaxClock + TTL)] /\ MS!NoEntry.value = 0
    BY BoundsAre DEF MS!NoEntry
  <2>2. secretCache \in [Names -> [value : 0..MaxSecrets, expires : 0..(MaxClock + TTL)]]
    BY DEF MSInv, MS!TypeOK
  <2>3. CASE secretCache' = secretCache
    BY <2>2, <2>3
  <2>4. CASE secretCache' = [secretCache EXCEPT ![n] = MS!NoEntry]
    BY <2>1, <2>2, <2>4
  <2>. QED
    BY <2>3, <2>4
<1>5. MS!TypeOK'
  BY <1>1, <1>2, <1>3, <1>4 DEF MSInv, MS!TypeOK
<1>6. ASSUME NEW m \in Names PROVE (secrets'[m] <= writes' /\ ended'[secrets'[m]] = Forever) \/ secrets'[m] = 0
  <2>1. CASE m = n
    BY <2>1, <1>1, <1>2, <1>3 DEF MSInv
  <2>2. CASE m # n /\ secrets[m] # 0
    <3>1. secrets[m] # secrets[n] /\ secrets'[m] = secrets[m] /\ secrets[m] \in 0..MaxSecrets
      BY <2>2, <1>1, <1>2 DEF MSInv
    <3>. QED
      BY <2>2, <3>1, <1>1, <1>3 DEF MSInv
  <2>. QED
    BY <2>1, <2>2, <1>2
<1>7. \A m \in Names : secrets'[m] <= writes'
  BY <1>1, <1>2
<1>8. \A k, m \in Names : secrets'[k] = secrets'[m] /\ secrets'[k] # 0 => k = m
  BY <1>1, <1>2 DEF MSInv
<1>9. \A w \in 0..MaxSecrets : w > writes' => ended'[w] = Forever
  BY <1>1, <1>3 DEF MSInv
<1>10. ASSUME NEW m \in Names, secretCache'[m].value # 0
       PROVE  /\ secretCache'[m].expires <= ended'[secretCache'[m].value] + TTL
              /\ secretCache'[m].expires <= clock' + TTL
  <2>1. /\ secretCache'[m] = secretCache[m]
        /\ secretCache[m].value \in 0..MaxSecrets /\ secretCache[m].expires \in 0..(MaxClock + TTL)
    BY <1>4, <1>10 DEF MSInv, MS!TypeOK
  <2>2. /\ secretCache[m].expires <= ended[secretCache[m].value] + TTL
        /\ secretCache[m].expires <= clock + TTL
    BY <2>1, <1>10 DEF MSInv
  <2>3. ended'[secretCache[m].value] = clock \/ ended'[secretCache[m].value] = ended[secretCache[m].value]
    BY <2>1, <1>3
  <2>. QED
    BY <2>1, <2>2, <2>3
<1>. QED
  BY <1>5, <1>6, <1>7, <1>8, <1>9, <1>10 DEF MSInv

LEMMA MSStep == ASSUME MSInv, MS!Next \/ UNCHANGED MSvars PROVE MSInv'
<1>0. /\ clock \in 0..MaxClock /\ writes \in 0..MaxSecrets
      /\ \A w \in 0..MaxSecrets : ended[w] \in 0..(MaxClock + 1)
      /\ MaxClock \in Nat /\ TTL \in Nat /\ MaxSecrets \in Nat /\ Forever = MaxClock + 1
      /\ \A n \in Names : /\ secretCache[n].value \in 0..MaxSecrets
                          /\ secretCache[n].expires \in 0..(MaxClock + TTL)
                          /\ secrets[n] \in 0..MaxSecrets
  BY BoundsAre DEF MSInv, MS!TypeOK, Forever
<1>e. MS!NoEntry \in [value : 0..MaxSecrets, expires : 0..(MaxClock + TTL)] /\ MS!NoEntry.value = 0
  BY BoundsAre DEF MS!NoEntry
<1>1. CASE UNCHANGED MSvars
  BY <1>1 DEF MSvars, MSInv, MS!TypeOK
<1>2. CASE MS!Tick
  <2>1. clock' \in 0..MaxClock /\ clock' = clock + 1
    BY <1>0, <1>2 DEF MS!Tick
  <2>2. UNCHANGED <<secrets, secretCache, secretAnswer, writes, ended>>
    BY <1>2 DEF MS!Tick
  <2>3. MS!TypeOK'
    BY <2>1, <2>2 DEF MSInv, MS!TypeOK
  <2>4. \A n \in Names : secretCache[n].value # 0 => secretCache[n].expires <= clock' + TTL
    BY <1>0, <2>1 DEF MSInv
  <2>. QED
    BY <2>2, <2>3, <2>4 DEF MSInv
<1>3. ASSUME NEW names \in SUBSET Names, MS!InvalidateCache(names) PROVE MSInv'
  <2>1. /\ \A m \in Names : secretCache'[m].value = 0 \/ secretCache'[m] = secretCache[m]
        /\ secretCache' \in [Names -> [value : 0..MaxSecrets, expires : 0..(MaxClock + TTL)]]
        /\ UNCHANGED <<clock, secrets, secretAnswer, writes, ended>>
    BY <1>3, <1>e DEF MS!InvalidateCache, MSInv, MS!TypeOK
  <2>. QED
    BY <2>1 DEF MSInv, MS!TypeOK
<1>4. CASE MS!Clear
  <2>1. /\ secrets' = [n \in Names |-> 0]
        /\ secretCache' = [n \in Names |-> MS!NoEntry]
        /\ \A w \in 0..MaxSecrets : w > writes => ended'[w] = ended[w]
        /\ ended' \in [0..MaxSecrets -> 0..(MaxClock + 1)]
        /\ UNCHANGED <<clock, secretAnswer, writes>>
    <3>1. /\ ended' = [w \in 0..MaxSecrets |-> IF \E n \in Names : w # 0 /\ secrets[n] = w THEN clock ELSE ended[w]]
          /\ clock \in 0..(MaxClock + 1)
      BY <1>0, <1>4 DEF MS!Clear
    <3>2. \A w \in 0..MaxSecrets : w > writes => ~\E n \in Names : w # 0 /\ secrets[n] = w
      BY <1>0 DEF MSInv
    <3>. QED
      BY <1>0, <1>4, <3>1, <3>2 DEF MS!Clear
  <2>2. /\ secrets' \in [Names -> 0..MaxSecrets] /\ \A n \in Names : secrets'[n] = 0
        /\ \A n \in Names : secretCache'[n].value = 0
        /\ secretCache' \in [Names -> [value : 0..MaxSecrets, expires : 0..(MaxClock + TTL)]]
    BY <2>1, <1>e, <1>0
  <2>3. MS!TypeOK'
    BY <2>1, <2>2 DEF MSInv, MS!TypeOK
  <2>4. \A n \in Names : secrets'[n] <= writes'
    BY <1>0, <2>1, <2>2
  <2>. QED
    BY <2>1, <2>2, <2>3, <2>4 DEF MSInv
<1>5. ASSUME NEW n \in Names, MS!GetSecret(n) PROVE MSInv'
  <2>1. CASE UNCHANGED secretCache
    <3>1. secretAnswer' \in [name : Names, value : 0..MaxSecrets]
      <4>1. \/ secretAnswer' = secretAnswer
            \/ \E v \in 0..MaxSecrets : secretAnswer' = [name |-> n, value |-> v]
        BY <1>0, <1>5 DEF MS!GetSecret
      <4>. QED
        BY <4>1 DEF MSInv, MS!TypeOK
    <3>. QED
      BY <1>5, <2>1, <3>1 DEF MS!GetSecret, MSInv, MS!TypeOK
  <2>2. CASE /\ secrets[n] # 0
             /\ secretAnswer' = [name |-> n, value |-> secrets[n]]
             /\ secretCache' = [secretCache EXCEPT ![n] = [value |-> secrets[n], expires |-> clock + TTL]]
    <3> DEFINE e == [value |-> secrets[n], expires |-> clock + TTL]
    <3>1. /\ e.value = secrets[n] /\ e.expires = clock + TTL
          /\ e \in [value : 0..MaxSecrets, expires : 0..(MaxClock + TTL)]
      BY <1>0
    <3>2. secretCache' = [secretCache EXCEPT ![n] = e]
      BY <2>2
    <3>. HIDE DEF e
    <3>3. /\ secretCache'[n] = e
          /\ \A m \in Names : m # n => secretCache'[m] = secretCache[m]
          /\ secretCache' \in [Names -> [value : 0..MaxSecrets, expires : 0..(MaxClock + TTL)]]
      BY <3>1, <3>2 DEF MSInv, MS!TypeOK
    <3>4. secretAnswer' \in [name : Names, value : 0..MaxSecrets]
      BY <2>2, <1>0
    <3>5. ended[secrets[n]] = MaxClock + 1
      BY <2>2, <1>0 DEF MSInv
    <3>6. UNCHANGED <<clock, secrets, writes, ended>>
      BY <1>5 DEF MS!GetSecret
    <3>7. MS!TypeOK'
      BY <3>3, <3>4, <3>6 DEF MSInv, MS!TypeOK
    <3>. QED
      BY <1>0, <3>1, <3>3, <3>5, <3>6, <3>7 DEF MSInv
  <2>. QED
    BY <1>5, <2>1, <2>2 DEF MS!GetSecret
<1>6. ASSUME NEW n \in Names, MS!SetSecret(n) \/ MS!RotateSecret(n) PROVE MSInv'
  BY <1>6, NewSecret DEF MS!SetSecret, MS!RotateSecret
<1>. QED
  BY <1>1, <1>2, <1>3, <1>4, <1>5, <1>6 DEF MS!Next

\* What a call answers: a step that changes nothing is a call that raises, or
\* that answers what the last one did.
LEMMA MSAnswers ==
  ASSUME MSInv, NEW n \in Names, MS!GetSecret(n), ~UNCHANGED MSvars, secretAnswer'.value # 0
  PROVE  clock <= ended[secretAnswer'.value] + TTL
<1>0. /\ clock \in 0..MaxClock /\ MaxClock \in Nat /\ TTL \in Nat /\ Forever = MaxClock + 1
      /\ secrets[n] \in 0..MaxSecrets
      /\ secretCache[n].value \in 0..MaxSecrets /\ secretCache[n].expires \in 0..(MaxClock + TTL)
      /\ \A w \in 0..MaxSecrets : ended[w] \in 0..(MaxClock + 1)
  BY BoundsAre DEF MSInv, MS!TypeOK, Forever
<1>1. CASE MS!Fresh(n) /\ secretAnswer' = [name |-> n, value |-> secretCache[n].value]
  <2>1. secretAnswer'.value = secretCache[n].value /\ clock <= secretCache[n].expires
    BY <1>0, <1>1 DEF MS!Fresh, MS!IsExpired
  <2>. QED
    BY <1>0, <1>1, <2>1 DEF MS!Fresh, MSInv
<1>2. CASE secrets[n] # 0 /\ secretAnswer' = [name |-> n, value |-> secrets[n]]
  <2>1. secretAnswer'.value = secrets[n] /\ ended[secrets[n]] = MaxClock + 1
    BY <1>0, <1>2 DEF MSInv
  <2>. QED
    BY <1>0, <2>1
<1>. QED
  BY <1>1, <1>2 DEF MS!GetSecret, MSvars

-----------------------------------------------------------------------------
(* SecretFile: an entry that counts is of a watched key, was read a TTL    *)
(* before it expires, and the file holds its value still or held it when   *)
(* the entry was read or later.                                            *)

EntryType == [value : SF!Values, until : -1..(MaxFileTime + TTL)]
RotationType == [at : {"none", "read", "truncated"}, key : Keys, data : [Keys -> SF!Values], alone : BOOLEAN]

\* What the file says of value v of key k, or said at time m or later.
Says(k, v, m) == (~torn /\ secretFile[k] = v) \/ held[k][v] >= m

Entry(p, k) ==
  SF!Valid(fileCache[p][k]) =>
    /\ <<p, k>> \in Watched
    /\ fileCache[p][k].until <= secretTime + TTL
    /\ Says(k, fileCache[p][k].value, fileCache[p][k].until - TTL)

SFTyped ==
  /\ secretTime \in SF!Times
  /\ secretFile \in [Keys -> SF!Values]
  /\ torn \in BOOLEAN
  /\ fileCache \in [Procs -> [Keys -> EntryType]]
  /\ rotation \in [Procs -> RotationType]
  /\ fileWrites \in SF!Values
  /\ held \in [Keys -> [SF!Values -> SF!Times \cup {SF!Never}]]

SFInv ==
  /\ SFTyped
  /\ \A p \in Procs, k \in Keys : Entry(p, k)

LEMMA NothingIs ==
  /\ SF!NoEntry \in EntryType /\ SF!NoEntry.until = -1
  /\ SF!NoRotation \in RotationType
  /\ 0 \in SF!Values /\ 0 \in SF!Times
<1>1. 0 \in SF!Values /\ 0 \in SF!Times /\ -1 \in -1..(MaxFileTime + TTL)
  BY BoundsAre DEF SF!Values, SF!Times
<1>2. (CHOOSE k \in Keys : TRUE) \in Keys
  BY StoresOK
<1>. QED
  BY <1>1, <1>2 DEF SF!NoEntry, SF!Never, SF!NoRotation, EntryType, RotationType

\* The ranges of the variables, as the proofs below use them.
LEMMA FileRanges ==
  ASSUME SFInv
  PROVE  /\ secretTime \in 0..MaxFileTime /\ secretTime \in Nat /\ TTL \in Nat /\ MaxFileTime \in Nat
         /\ \A p \in Procs, k \in Keys :
              /\ fileCache[p][k] \in EntryType
              /\ fileCache[p][k].value \in SF!Values
              /\ fileCache[p][k].until \in -1..(MaxFileTime + TTL)
              /\ fileCache[p][k].until \in Int
         /\ \A k \in Keys, v \in SF!Values : held[k][v] \in Int
<1>1. /\ secretTime \in 0..MaxFileTime
      /\ \A p \in Procs, k \in Keys : fileCache[p][k] \in EntryType
      /\ \A k \in Keys, v \in SF!Values : held[k][v] \in SF!Times \cup {SF!Never}
  BY DEF SFInv, SFTyped, SF!Times
<1>2. \A x \in SF!Times \cup {SF!Never} : x \in Int
  BY BoundsAre DEF SF!Times, SF!Never
<1>3. \A e \in EntryType : e.value \in SF!Values /\ e.until \in -1..(MaxFileTime + TTL) /\ e.until \in Int
  BY BoundsAre DEF EntryType
<1>. QED
  BY <1>1, <1>2, <1>3, BoundsAre

LEMMA SFInit == SF!Init => SFInv
<1>. SUFFICES ASSUME SF!Init PROVE SFInv
  OBVIOUS
<1>1. /\ fileCache = [p \in Procs |-> [k \in Keys |-> SF!NoEntry]]
      /\ rotation = [p \in Procs |-> SF!NoRotation]
      /\ secretTime = 0
  BY DEF SF!Init
<1>2. SFTyped
  BY <1>1, NothingIs DEF SF!Init, SFTyped
<1>3. \A p \in Procs, k \in Keys : ~SF!Valid(fileCache[p][k])
  BY <1>1, NothingIs DEF SF!Valid
<1>. QED
  BY <1>2, <1>3 DEF SFInv, Entry

\* What was said stays said, when the file is truncated or written over.
LEMMA ReplacedKeeps ==
  ASSUME SFInv, held' = SF!Replaced, UNCHANGED secretTime,
         fileCache' \in [Procs -> [Keys -> EntryType]],
         \A p \in Procs, k \in Keys : fileCache'[p][k] = fileCache[p][k] \/ fileCache'[p][k] = SF!NoEntry
  PROVE  /\ held' \in [Keys -> [SF!Values -> SF!Times \cup {SF!Never}]]
         /\ \A p \in Procs, k \in Keys : Entry(p, k)'
<1>1. /\ \A k \in Keys, v \in SF!Values :
           held'[k][v] = IF ~torn /\ v = secretFile[k] /\ (\E p \in Procs : <<p, k>> \in Watched)
                         THEN secretTime ELSE held[k][v]
      /\ held' \in [Keys -> [SF!Values -> SF!Times \cup {SF!Never}]]
  BY DEF SF!Replaced, SFInv, SFTyped
<1>2. ASSUME NEW p \in Procs, NEW k \in Keys PROVE Entry(p, k)'
  <2>1. CASE ~(fileCache'[p][k] = fileCache[p][k] /\ SF!Valid(fileCache[p][k]))
    BY <2>1, NothingIs, FileRanges DEF SF!Valid, Entry
  <2>2. CASE fileCache'[p][k] = fileCache[p][k] /\ SF!Valid(fileCache[p][k])
    <3>1. PICK e \in EntryType : e = fileCache[p][k]
      BY FileRanges
    <3>2. /\ e.value \in SF!Values /\ e.until \in Int /\ e.until - TTL \in Int
          /\ e.until - TTL <= secretTime
          /\ <<p, k>> \in Watched
          /\ e.until <= secretTime + TTL
          /\ Says(k, e.value, e.until - TTL)
      BY <2>2, <3>1, FileRanges DEF SFInv, Entry
    <3>3. /\ held'[k][e.value] = IF ~torn /\ e.value = secretFile[k] THEN secretTime ELSE held[k][e.value]
          /\ held[k][e.value] \in Int
      BY <1>1, <3>2, FileRanges
    <3>4. held'[k][e.value] >= e.until - TTL
      BY <3>2, <3>3 DEF Says
    <3>. QED
      BY <2>2, <3>1, <3>2, <3>4 DEF Entry, Says
  <2>. QED
    BY <2>1, <2>2
<1>. QED
  BY <1>1, <1>2

LEMMA SFStep == ASSUME SFInv, SF!Next \/ UNCHANGED SFvars PROVE SFInv'
<1>1. CASE UNCHANGED SFvars
  BY <1>1 DEF SFvars, SFInv, SFTyped, Entry, Says, SF!Valid
<1>2. ASSUME NEW p \in Procs, NEW k \in Keys, <<p, k>> \in Watched, SF!Read(p, k) PROVE SFInv'
  <2> DEFINE e == [value |-> secretFile[k], until |-> secretTime + TTL]
  <2>1. e \in EntryType /\ e.value = secretFile[k] /\ e.until = secretTime + TTL
    <3>1. secretFile[k] \in SF!Values
      BY DEF SFInv, SFTyped
    <3>2. secretTime + TTL \in -1..(MaxFileTime + TTL)
      BY FileRanges
    <3>. QED
      BY <3>1, <3>2 DEF EntryType
  <2>2. /\ fileCache' = [fileCache EXCEPT ![p][k] = e] /\ ~torn
        /\ UNCHANGED <<secretTime, secretFile, torn, rotation, fileWrites, held>>
    BY <1>2 DEF SF!Read
  <2>. HIDE DEF e
  <2>3. SFTyped' /\ fileCache'[p][k] = e
        /\ \A q \in Procs, j \in Keys : q # p \/ j # k => fileCache'[q][j] = fileCache[q][j]
    BY <2>1, <2>2 DEF SFInv, SFTyped
  <2>4. ASSUME NEW q \in Procs, NEW j \in Keys PROVE Entry(q, j)'
    <3>1. CASE q = p /\ j = k
      BY <3>1, <1>2, <2>1, <2>2, <2>3, FileRanges DEF Entry, Says
    <3>2. CASE q # p \/ j # k
      BY <3>2, <2>2, <2>3 DEF SFInv, Entry, Says, SF!Valid
    <3>. QED
      BY <3>1, <3>2
  <2>. QED
    BY <2>3, <2>4 DEF SFInv
<1>3. ASSUME NEW p \in Procs, NEW k \in Keys, SF!Invalidate(p, k) PROVE SFInv'
  <2>1. /\ fileCache' = [fileCache EXCEPT ![p][k] = SF!NoEntry]
        /\ UNCHANGED <<secretTime, secretFile, torn, rotation, fileWrites, held>>
    BY <1>3 DEF SF!Invalidate
  <2>2. SFTyped' /\ \A q \in Procs, j \in Keys : fileCache'[q][j] = SF!NoEntry \/ fileCache'[q][j] = fileCache[q][j]
    BY <2>1, NothingIs DEF SFInv, SFTyped
  <2>. QED
    BY <2>1, <2>2, NothingIs, FileRanges DEF SFInv, Entry, Says, SF!Valid
<1>4. ASSUME NEW p \in Procs, SF!Restart(p) PROVE SFInv'
  <2>1. /\ fileCache' = [fileCache EXCEPT ![p] = [k \in Keys |-> SF!NoEntry]]
        /\ rotation' = [rotation EXCEPT ![p] = SF!NoRotation]
        /\ UNCHANGED <<secretTime, secretFile, torn, fileWrites, held>>
    BY <1>4 DEF SF!Restart
  <2>2. SFTyped' /\ \A q \in Procs, j \in Keys : fileCache'[q][j] = SF!NoEntry \/ fileCache'[q][j] = fileCache[q][j]
    BY <2>1, NothingIs DEF SFInv, SFTyped
  <2>. QED
    BY <2>1, <2>2, NothingIs, FileRanges DEF SFInv, Entry, Says, SF!Valid
<1>5. ASSUME NEW p \in Procs, NEW k \in Keys, SF!RotateRead(p, k) PROVE SFInv'
  <2>1. /\ rotation' = [rotation EXCEPT ![p] = [at |-> "read", key |-> k, data |-> secretFile, alone |-> TRUE]]
        /\ UNCHANGED <<secretTime, secretFile, torn, fileCache, fileWrites, held>>
    BY <1>5 DEF SF!RotateRead
  <2>2. [at |-> "read", key |-> k, data |-> secretFile, alone |-> TRUE] \in RotationType
    BY DEF RotationType, SFInv, SFTyped
  <2>3. SFTyped'
    BY <2>1, <2>2 DEF SFInv, SFTyped
  <2>. QED
    BY <2>1, <2>3 DEF SFInv, Entry, Says, SF!Valid
<1>6. ASSUME NEW p \in Procs, SF!RotateTruncate(p) PROVE SFInv'
  <2>1. /\ rotation' = [rotation EXCEPT ![p].at = "truncated"]
        /\ torn' = TRUE /\ held' = SF!Replaced
        /\ UNCHANGED <<secretTime, secretFile, fileCache, fileWrites>>
    BY <1>6 DEF SF!RotateTruncate
  <2>2. rotation' \in [Procs -> RotationType]
    BY <2>1 DEF SFInv, SFTyped, RotationType
  <2>3. fileCache' \in [Procs -> [Keys -> EntryType]]
    BY <2>1 DEF SFInv, SFTyped
  <2>. QED
    BY <2>1, <2>2, <2>3, ReplacedKeeps DEF SFInv, SFTyped
<1>7. ASSUME NEW p \in Procs, SF!RotateWrite(p) \/ SF!RotateChmodFails(p) PROVE SFInv'
  <2>1. /\ fileWrites' = fileWrites + 1 /\ fileWrites < MaxFileWrites
        /\ secretFile' = [rotation[p].data EXCEPT ![rotation[p].key] = fileWrites + 1]
        /\ torn' \in BOOLEAN /\ held' = SF!Replaced
        /\ \/ fileCache' = [fileCache EXCEPT ![p][rotation[p].key] = SF!NoEntry]
           \/ UNCHANGED fileCache
        /\ rotation' = [q \in Procs |->
             IF q = p THEN SF!NoRotation
             ELSE [rotation[q] EXCEPT !.alone = @ /\ rotation[q].at # "truncated"]]
        /\ UNCHANGED secretTime
    BY <1>7 DEF SF!RotateWrite, SF!RotateChmodFails, SF!Written
  <2>2. fileWrites' \in SF!Values
    BY <2>1, BoundsAre DEF SFInv, SFTyped, SF!Values
  <2>3. rotation[p].key \in Keys /\ rotation[p].data \in [Keys -> SF!Values]
    BY DEF SFInv, SFTyped, RotationType
  <2>4. secretFile' \in [Keys -> SF!Values]
    BY <2>1, <2>2, <2>3
  <2>5. /\ fileCache' \in [Procs -> [Keys -> EntryType]]
        /\ \A q \in Procs, j \in Keys : fileCache'[q][j] = fileCache[q][j] \/ fileCache'[q][j] = SF!NoEntry
    <3>1. CASE fileCache' = fileCache
      BY <3>1 DEF SFInv, SFTyped
    <3>2. CASE fileCache' = [fileCache EXCEPT ![p][rotation[p].key] = SF!NoEntry]
      BY <3>2, <2>3, NothingIs DEF SFInv, SFTyped
    <3>. QED
      BY <2>1, <3>1, <3>2
  <2>6. rotation' \in [Procs -> RotationType]
    <3>1. \A q \in Procs : [rotation[q] EXCEPT !.alone = @ /\ rotation[q].at # "truncated"] \in RotationType
      BY DEF SFInv, SFTyped, RotationType
    <3>. QED
      BY <2>1, <3>1, NothingIs
  <2>. QED
    BY <2>1, <2>2, <2>4, <2>5, <2>6, ReplacedKeeps DEF SFInv, SFTyped
<1>8. ASSUME NEW p \in Procs, SF!RotateFails(p) PROVE SFInv'
  <2>1. /\ rotation' = [rotation EXCEPT ![p] = SF!NoRotation]
        /\ UNCHANGED <<secretTime, secretFile, torn, fileCache, fileWrites, held>>
    BY <1>8 DEF SF!RotateFails
  <2>2. SFTyped'
    BY <2>1, NothingIs DEF SFInv, SFTyped
  <2>. QED
    BY <2>1, <2>2 DEF SFInv, Entry, Says, SF!Valid
<1>9. CASE SF!Tick
  <2>1. /\ secretTime < MaxFileTime /\ secretTime' = secretTime + 1
        /\ fileCache' = [p \in Procs |-> [k \in Keys |->
             IF fileCache[p][k].until > secretTime THEN fileCache[p][k] ELSE SF!NoEntry]]
        /\ held' = [k \in Keys |-> [v \in SF!Values |->
             IF held[k][v] > secretTime - TTL THEN held[k][v] ELSE SF!Never]]
        /\ UNCHANGED <<secretFile, torn, rotation, fileWrites>>
    BY <1>9 DEF SF!Tick
  <2>2. secretTime' \in SF!Times
    BY <2>1, FileRanges DEF SF!Times
  <2>3. SFTyped'
    BY <2>1, <2>2, NothingIs DEF SFInv, SFTyped
  <2>4. ASSUME NEW p \in Procs, NEW k \in Keys PROVE Entry(p, k)'
    <3>1. CASE ~(fileCache[p][k].until > secretTime)
      BY <3>1, <2>1, NothingIs, FileRanges DEF Entry, SF!Valid
    <3>2. CASE fileCache[p][k].until > secretTime
      <4>1. PICK e \in EntryType : e = fileCache[p][k]
        BY FileRanges
      <4>2. /\ e.value \in SF!Values /\ e.until \in Int /\ held[k][e.value] \in Int
            /\ SF!Valid(fileCache[p][k]) /\ e.until > secretTime
        BY <4>1, <3>2, FileRanges DEF SF!Valid
      <4>3. <<p, k>> \in Watched /\ e.until <= secretTime + TTL /\ Says(k, e.value, e.until - TTL)
        BY <4>1, <4>2 DEF SFInv, Entry
      <4>4. /\ fileCache'[p][k] = e
            /\ held'[k][e.value] = IF held[k][e.value] > secretTime - TTL THEN held[k][e.value] ELSE SF!Never
        BY <2>1, <3>2, <4>1, <4>2
      <4>5. Says(k, e.value, e.until - TTL)'
        BY <2>1, <4>2, <4>3, <4>4, FileRanges DEF Says
      <4>. QED
        BY <2>1, <4>2, <4>3, <4>4, <4>5, FileRanges DEF Entry
    <3>. QED
      BY <3>1, <3>2
  <2>. QED
    BY <2>3, <2>4 DEF SFInv
<1>. QED
  BY <1>1, <1>2, <1>3, <1>4, <1>5, <1>6, <1>7, <1>8, <1>9 DEF SF!Next

LEMMA SFKeeps == SFInv => SF!TypeOK /\ SF!BoundedStaleness
<1>. SUFFICES ASSUME SFInv PROVE SF!TypeOK /\ SF!BoundedStaleness
  OBVIOUS
<1>1. SF!TypeOK
  BY DEF SFInv, SFTyped, SF!TypeOK, EntryType, RotationType
<1>2. ASSUME NEW p \in Procs, NEW k \in Keys, SF!Valid(fileCache[p][k])
      PROVE  \/ ~torn /\ secretFile[k] = fileCache[p][k].value
             \/ held[k][fileCache[p][k].value] >= secretTime - TTL
  <2>1. PICK e \in EntryType : e = fileCache[p][k]
    BY FileRanges
  <2>2. /\ e.value \in SF!Values /\ e.until \in Int /\ held[k][e.value] \in Int
        /\ secretTime <= e.until /\ secretTime \in Nat /\ TTL \in Nat
    BY <1>2, <2>1, FileRanges DEF SF!Valid
  <2>3. Says(k, e.value, e.until - TTL)
    BY <1>2, <2>1 DEF SFInv, Entry
  <2>. QED
    BY <2>1, <2>2, <2>3 DEF Says
<1>. QED
  BY <1>1, <1>2 DEF SF!BoundedStaleness

-----------------------------------------------------------------------------
(* Updates: what is saved is the version from before the latest            *)
(* apply_update.                                                           *)

UPInv ==
  /\ UP!TypeOK
  /\ applies > 0 \/ saved.version # UP!Nothing => saved.version = before

LEMMA SavedIs ==
  ASSUME NEW v, NEW h
  PROVE  [version |-> v, hash |-> h].version = v /\ [version |-> v, hash |-> h].hash = h
OBVIOUS

LEMMA UPInit == UP!Init => UPInv
<1>. SUFFICES ASSUME UP!Init PROVE UPInv
  OBVIOUS
<1>1. saved.version = UP!Nothing /\ saved.hash = UP!Nothing
  BY SavedIs DEF UP!Init
<1>2. /\ remote \in BOOLEAN /\ rollbackEnabled \in BOOLEAN /\ failNext \in BOOLEAN
      /\ applied \in BOOLEAN /\ refused \in BOOLEAN
  BY Zenon DEF UP!Init
<1>3. 0 \in 0..MaxApplies /\ UP!Nothing = 0
  BY BoundsAre DEF UP!Nothing
<1>4. /\ releases \in [Channels -> UP!Versions \union {UP!Nothing}]
      /\ release \in [Apps -> UP!Versions \union {UP!Nothing}]
      /\ artifact \in [Apps -> UP!Versions \union {UP!Nothing}]
      /\ hash \in UP!Versions \union {UP!Nothing}
  BY DEF UP!Init
<1>5. current \in Nat /\ applies \in 0..MaxApplies /\ before \in Nat /\ ~(applies > 0)
  BY <1>3 DEF UP!Init
<1>7. saved.version \in Nat /\ saved.hash \in UP!Versions \union {UP!Nothing}
  BY <1>1, <1>3
<1>6. UP!TypeOK
  BY <1>7, <1>2, <1>3, <1>4, <1>5 DEF UP!TypeOK
<1>. QED
  BY <1>1, <1>5, <1>6 DEF UPInv

LEMMA UPStep ==
  ASSUME UPInv, UP!Next \/ UNCHANGED UPvars
  PROVE  UPInv' /\ (current' # current => applies' # applies \/ current' = before)
<1>0. /\ \A c \in Apps : release[c] \in UP!Versions \cup {UP!Nothing} /\ artifact[c] \in UP!Versions \cup {UP!Nothing}
      /\ \A v \in UP!Versions : v \in Nat
      /\ current \in Nat /\ applies \in Nat
  BY BoundsAre DEF UPInv, UP!TypeOK, UP!Versions, UP!Nothing
<1>1. CASE UNCHANGED UPvars
  BY <1>1 DEF UPvars, UPInv, UP!TypeOK
<1>2. CASE UP!FailNextApply
  BY <1>2 DEF UP!FailNextApply, UP!state, UPInv, UP!TypeOK
<1>3. CASE UP!Rollback
  <2>1. /\ current' = current \/ current' = saved.version
        /\ refused' \in BOOLEAN /\ saved.version # UP!Nothing
        /\ UNCHANGED <<remote, rollbackEnabled, releases, hash, saved, failNext, release, artifact,
                       applies, before, applied>>
    BY <1>3 DEF UP!Rollback, UPInv, UP!TypeOK
  <2>2. current' \in Nat
    BY <2>1 DEF UPInv, UP!TypeOK
  <2>. QED
    BY <2>1, <2>2 DEF UPInv, UP!TypeOK
<1>4. ASSUME NEW ch \in Channels, NEW v \in UP!Versions, UP!AddRelease(ch, v)
      PROVE  UPInv' /\ current' = current
  BY <1>4 DEF UP!AddRelease, UP!state, UPInv, UP!TypeOK
<1>5. ASSUME NEW c \in Apps, UP!Download(c) \/ \E bytes \in UP!Versions : UP!HttpDownload(c, bytes)
      PROVE  UPInv' /\ current' = current
  <2>1. /\ artifact' = [artifact EXCEPT ![c] = release[c]]
        /\ UNCHANGED <<remote, rollbackEnabled, releases, failNext, release, UP!state>>
    BY <1>5 DEF UP!Download, UP!HttpDownload
  <2>. QED
    BY <1>0, <2>1 DEF UP!state, UPInv, UP!TypeOK
<1>6. ASSUME NEW c \in Apps, NEW ch \in Channels, UP!Check(c, ch) \/ UP!HttpCheck(c, ch)
      PROVE  UPInv' /\ current' = current
  <2>1. UP!Newer(ch) \in UP!Versions \cup {UP!Nothing}
    BY DEF UP!Newer, UPInv, UP!TypeOK
  <2>2. /\ \E v \in UP!Versions \cup {UP!Nothing} : release' = [release EXCEPT ![c] = v]
        /\ UNCHANGED <<remote, rollbackEnabled, releases, failNext, artifact, UP!state>>
    BY <1>6, <2>1 DEF UP!Check, UP!HttpCheck
  <2>. QED
    BY <2>2 DEF UP!state, UPInv, UP!TypeOK
<1>7. ASSUME NEW c \in Apps, UP!Apply(c)
      PROVE  UPInv' /\ applies' # applies
  <2>1. /\ applies' = applies + 1 /\ applies < MaxApplies /\ before' = current
        /\ applied' \in BOOLEAN /\ refused' = FALSE /\ failNext' = FALSE
        /\ artifact[c] \in UP!Versions
        /\ UNCHANGED <<remote, rollbackEnabled, releases, release, artifact>>
    BY <1>0, <1>7 DEF UP!Apply, UPInv, UP!TypeOK
  <2>2. UP!NewVersion(artifact[c]) \in Nat
    BY <1>0, <2>1 DEF UP!NewVersion
  <2>3. current' \in Nat /\ hash' \in UP!Versions \cup {UP!Nothing}
    BY <1>7, <2>1, <2>2 DEF UP!Apply, UPInv, UP!TypeOK
  <2>4. saved'.version = current /\ saved'.hash \in UP!Versions \cup {UP!Nothing}
    <3>1. saved' = [version |-> current, hash |-> IF hash = UP!Nothing THEN artifact[c] ELSE hash]
      BY <1>7 DEF UP!Apply, UP!Save
    <3>2. (IF hash = UP!Nothing THEN artifact[c] ELSE hash) \in UP!Versions \cup {UP!Nothing}
      BY <2>1 DEF UPInv, UP!TypeOK
    <3>. QED
      BY <3>1, <3>2, SavedIs
  <2>5. applies' \in 0..MaxApplies /\ applies' # applies
    BY <1>0, <2>1, BoundsAre
  <2>. QED
    BY <1>0, <2>1, <2>3, <2>4, <2>5 DEF UPInv, UP!TypeOK
<1>. QED
  BY <1>1, <1>2, <1>3, <1>4, <1>5, <1>6, <1>7 DEF UP!Next, UPInv, UP!state, UP!FailNextApply, UPvars

-----------------------------------------------------------------------------
(* ObjectStore: while the latest content is known nobody writes, the store *)
(* keeps it, and who expects a content expects that one.  An upload that   *)
(* is alone is the only writer, and has the file it opened.                *)

Objects == OS!Contents \union {OS!NoObject, OS!Empty, OS!Torn}
ReplyKinds == {"none", "ok", "yes", "no", "content", "validation", "permanent", "transient", "raw"}
Answers == [is : ReplyKinds, content : 0..OS!Unknown]

OSTyped ==
  /\ backend \in OS!Backends
  /\ object \in Objects
  /\ clients \in Nat
  /\ op \in [Callers -> OS!Steps]
  /\ ready \in [Callers -> BOOLEAN] /\ file \in [Callers -> BOOLEAN]
  /\ data \in [Callers -> OS!Contents \union {OS!NoObject}]
  /\ answer \in [Callers -> Answers]
  /\ uploads \in 0..MaxUploads /\ others \in 0..MaxCalls
  /\ alone \in [Callers -> BOOLEAN]
  /\ latest \in OS!Contents \union {OS!Unknown}
  /\ expected \in [Callers -> OS!Contents \union {OS!Unknown}]

Latest ==
  latest # OS!Unknown => latest \in OS!Contents /\ object = latest /\ \A c \in Callers : op[c] \notin OS!Writers

Reader(c) ==
  expected[c] # OS!Unknown =>
    /\ expected[c] = latest /\ op[c] \notin OS!Writers
    /\ answer[c].is = "content" => answer[c].content = expected[c]
    /\ answer[c].is # "validation"

Writer(c) ==
  /\ op[c] \in {"upload", "write"} => data[c] \in OS!Contents
  /\ (op[c] \in OS!Writers /\ alone[c]) => \A d \in Callers : d # c => op[d] \notin OS!Writers
  /\ (op[c] = "write" /\ alone[c]) => file[c] /\ object = OS!Empty

OSInv ==
  /\ OSTyped
  /\ Latest
  /\ \A c \in Callers : Reader(c) /\ Writer(c)

LEMMA ContentsAre ==
  /\ OS!Unknown \notin OS!Contents /\ OS!NoObject \notin OS!Contents /\ OS!NoObject # OS!Unknown
  /\ \A n \in Objects \union OS!Contents : n \in 0..OS!Unknown
  /\ 0 \in 0..OS!Unknown
  /\ OS!Empty \notin OS!Contents /\ OS!NoObject = 0
BY BoundsAre DEF OS!Contents, OS!Unknown, OS!NoObject, OS!Empty, OS!Torn, Objects

LEMMA ReplyIs ==
  ASSUME NEW k \in ReplyKinds, NEW n \in 0..OS!Unknown
  PROVE  OS!Says(k, n) \in Answers /\ OS!Says(k, n).is = k /\ OS!Says(k, n).content = n
BY DEF OS!Says, Answers

LEMMA OSInit == OS!Init => OSInv
<1>. SUFFICES ASSUME OS!Init PROVE OSInv
  OBVIOUS
<1>1. OS!Says("none", 0) \in Answers
  BY ReplyIs, ContentsAre DEF ReplyKinds
<1>2. 0 \in 0..MaxUploads /\ 0 \in 0..MaxCalls /\ "idle" \in OS!Steps /\ "idle" \notin OS!Writers
  BY BoundsAre DEF OS!Steps, OS!Writers
<1>3. OSTyped
  BY <1>1, <1>2 DEF OS!Init, OSTyped, Objects
<1>. QED
  BY <1>2, <1>3 DEF OS!Init, OSInv, Latest, Reader, Writer

\* How a call ends: a reader finds what is there and changes nothing, and an
\* upload that succeeds has put its content there, unless it writes a file
\* that another call has written or unlinked.
Ends(c, result) ==
  /\ OS!End(c, result)
  /\ op[c] # "idle" /\ object' \in Objects /\ file' \in [Callers -> BOOLEAN]
  /\ op[c] \notin OS!Writers =>
       /\ UNCHANGED <<object, file>>
       /\ result.is = "content" => result.content = object
       /\ result.is = "validation" => object = OS!NoObject
  /\ (op[c] = "upload" /\ result.is = "ok") => object' = data[c]
  /\ (op[c] = "write" /\ result.is = "ok" /\ file[c] /\ object = OS!Empty) => object' = data[c]

LEMMA EndsKeeps ==
  ASSUME OSInv, NEW c \in Callers, NEW result \in Answers, Ends(c, result)
  PROVE  OSInv'
<1>1. /\ op' = [op EXCEPT ![c] = "idle"]
      /\ answer' = [answer EXCEPT ![c] = result]
      /\ latest' = IF op[c] \in {"upload", "write"} /\ result.is = "ok" /\ alone[c] THEN data[c] ELSE latest
      /\ UNCHANGED <<backend, clients, ready, data, uploads, others, alone, expected>>
  BY DEF Ends, OS!End
<1>2. /\ op'[c] = "idle" /\ answer'[c] = result
      /\ \A d \in Callers : d # c => op'[d] = op[d] /\ answer'[d] = answer[d]
      /\ "idle" \in OS!Steps /\ "idle" \notin OS!Writers
  BY <1>1 DEF OSInv, OSTyped, OS!Steps, OS!Writers
<1>3. latest' \in OS!Contents \union {OS!Unknown}
  BY <1>1 DEF OSInv, OSTyped, Writer
<1>4. OSTyped'
  BY <1>1, <1>2, <1>3 DEF Ends, OSInv, OSTyped
<1>5. CASE op[c] \notin OS!Writers
  <2>1. UNCHANGED <<object, file, latest>>
    BY <1>1, <1>5 DEF Ends, OS!Writers
  <2>2. Latest'
    BY <1>2, <2>1 DEF OSInv, Latest
  <2>3. \A d \in Callers : Writer(d)'
    BY <1>1, <1>2, <2>1 DEF OSInv, Writer, OS!Writers
  <2>4. ASSUME NEW d \in Callers PROVE Reader(d)'
    <3>1. CASE d # c
      BY <3>1, <1>1, <1>2, <2>1 DEF OSInv, Reader
    <3>2. CASE d = c
      BY <3>2, <1>1, <1>2, <1>5, <2>1, ContentsAre DEF OSInv, Reader, Latest, Ends
    <3>. QED
      BY <3>1, <3>2
  <2>. QED
    BY <1>4, <2>2, <2>3, <2>4 DEF OSInv
<1>6. CASE op[c] \in OS!Writers
  <2>1. latest = OS!Unknown /\ \A d \in Callers : expected[d] = OS!Unknown
    BY <1>6 DEF OSInv, Latest, Reader
  <2>2. \A d \in Callers : Reader(d)'
    BY <1>1, <2>1 DEF Reader
  <2>3. latest' # OS!Unknown => latest' \in OS!Contents /\ object' = latest' /\ alone[c]
    BY <1>1, <2>1 DEF OSInv, Writer, Ends, OS!Writers
  <2>4. Latest'
    BY <1>2, <1>6, <2>3 DEF OSInv, Writer, Latest
  <2>5. ASSUME NEW d \in Callers PROVE Writer(d)'
    <3>1. CASE d = c
      BY <3>1, <1>2 DEF Writer, OS!Writers
    <3>2. CASE d # c
      <4>1. ~(op[d] \in OS!Writers /\ alone[d])
        BY <3>2, <1>6 DEF OSInv, Writer
      <4>. QED
        BY <3>2, <4>1, <1>1, <1>2 DEF OSInv, Writer, OS!Writers
    <3>. QED
      BY <3>1, <3>2
  <2>. QED
    BY <1>4, <2>2, <2>4, <2>5 DEF OSInv
<1>. QED
  BY <1>5, <1>6

LEMMA ReadEnds ==
  ASSUME OSInv, NEW c \in Callers, NEW k \in ReplyKinds, NEW n \in 0..OS!Unknown,
         OS!End(c, OS!Says(k, n)), op[c] \in OS!Reads \union {"read"}, UNCHANGED <<object, file>>,
         k = "content" => n = object, k = "validation" => object = OS!NoObject
  PROVE  \E result \in Answers : Ends(c, result)
<1>1. op[c] # "idle" /\ op[c] \notin OS!Writers /\ op[c] # "upload" /\ op[c] # "write"
  BY DEF OS!Reads, OS!Writers
<1>2. object' \in Objects /\ file' \in [Callers -> BOOLEAN]
  BY DEF OSInv, OSTyped
<1>. QED
  BY <1>1, <1>2, ReplyIs DEF Ends

LEMMA WriteEnds ==
  ASSUME OSInv, NEW c \in Callers, NEW k \in ReplyKinds, NEW n \in 0..OS!Unknown,
         OS!End(c, OS!Says(k, n)), op[c] \in {"upload", "delete"},
         object' \in Objects, file' \in [Callers -> BOOLEAN],
         op[c] = "upload" /\ k = "ok" => object' = data[c]
  PROVE  \E result \in Answers : Ends(c, result)
<1>1. op[c] # "idle" /\ op[c] \in OS!Writers /\ op[c] # "write"
  BY DEF OS!Writers
<1>. QED
  BY <1>1, ReplyIs DEF Ends

\* What all requests have in common.
LEMMA ObjectRanges ==
  ASSUME OSInv, NEW c \in Callers
  PROVE  /\ 0 \in 0..OS!Unknown /\ object \in 0..OS!Unknown
         /\ object \in Objects /\ data[c] \in Objects /\ OS!NoObject \in Objects
         /\ OS!Empty \in Objects /\ OS!Torn \in Objects
         /\ file \in [Callers -> BOOLEAN]
BY ContentsAre DEF OSInv, OSTyped, Objects

LEMMA UploadEnds ==
  ASSUME OSInv, NEW c \in Callers, op[c] = "upload", UNCHANGED file,
         OS!S3Upload(c) \/ OS!GcsUpload(c) \/ OS!AzureUpload(c)
  PROVE  \E result \in Answers : Ends(c, result)
<1>1. PICK k \in ReplyKinds, n \in 0..OS!Unknown :
        /\ OS!End(c, OS!Says(k, n)) /\ object' \in {object, data[c]}
        /\ k = "ok" => object' = data[c]
  BY ObjectRanges, Zenon DEF OS!S3Upload, OS!GcsUpload, OS!AzureUpload, OS!PutObject, OS!Refused, OS!Sorted, OS!S3Permanent, OS!GcsPermanent, OS!AzurePermanent, ReplyKinds
<1>. QED
  BY <1>1, ObjectRanges, WriteEnds

LEMMA DeleteEnds ==
  ASSUME OSInv, NEW c \in Callers, op[c] = "delete", UNCHANGED file,
         OS!S3Delete(c) \/ OS!GcsDelete(c) \/ OS!AzureDelete(c)
  PROVE  \E result \in Answers : Ends(c, result)
<1>1. OS!End(c, OS!Says("ok", 0)) /\ object' \in {object, OS!NoObject}
  BY DEF OS!S3Delete, OS!GcsDelete, OS!AzureDelete
<1>. QED
  BY <1>1, ObjectRanges, WriteEnds DEF ReplyKinds

LEMMA DownloadEnds ==
  ASSUME OSInv, NEW c \in Callers, op[c] = "download", UNCHANGED <<object, file>>,
         OS!S3Download(c) \/ OS!GcsDownload(c) \/ OS!AzureDownload(c)
  PROVE  \E result \in Answers : Ends(c, result)
<1>1. PICK k \in ReplyKinds, n \in 0..OS!Unknown :
        /\ OS!End(c, OS!Says(k, n)) /\ k # "validation"
        /\ k = "content" => n = object
  BY ObjectRanges, Zenon DEF OS!S3Download, OS!GcsDownload, OS!AzureDownload, OS!Fetch, OS!Refused, OS!Sorted, OS!S3Permanent, OS!GcsPermanent, OS!AzurePermanent, ReplyKinds
<1>. QED
  BY <1>1, ReadEnds DEF OS!Reads

LEMMA QueryEnds ==
  ASSUME OSInv, NEW c \in Callers, op[c] \in {"exists", "sign", "list"}, UNCHANGED <<object, file>>,
         \/ OS!S3Exists(c) \/ OS!GcsExists(c) \/ OS!AzureExists(c)
         \/ OS!S3Sign(c) \/ OS!GcsSign(c) \/ OS!AzureSign(c)
         \/ OS!S3List(c) \/ OS!GcsList(c) \/ OS!AzureList(c)
  PROVE  \E result \in Answers : Ends(c, result)
<1>1. PICK k \in {"ok", "yes", "no", "raw", "transient", "permanent"} : OS!End(c, OS!Says(k, 0))
  BY DEF OS!S3Exists, OS!GcsExists, OS!AzureExists, OS!S3Sign, OS!GcsSign, OS!AzureSign,
         OS!S3List, OS!GcsList, OS!AzureList, OS!Look, OS!Sign, OS!Refused, OS!Sorted, OS!S3Permanent, OS!GcsPermanent, OS!AzurePermanent
<1>2. k \in ReplyKinds /\ k # "content" /\ k # "validation" /\ op[c] \in OS!Reads \union {"read"} /\ 0 \in 0..OS!Unknown
  BY ContentsAre DEF ReplyKinds, OS!Reads
<1>. QED
  BY <1>1, <1>2, ReadEnds

LEMMA RequestEnds ==
  ASSUME OSInv, NEW c \in Callers, OS!Request(c)
  PROVE  \E result \in Answers : Ends(c, result)
<1>. UNCHANGED file
  BY DEF OS!Request
<1>1. CASE op[c] = "upload"
  BY <1>1, UploadEnds DEF OS!Request
<1>2. CASE op[c] = "delete"
  BY <1>2, DeleteEnds DEF OS!Request
<1>3. CASE op[c] = "download"
  BY <1>3, DownloadEnds DEF OS!Request
<1>4. CASE op[c] \in {"exists", "sign", "list"}
  BY <1>4, QueryEnds DEF OS!Request
<1>. QED
  BY <1>1, <1>2, <1>3, <1>4 DEF OS!Request

LEMMA MemoryEnds ==
  ASSUME OSInv, NEW c \in Callers, OS!Memory(c)
  PROVE  \E result \in Answers : Ends(c, result)
<1>1. CASE OS!MemoryUpload(c) \/ OS!MemoryDelete(c)
  <2>1. UNCHANGED file
    BY DEF OS!Memory
  <2>. QED
    BY <1>1, <2>1, ObjectRanges, WriteEnds DEF OS!MemoryUpload, OS!MemoryDelete, ReplyKinds
<1>2. CASE /\ UNCHANGED object
           /\ OS!MemoryDownload(c) \/ OS!MemoryExists(c) \/ OS!MemorySign(c) \/ OS!MemoryList(c)
  <2>1. UNCHANGED <<object, file>>
    BY <1>2 DEF OS!Memory
  <2>2. op[c] \in OS!Reads \union {"read"}
    BY <1>2 DEF OS!MemoryDownload, OS!MemoryExists, OS!MemorySign, OS!MemoryList, OS!Reads
  <2>3. PICK k \in ReplyKinds, n \in 0..OS!Unknown :
          /\ OS!End(c, OS!Says(k, n))
          /\ k = "content" => n = object
          /\ k = "validation" => object = OS!NoObject
    BY <1>2, ObjectRanges, Zenon DEF OS!MemoryDownload, OS!MemoryExists, OS!MemorySign, OS!MemoryList, OS!Found, OS!Missing, ReplyKinds
  <2>. QED
    BY <2>1, <2>2, <2>3, ReadEnds
<1>. QED
  BY <1>1, <1>2 DEF OS!Memory

\* The two steps of the file system that do not end a call.
Opens(c) ==
  /\ op[c] = "upload" /\ object' = OS!Empty
  /\ file' = [file EXCEPT ![c] = TRUE]
  /\ op' = [op EXCEPT ![c] = "write"]
  /\ UNCHANGED <<backend, clients, ready, data, answer, uploads, others, alone, latest, expected>>

Checks(c) ==
  /\ op[c] = "download"
  /\ op' = [op EXCEPT ![c] = "read"]
  /\ UNCHANGED <<object, file, backend, clients, ready, data, answer, uploads, others, alone, latest, expected>>

LEMMA LocalEnds ==
  ASSUME OSInv, NEW c \in Callers, OS!Local(c)
  PROVE  Opens(c) \/ Checks(c) \/ \E result \in Answers : Ends(c, result)
<1>1. CASE OS!LocalOpen(c)
  <2>1. CASE UNCHANGED <<object, file>> /\ OS!End(c, OS!Says("permanent", 0))
    BY <1>1, <2>1, ObjectRanges, WriteEnds DEF OS!LocalOpen, ReplyKinds
  <2>. QED
    BY <1>1, <2>1 DEF OS!LocalOpen, Opens, OS!history
<1>2. CASE OS!LocalWrite(c)
  <2>1. PICK k \in {"ok", "permanent"} :
          /\ OS!End(c, OS!Says(k, 0)) /\ object' \in {object, data[c], OS!Torn}
          /\ (k = "ok" /\ file[c] /\ object = OS!Empty) => object' = data[c]
    BY <1>2, Zenon DEF OS!LocalWrite
  <2>2. OS!Says(k, 0) \in Answers /\ OS!Says(k, 0).is = k
    BY <2>1, ReplyIs, ContentsAre DEF ReplyKinds
  <2>3. object' \in Objects
    BY <2>1, ObjectRanges
  <2>4. file' \in [Callers -> BOOLEAN] /\ op[c] = "write"
    BY <1>2, ObjectRanges DEF OS!LocalWrite
  <2>5. Ends(c, OS!Says(k, 0))
    BY <2>1, <2>2, <2>3, <2>4 DEF Ends, OS!Writers
  <2>. QED
    BY <2>2, <2>5
<1>3. CASE OS!LocalDownload(c)
  <2>1. CASE op[c] = "download" /\ OS!Missing(c, "validation")
    BY <1>3, <2>1, ObjectRanges, ReadEnds DEF OS!LocalDownload, OS!Missing, OS!Reads, ReplyKinds
  <2>2. CASE op[c] = "read" /\ OS!Found(c, "content")
    BY <1>3, <2>2, ObjectRanges, ReadEnds DEF OS!LocalDownload, OS!Found, OS!Reads, ReplyKinds
  <2>3. CASE op[c] = "read" /\ OS!End(c, OS!Says("permanent", 0))
    BY <1>3, <2>3, ObjectRanges, ReadEnds DEF OS!LocalDownload, OS!Reads, ReplyKinds
  <2>. QED
    BY <1>3, <2>1, <2>2, <2>3 DEF OS!LocalDownload, Checks, OS!history
<1>4. CASE OS!LocalDelete(c)
  <2>1. op[c] = "delete" /\ OS!End(c, OS!Says("ok", 0)) /\ object' \in {object, OS!NoObject}
    BY <1>4 DEF OS!LocalDelete
  <2>2. file' \in [Callers -> BOOLEAN]
    BY <1>4, ObjectRanges DEF OS!LocalDelete
  <2>. QED
    BY <2>1, <2>2, ObjectRanges, WriteEnds DEF ReplyKinds
<1>5. CASE /\ UNCHANGED <<object, file>>
           /\ OS!LocalExists(c) \/ OS!LocalSign(c) \/ OS!LocalList(c)
  <2>1. op[c] \in OS!Reads \union {"read"}
    BY <1>5 DEF OS!LocalExists, OS!LocalSign, OS!LocalList, OS!Reads
  <2>2. PICK k \in ReplyKinds, n \in 0..OS!Unknown :
          /\ OS!End(c, OS!Says(k, n))
          /\ k # "content"
          /\ k = "validation" => object = OS!NoObject
    BY <1>5, ObjectRanges, Zenon DEF OS!LocalExists, OS!LocalSign, OS!LocalList, OS!Found, OS!Missing, ReplyKinds
  <2>. QED
    BY <1>5, <2>1, <2>2, ReadEnds
<1>. QED
  BY <1>1, <1>2, <1>3, <1>4, <1>5 DEF OS!Local

LEMMA OpensKeeps == ASSUME OSInv, NEW c \in Callers, Opens(c) \/ Checks(c) PROVE OSInv'
<1>1. CASE Opens(c)
  <2>1. /\ op'[c] = "write" /\ file'[c] /\ \A d \in Callers : d # c => op'[d] = op[d] /\ file'[d] = file[d]
        /\ op[c] = "upload" /\ op[c] \in OS!Writers /\ "write" \in OS!Writers
    BY <1>1 DEF Opens, OSInv, OSTyped, OS!Writers
  <2>2. OSTyped'
    BY <1>1, ObjectRanges DEF Opens, OSInv, OSTyped, OS!Steps, OS!Writers
  <2>3. latest' = OS!Unknown /\ \A d \in Callers : expected'[d] = OS!Unknown
    BY <1>1, <2>1 DEF Opens, OSInv, Latest, Reader
  <2>4. ASSUME NEW d \in Callers PROVE Writer(d)'
    <3>1. CASE d = c
      BY <3>1, <1>1, <2>1 DEF Opens, OSInv, Writer
    <3>2. CASE d # c
      <4>1. ~(op[d] \in OS!Writers /\ alone[d])
        BY <3>2, <2>1 DEF OSInv, Writer
      <4>. QED
        BY <3>2, <4>1, <1>1, <2>1 DEF Opens, OSInv, Writer, OS!Writers
    <3>. QED
      BY <3>1, <3>2
  <2>. QED
    BY <2>2, <2>3, <2>4 DEF OSInv, Latest, Reader
<1>2. CASE Checks(c)
  <2>1. /\ op'[c] = "read" /\ \A d \in Callers : d # c => op'[d] = op[d]
        /\ op[c] \notin OS!Writers /\ "read" \notin OS!Writers
    BY <1>2 DEF Checks, OSInv, OSTyped, OS!Writers
  <2>2. OSTyped'
    BY <1>2 DEF Checks, OSInv, OSTyped, OS!Steps
  <2>. QED
    BY <1>2, <2>1, <2>2 DEF Checks, OSInv, Latest, Reader, Writer, OS!Writers
<1>. QED
  BY <1>1, <1>2

\* The beginning of a call.
LEMMA BeginsKeeps ==
  ASSUME OSInv, NEW c \in Callers,
         OS!BeginUpload(c) \/ OS!BeginDelete(c) \/ \E what \in OS!Reads : OS!BeginRead(c, what)
  PROVE  OSInv'
<1>1. PICK what \in OS!Reads \union OS!Writers : OS!Begin(c, what)
  BY DEF OS!BeginUpload, OS!BeginDelete, OS!BeginRead, OS!Writers
<1>2. /\ op'[c] = what /\ \A d \in Callers : d # c => op'[d] = op[d]
      /\ answer'[c].is = "none" /\ \A d \in Callers : d # c => answer'[d] = answer[d]
      /\ op[c] = "idle" /\ op[c] \notin OS!Writers
      /\ op' \in [Callers -> OS!Steps] /\ answer' \in [Callers -> Answers] /\ ready' \in [Callers -> BOOLEAN]
      /\ UNCHANGED <<backend, object, clients, file>>
  <2>1. OS!Says("none", 0) \in Answers /\ OS!Says("none", 0).is = "none"
    BY ReplyIs, ContentsAre DEF ReplyKinds
  <2>2. (backend # "s3" \/ clients > 0) \in BOOLEAN /\ what \in OS!Steps /\ "idle" \notin OS!Writers
    BY DEF OS!Steps, OS!Writers
  <2>. QED
    BY <1>1, <2>1, <2>2 DEF OS!Begin, OSInv, OSTyped
<1>3. CASE OS!BeginUpload(c) \/ OS!BeginDelete(c)
  <2>1. /\ alone' = [d \in Callers |-> IF d = c THEN OS!Writing = {} ELSE FALSE]
        /\ latest' = OS!Unknown /\ expected' = [d \in Callers |-> OS!Unknown]
    BY <1>3 DEF OS!BeginUpload, OS!BeginDelete, OS!BeginWriter
  <2>2. /\ data' \in [Callers -> OS!Contents \union {OS!NoObject}]
        /\ uploads' \in 0..MaxUploads /\ others' \in 0..MaxCalls
        /\ \A d \in Callers : d # c => data'[d] = data[d]
        /\ op'[c] \in {"upload", "write"} => data'[c] \in OS!Contents
    <3>1. CASE OS!BeginUpload(c)
      <4>1. uploads + 1 \in OS!Contents /\ uploads + 1 \in 0..MaxUploads
        BY <3>1, BoundsAre DEF OS!BeginUpload, OSInv, OSTyped, OS!Contents
      <4>. QED
        BY <3>1, <4>1 DEF OS!BeginUpload, OSInv, OSTyped
    <3>2. CASE OS!BeginDelete(c)
      <4>1. others + 1 \in 0..MaxCalls /\ op'[c] = "delete"
        BY <3>2, <1>2, BoundsAre DEF OS!BeginDelete, OS!Begin, OSInv, OSTyped
      <4>. QED
        BY <3>2, <4>1 DEF OS!BeginDelete, OSInv, OSTyped
    <3>. QED
      BY <1>3, <3>1, <3>2
  <2>3. alone' \in [Callers -> BOOLEAN]
    BY <2>1, Zenon
  <2>4. OSTyped'
    BY <1>2, <2>1, <2>2, <2>3 DEF OSInv, OSTyped
  <2>5. ASSUME NEW d \in Callers PROVE Writer(d)'
    <3>1. CASE d = c
      <4>1. alone'[c] => \A e \in Callers : op[e] \notin OS!Writers
        BY <2>1 DEF OS!Writing
      <4>2. what # "write"
        BY <1>2, <1>3 DEF OS!BeginUpload, OS!BeginDelete, OS!Begin, OSInv, OSTyped
      <4>. QED
        BY <3>1, <4>1, <4>2, <1>2, <2>2 DEF Writer
    <3>2. CASE d # c
      BY <3>2, <1>2, <2>1, <2>2 DEF OSInv, Writer
    <3>. QED
      BY <3>1, <3>2
  <2>. QED
    BY <2>1, <2>4, <2>5 DEF OSInv, Latest, Reader
<1>4. CASE \E w \in OS!Reads : OS!BeginRead(c, w)
  <2>1. /\ expected' = [expected EXCEPT ![c] = latest]
        /\ others < MaxCalls /\ others' = others + 1
        /\ UNCHANGED <<data, uploads, alone, latest>>
        /\ op'[c] \in OS!Reads
    BY <1>2, <1>4 DEF OS!BeginRead, OS!Begin, OSInv, OSTyped
  <2>2. others' \in 0..MaxCalls
    BY <2>1, BoundsAre DEF OSInv, OSTyped
  <2>3. expected'[c] = latest /\ \A d \in Callers : d # c => expected'[d] = expected[d]
    BY <2>1 DEF OSInv, OSTyped
  <2>4. OSTyped'
    BY <1>2, <2>1, <2>2 DEF OSInv, OSTyped
  <2>5. op'[c] \notin OS!Writers
    BY <2>1 DEF OS!Reads, OS!Writers
  <2>6. Latest'
    BY <1>2, <2>1, <2>5 DEF OSInv, Latest
  <2>7. ASSUME NEW d \in Callers PROVE Reader(d)' /\ Writer(d)'
    <3>1. Reader(d)'
      BY <1>2, <2>1, <2>3, <2>5 DEF OSInv, Reader
    <3>2. Writer(d)'
      BY <1>2, <2>1, <2>5 DEF OSInv, Writer, OS!Writers
    <3>. QED
      BY <3>1, <3>2
  <2>. QED
    BY <2>4, <2>6, <2>7 DEF OSInv
<1>. QED
  BY <1>3, <1>4

LEMMA OSStep == ASSUME OSInv, OS!Next \/ UNCHANGED OSvars PROVE OSInv'
<1>1. CASE UNCHANGED OSvars
  BY <1>1 DEF OSvars, OSInv, OSTyped, Latest, Reader, Writer
<1>2. ASSUME NEW c \in Callers, OS!GetClient(c) PROVE OSInv'
  <2>1. /\ clients' \in Nat
        /\ ready' \in [Callers -> BOOLEAN]
        /\ UNCHANGED <<backend, object, op, file, data, answer, uploads, others, alone, latest, expected>>
    BY <1>2 DEF OS!GetClient, OS!history, OSInv, OSTyped
  <2>2. OSTyped'
    BY <2>1 DEF OSInv, OSTyped
  <2>. QED
    BY <2>1, <2>2 DEF OSInv, Latest, Reader, Writer
<1>3. ASSUME NEW c \in Callers, OS!GetClientFails(c) PROVE OSInv'
  <2>1. OS!Says("raw", 0) \in Answers /\ OS!Says("raw", 0).is = "raw"
    BY ReplyIs, ContentsAre DEF ReplyKinds
  <2>2. Ends(c, OS!Says("raw", 0))
    BY <1>3, <2>1, ObjectRanges DEF OS!GetClientFails, Ends
  <2>. QED
    BY <2>1, <2>2, EndsKeeps
<1>4. ASSUME NEW c \in Callers, OS!Request(c) \/ OS!Memory(c) \/ OS!Local(c) PROVE OSInv'
  BY <1>4, RequestEnds, MemoryEnds, LocalEnds, EndsKeeps, OpensKeeps
<1>. QED
  BY <1>1, <1>2, <1>3, <1>4, BeginsKeeps DEF OS!Next

LEMMA OSKeeps == OSInv => OS!UploadedIsServed
BY DEF OSInv, Reader, OS!UploadedIsServed

\* Every call makes one client at most, so that their number is bounded.
Pending == {c \in Callers : op[c] # "idle" /\ ~ready[c]}

OSCount == IsFiniteSet(Pending) /\ clients + Cardinality(Pending) <= uploads + others

LEMMA FewerPending ==
  ASSUME OSInv, OSCount, Pending' \subseteq Pending, UNCHANGED <<clients, uploads, others>>
  PROVE  OSCount'
<1>1. PICK P \in SUBSET Pending : P = Pending'
  OBVIOUS
<1>2. IsFiniteSet(P) /\ Cardinality(P) <= Cardinality(Pending) /\ Cardinality(P) \in Nat /\ Cardinality(Pending) \in Nat
  BY FS_Subset, FS_CardinalityType DEF OSCount
<1>3. Cardinality(Pending)' = Cardinality(P) /\ IsFiniteSet(Pending)'
  BY <1>1, <1>2
<1>4. clients \in Nat /\ uploads \in Nat /\ others \in Nat
  BY DEF OSInv, OSTyped
<1>. QED
  BY <1>2, <1>3, <1>4 DEF OSCount

LEMMA OSCountStep ==
  ASSUME OSInv, OSCount, OS!Next \/ UNCHANGED OSvars
  PROVE  OSCount'
<1>0. clients \in Nat /\ uploads \in Nat /\ others \in Nat /\ Cardinality(Pending) \in Nat
  BY FS_CardinalityType DEF OSInv, OSTyped, OSCount
<1>1. CASE UNCHANGED OSvars
  BY <1>1, FewerPending DEF OSvars, Pending
<1>2. ASSUME NEW c \in Callers,
             OS!BeginUpload(c) \/ OS!BeginDelete(c) \/ \E what \in OS!Reads : OS!BeginRead(c, what)
      PROVE  OSCount'
  <2>1. clients' = clients /\ uploads' + others' = uploads + others + 1
    BY <1>0, <1>2 DEF OS!BeginUpload, OS!BeginDelete, OS!BeginRead, OS!Begin
  <2>2. \A d \in Callers : d # c => op'[d] = op[d] /\ ready'[d] = ready[d]
    BY <1>2 DEF OS!BeginUpload, OS!BeginDelete, OS!BeginRead, OS!Begin, OSInv, OSTyped
  <2>3. PICK P \in SUBSET (Pending \union {c}) : P = Pending'
    BY <2>2 DEF Pending
  <2>4. /\ IsFiniteSet(Pending \union {c})
        /\ Cardinality(Pending \union {c}) \in Nat /\ Cardinality(Pending \union {c}) <= Cardinality(Pending) + 1
    <3>1. IsFiniteSet(Pending)
      BY DEF OSCount
    <3>2. /\ IsFiniteSet(Pending \union {c})
          /\ Cardinality(Pending \union {c}) = IF c \in Pending THEN Cardinality(Pending) ELSE Cardinality(Pending) + 1
      BY <3>1, FS_AddElement
    <3>. QED
      BY <1>0, <3>2
  <2>5. IsFiniteSet(P) /\ Cardinality(P) <= Cardinality(Pending \union {c}) /\ Cardinality(P) \in Nat
    BY <2>4, FS_Subset, FS_CardinalityType
  <2>6. Cardinality(Pending)' = Cardinality(P) /\ IsFiniteSet(Pending)'
    BY <2>3, <2>5
  <2>. QED
    BY <1>0, <2>1, <2>4, <2>5, <2>6 DEF OSCount
<1>3. ASSUME NEW c \in Callers, OS!GetClient(c) PROVE OSCount'
  <2>1. c \in Pending /\ clients' = clients + 1 /\ UNCHANGED <<uploads, others>>
    BY <1>3 DEF OS!GetClient, Pending
  <2>2. \A d \in Callers : op'[d] = op[d] /\ (d # c => ready'[d] = ready[d]) /\ ready'[c]
    BY <1>3 DEF OS!GetClient, OSInv, OSTyped
  <2>3. PICK P : P = Pending \ {c} /\ P = Pending'
    BY <2>1, <2>2 DEF Pending
  <2>4. IsFiniteSet(P) /\ Cardinality(P) = Cardinality(Pending) - 1
    BY <2>1, <2>3, FS_RemoveElement DEF OSCount
  <2>5. Cardinality(Pending)' = Cardinality(P) /\ IsFiniteSet(Pending)'
    BY <2>3, <2>4
  <2>. QED
    BY <1>0, <2>1, <2>4, <2>5 DEF OSCount
<1>4. ASSUME NEW c \in Callers, OS!GetClientFails(c) \/ OS!Request(c) \/ OS!Memory(c) \/ OS!Local(c)
      PROVE  OSCount'
  <2>1. CASE \E result : OS!End(c, result)
    <3>1. UNCHANGED <<clients, ready, uploads, others>> /\ op' = [op EXCEPT ![c] = "idle"]
      BY <2>1 DEF OS!End
    <3>2. Pending' \subseteq Pending
      BY <3>1 DEF Pending, OSInv, OSTyped
    <3>. QED
      BY <3>1, <3>2, FewerPending
  <2>2. CASE Opens(c) \/ Checks(c)
    <3>1. /\ UNCHANGED <<clients, ready, uploads, others>> /\ op[c] # "idle"
          /\ op' = [op EXCEPT ![c] = "write"] \/ op' = [op EXCEPT ![c] = "read"]
      BY <2>2 DEF Opens, Checks
    <3>2. Pending' \subseteq Pending
      BY <3>1 DEF Pending, OSInv, OSTyped
    <3>. QED
      BY <3>1, <3>2, FewerPending
  <2>3. OS!GetClientFails(c) => \E result : OS!End(c, result)
    BY DEF OS!GetClientFails
  <2>4. (\E result \in Answers : Ends(c, result)) => \E result : OS!End(c, result)
    BY DEF Ends
  <2>. QED
    BY <1>4, <2>1, <2>2, <2>3, <2>4, RequestEnds, MemoryEnds, LocalEnds
<1>. QED
  BY <1>1, <1>2, <1>3, <1>4 DEF OS!Next

LEMMA OSTypes == OSInv /\ OSCount => OS!TypeOK
<1>. SUFFICES ASSUME OSInv, OSCount PROVE OS!TypeOK
  OBVIOUS
<1>1. clients \in 0..(MaxUploads + MaxCalls)
  BY BoundsAre, FS_CardinalityType DEF OSInv, OSTyped, OSCount
<1>. QED
  BY <1>1 DEF OSInv, OSTyped, OS!TypeOK, Objects, Answers, ReplyKinds

LEMMA OSCountInit == OS!Init => OSCount
<1>. SUFFICES ASSUME OS!Init PROVE OSCount
  OBVIOUS
<1>1. Pending = {} /\ clients = 0 /\ uploads = 0 /\ others = 0
  BY DEF OS!Init, Pending
<1>. QED
  BY <1>1, FS_EmptySet DEF OSCount

-----------------------------------------------------------------------------
(* Transactions: the context variable of a task that runs names its        *)
(* innermost transaction, since every token on its stack names the         *)
(* transaction below, unless both have strayed; what is in a session, then, *)
(* is what belongs to its transaction.                                     *)

Sessions == TX!Scopes \union {NoSession}
Frames == [scope : TX!Scopes, token : Sessions]
Repos == [session : TX!Scopes, home : Sessions]

TXTyped ==
  /\ active \in [Tasks -> Sessions]
  /\ stack \in [Tasks -> Seq(Frames)]
  /\ opened \in 0..MaxScopes
  /\ committed \subseteq TX!Scopes
  /\ rolled \subseteq TX!Scopes
  /\ strayed \subseteq Sessions
  /\ repos \subseteq Repos
  /\ work \in [TX!Scopes -> SUBSET TX!Writes]
  /\ durable \subseteq TX!Writes
  /\ wrote \in 0..MaxWrites
  /\ meant \in [TX!Writes -> Sessions]
  /\ born \in [Tasks -> Sessions \union {0}]

\* What is named is what is meant, but among those that strayed.
Agree(named, home) == named = home \/ (named \in strayed /\ home \in strayed)

\* The transaction below the k-th one, or the one the task was created in.
Below(t, k) == IF k = 1 THEN born[t] ELSE stack[t][k - 1].scope

Stacked(t) ==
  /\ stack[t] # <<>> => TX!Runs(t)
  /\ \A k \in DOMAIN stack[t] : Agree(stack[t][k].token, Below(t, k))
  /\ TX!Runs(t) => Agree(active[t], TX!Innermost(t))

Holds(s) == s \notin strayed \union committed \union rolled => work[s] = {w \in TX!Writes : meant[w] = s}

TXInv ==
  /\ TXTyped
  /\ \A t \in Tasks : Stacked(t)
  /\ \A r \in repos : Agree(r.session, r.home)
  /\ \A s \in TX!Scopes : Holds(s) /\ \A w \in work[s] : w <= wrote

LEMMA NoSessionIs == \A s \in TX!Scopes : s # NoSession
<1>1. NoSession \notin Nat
  BY StoresOK, Zenon
<1>2. TX!Scopes \subseteq Nat
  BY BoundsAre DEF TX!Scopes
<1>. QED
  BY <1>1, <1>2

LEMMA TXInit == TX!Init => TXInv
<1>. SUFFICES ASSUME TX!Init PROVE TXInv
  OBVIOUS
<1>1. TXTyped
  BY BoundsAre DEF TX!Init, TXTyped, Sessions
<1>2. ASSUME NEW t \in Tasks PROVE Stacked(t)
  BY DEF TX!Init, Stacked, Agree, TX!Runs, TX!Innermost
<1>3. ASSUME NEW s \in TX!Scopes PROVE Holds(s) /\ work[s] = {}
  BY NoSessionIs DEF TX!Init, Holds
<1>. QED
  BY <1>1, <1>2, <1>3 DEF TXInv, TX!Init

LEMMA FrameIs ==
  ASSUME NEW s \in TX!Scopes, NEW k \in Sessions
  PROVE  [scope |-> s, token |-> k] \in Frames /\ [scope |-> s, token |-> k].scope = s
         /\ [scope |-> s, token |-> k].token = k
BY DEF Frames

\* The stack, spelled out.
LEMMA StackIs ==
  ASSUME TXInv, NEW t \in Tasks
  PROVE  /\ stack[t] \in Seq(Frames) /\ Len(stack[t]) \in Nat /\ DOMAIN stack[t] = 1..Len(stack[t])
         /\ stack[t] = <<>> <=> Len(stack[t]) = 0
         /\ \A k \in 1..Len(stack[t]) : stack[t][k] \in Frames /\ stack[t][k].scope \in TX!Scopes
         /\ TX!Innermost(t) = IF Len(stack[t]) = 0 THEN born[t] ELSE stack[t][Len(stack[t])].scope
         /\ TX!Runs(t) => TX!Innermost(t) \in Sessions
<1>1. stack[t] \in Seq(Frames)
  BY DEF TXInv, TXTyped
<1>2. /\ Len(stack[t]) \in Nat /\ DOMAIN stack[t] = 1..Len(stack[t])
      /\ stack[t] = <<>> <=> Len(stack[t]) = 0
      /\ \A k \in 1..Len(stack[t]) : stack[t][k] \in Frames
  BY <1>1
<1>3. \A f \in Frames : f.scope \in TX!Scopes
  BY DEF Frames
<1>4. TX!Innermost(t) = IF Len(stack[t]) = 0 THEN born[t] ELSE stack[t][Len(stack[t])].scope
  BY <1>2 DEF TX!Innermost, TX!Top
<1>5. TX!Runs(t) => born[t] \in Sessions
  BY DEF TX!Runs, TXInv, TXTyped
<1>. QED
  BY <1>1, <1>2, <1>3, <1>4, <1>5 DEF Sessions

\* Steps that leave the tasks where they are.
LEMMA StacksSame ==
  ASSUME TXInv, UNCHANGED <<active, stack, born>>, strayed \subseteq strayed'
  PROVE  \A t \in Tasks : Stacked(t)'
BY DEF TXInv, Stacked, Agree, TX!Runs, TX!Innermost, Below

\* Steps that leave the sessions as they are.
LEMMA SessionsSame ==
  ASSUME TXInv, UNCHANGED <<work, meant, wrote>>,
         strayed \subseteq strayed', committed \subseteq committed', rolled \subseteq rolled'
  PROVE  \A s \in TX!Scopes : Holds(s)' /\ \A w \in work'[s] : w <= wrote'
BY DEF TXInv, Holds

\* A session is emptied, which keeps what is said of it and of the others.
LEMMA Emptied ==
  ASSUME TXInv, NEW s \in TX!Scopes, TX!Ended(s), UNCHANGED wrote,
         strayed \subseteq strayed', committed \subseteq committed', rolled \subseteq rolled'
  PROVE  /\ work' \in [TX!Scopes -> SUBSET TX!Writes] /\ meant' \in [TX!Writes -> Sessions]
         /\ \A r \in TX!Scopes : Holds(r)' /\ \A w \in work'[r] : w <= wrote'
<1>1. /\ work \in [TX!Scopes -> SUBSET TX!Writes] /\ meant \in [TX!Writes -> Sessions]
      /\ \A r \in TX!Scopes : Holds(r) /\ \A w \in work[r] : w <= wrote
  BY DEF TXInv, TXTyped
<1>2. /\ work' = [work EXCEPT ![s] = {}]
      /\ meant' = [w \in TX!Writes |-> IF meant[w] = s THEN NoSession ELSE meant[w]]
  BY DEF TX!Ended
<1>3. ASSUME NEW r \in TX!Scopes PROVE Holds(r)'
  <2>1. r # NoSession
    BY NoSessionIs
  <2>2. CASE r = s
    BY <1>1, <1>2, <2>1, <2>2 DEF Holds
  <2>3. CASE r # s
    <3>1. {w \in TX!Writes : meant'[w] = r} = {w \in TX!Writes : meant[w] = r} /\ work'[r] = work[r]
      BY <1>1, <1>2, <2>1, <2>3
    <3>. QED
      BY <1>1, <3>1 DEF Holds
  <2>. QED
    BY <2>2, <2>3
<1>. QED
  BY <1>1, <1>2, <1>3 DEF Sessions

LEMMA BeginKeeps == ASSUME TXInv, NEW t \in Tasks, TX!Begin(t) PROVE TXInv'
<1> DEFINE f == [scope |-> opened + 1, token |-> active[t]]
<1>1. /\ opened + 1 \in TX!Scopes /\ opened + 1 \in 0..MaxScopes /\ active[t] \in Sessions
      /\ opened + 1 \in Sessions
  BY BoundsAre DEF TX!Begin, TXInv, TXTyped, TX!Scopes, Sessions
<1>2. f \in Frames /\ f.scope = opened + 1 /\ f.token = active[t]
  BY <1>1, FrameIs
<1>3. /\ stack' = [stack EXCEPT ![t] = Append(@, f)] /\ TX!Runs(t)
      /\ active' = [active EXCEPT ![t] = opened + 1] /\ opened' = opened + 1
      /\ UNCHANGED <<committed, rolled, repos, work, durable, wrote, meant, born, strayed>>
  BY DEF TX!Begin
<1>. HIDE DEF f
<1>4. /\ stack'[t] = Append(stack[t], f) /\ \A u \in Tasks : u # t => stack'[u] = stack[u]
      /\ active'[t] = opened + 1 /\ \A u \in Tasks : u # t => active'[u] = active[u]
  BY <1>3 DEF TXInv, TXTyped
<1>5. /\ Append(stack[t], f) \in Seq(Frames)
      /\ DOMAIN Append(stack[t], f) = 1..(Len(stack[t]) + 1)
      /\ Len(Append(stack[t], f)) = Len(stack[t]) + 1
      /\ \A k \in 1..Len(stack[t]) : Append(stack[t], f)[k] = stack[t][k]
      /\ Append(stack[t], f)[Len(stack[t]) + 1] = f
      /\ Len(stack[t]) \in Nat
  BY <1>2, StackIs, AppendIs
<1>6. TXTyped'
  BY <1>1, <1>3, <1>5 DEF TXInv, TXTyped
<1>7. ASSUME NEW u \in Tasks PROVE Stacked(u)'
  <2>1. CASE u # t
    BY <2>1, <1>3, <1>4 DEF TXInv, Stacked, Agree, TX!Runs, TX!Innermost, Below, TX!Top
  <2>2. CASE u = t
    <3>1. Agree(f.token, TX!Innermost(t))
      BY <1>2, <1>3 DEF TXInv, Stacked
    <3>2. ASSUME NEW k \in 1..(Len(stack[t]) + 1) PROVE Agree(stack[t][k].token, Below(t, k))'
      <4>1. CASE k = Len(stack[t]) + 1
        BY <4>1, <1>3, <1>4, <1>5, <3>1, StackIs DEF Below, Agree
      <4>2. CASE k # Len(stack[t]) + 1
        <5>1. k \in 1..Len(stack[t]) /\ (k # 1 => k - 1 \in 1..Len(stack[t]))
          BY <1>5, <4>2
        <5>2. Agree(stack[t][k].token, Below(t, k))
          BY <5>1, StackIs DEF TXInv, Stacked
        <5>. QED
          BY <5>1, <5>2, <1>3, <1>4, <1>5 DEF Below, Agree
      <4>. QED
        BY <4>1, <4>2
    <3>3. TX!Innermost(t)' = opened + 1
      <4>1. stack'[t] # <<>> /\ Len(stack'[t]) = Len(stack[t]) + 1
        BY <1>4, <1>5
      <4>. QED
        BY <4>1, <1>2, <1>4, <1>5 DEF TX!Innermost, TX!Top
    <3>. QED
      BY <2>2, <1>3, <1>4, <1>5, <3>2, <3>3 DEF Stacked, Agree, TX!Runs
  <2>. QED
    BY <2>1, <2>2
<1>8. \A r \in repos' : Agree(r.session, r.home)'
  BY <1>3 DEF TXInv, Agree
<1>. QED
  BY <1>3, <1>6, <1>7, <1>8, SessionsSame DEF TXInv

LEMMA BelowIn ==
  ASSUME NEW n \in Nat, n # 0, n # 1
  PROVE  n - 1 \in 1..n
OBVIOUS

\* A transaction is left: what is said of the tasks' stacks, whether or not
\* the context variable is reset.
LEMMA PopKeeps ==
  ASSUME TXInv, NEW t \in Tasks, stack[t] # <<>>,
         stack' = [stack EXCEPT ![t] = TX!Popped(@)],
         UNCHANGED born, strayed \subseteq strayed',
         \/ active' = [active EXCEPT ![t] = TX!Top(stack[t]).token]
         \/ active' = active /\ {TX!Top(stack[t]).scope, TX!Innermost(t)'} \subseteq strayed'
  PROVE  /\ \A u \in Tasks : Stacked(u)'
         /\ stack' \in [Tasks -> Seq(Frames)] /\ active' \in [Tasks -> Sessions]
         /\ TX!Top(stack[t]).scope \in TX!Scopes /\ TX!Innermost(t)' \in Sessions
<1> DEFINE n == Len(stack[t])
<1>1. /\ stack[t] \in Seq(Frames) /\ n \in Nat /\ n # 0 /\ n \in 1..n
      /\ DOMAIN stack[t] = 1..n /\ stack[t][n] \in Frames
      /\ TX!Top(stack[t]) = stack[t][n]
  BY StackIs DEF TX!Top
<1>2. stack[t][n].scope \in TX!Scopes /\ stack[t][n].token \in Sessions
  BY <1>1 DEF Frames
<1>3. /\ active \in [Tasks -> Sessions] /\ stack \in [Tasks -> Seq(Frames)]
      /\ born \in [Tasks -> Sessions \union {0}]
  BY DEF TXInv, TXTyped
<1>4. /\ TX!Popped(stack[t]) \in Seq(Frames) /\ n - 1 \in Nat
      /\ Len(TX!Popped(stack[t])) = n - 1 /\ DOMAIN TX!Popped(stack[t]) = 1..(n - 1)
      /\ \A k \in 1..(n - 1) : TX!Popped(stack[t])[k] = stack[t][k]
  BY <1>1, FrontIs
<1>5. /\ stack'[t] = TX!Popped(stack[t]) /\ \A u \in Tasks : u # t => stack'[u] = stack[u]
      /\ \A u \in Tasks : u # t => active'[u] = active[u]
      /\ active'[t] = stack[t][n].token \/ active'[t] = active[t]
  BY <1>1, <1>3
<1>6. stack' \in [Tasks -> Seq(Frames)] /\ active' \in [Tasks -> Sessions]
  BY <1>1, <1>2, <1>3, <1>4
<1>7. TX!Runs(t) /\ TX!Runs(t)' /\ born[t] \in Sessions
  BY <1>1, <1>3 DEF TXInv, Stacked, TX!Runs
<1>8. TX!Innermost(t)' = Below(t, n)
  <2>1. CASE n = 1
    <3>1. stack'[t] = <<>>
      BY <2>1, <1>4, <1>5
    <3>. QED
      BY <2>1, <3>1 DEF TX!Innermost, Below
  <2>2. CASE n # 1
    <3>1. n - 1 \in 1..(n - 1) /\ n - 1 # 0
      BY <2>2, <1>1, BelowIs
    <3>2. Len(stack'[t]) = n - 1 /\ Len(<<>>) = 0
      BY <1>4, <1>5
    <3>3. stack'[t] # <<>>
      BY <3>1, <3>2
    <3>. QED
      BY <2>2, <3>1, <3>2, <3>3, <1>4, <1>5 DEF TX!Innermost, TX!Top, Below
  <2>. QED
    BY <2>1, <2>2
<1>9. Below(t, n) \in Sessions
  <2>1. CASE n = 1
    BY <2>1, <1>7 DEF Below
  <2>2. CASE n # 1
    <3>1. n - 1 \in 1..n
      BY <2>2, <1>1, BelowIn, Zenon
    <3>2. stack[t][n - 1] \in Frames
      BY <3>1, StackIs
    <3>. QED
      BY <2>2, <3>2 DEF Below, Frames, Sessions
  <2>. QED
    BY <2>1, <2>2
<1>10. ASSUME NEW u \in Tasks PROVE Stacked(u)'
  <2>1. CASE u # t
    BY <2>1, <1>5 DEF TXInv, Stacked, Agree, TX!Runs, TX!Innermost, Below, TX!Top
  <2>2. CASE u = t
    <3>1. ASSUME NEW k \in 1..(n - 1) PROVE Agree(stack[t][k].token, Below(t, k))'
      <4>1. k \in 1..n /\ (k # 1 => k - 1 \in 1..(n - 1))
        BY <1>1
      <4>2. Agree(stack[t][k].token, Below(t, k))
        BY <4>1, <1>1 DEF TXInv, Stacked
      <4>. QED
        BY <4>1, <4>2, <1>4, <1>5 DEF Below, Agree
    <3>2. Agree(stack[t][n].token, Below(t, n)) /\ Agree(active[t], stack[t][n].scope)
      BY <1>1, <1>7, StackIs DEF TXInv, Stacked
    <3>3. Agree(active[t], TX!Innermost(t))'
      <4>1. CASE active' = [active EXCEPT ![t] = TX!Top(stack[t]).token]
        BY <4>1, <1>1, <1>3, <1>8, <3>2 DEF Agree
      <4>2. CASE active' = active /\ {TX!Top(stack[t]).scope, TX!Innermost(t)'} \subseteq strayed'
        <5>1. active[t] \in strayed'
          BY <4>2, <1>1, <3>2 DEF Agree
        <5>. QED
          BY <4>2, <5>1 DEF Agree
      <4>. QED
        BY <4>1, <4>2
    <3>. QED
      BY <2>2, <1>4, <1>5, <1>7, <3>1, <3>3 DEF Stacked
  <2>. QED
    BY <2>1, <2>2
<1>. QED
  BY <1>1, <1>2, <1>6, <1>8, <1>9, <1>10

LEMMA LeaveKeeps == ASSUME TXInv, NEW t \in Tasks, TX!Leave(t) \/ TX!LeaveFails(t) PROVE TXInv'
<1> DEFINE s == TX!Top(stack[t]).scope
<1>1. /\ stack[t] # <<>> /\ stack' = [stack EXCEPT ![t] = TX!Popped(@)]
      /\ \/ active' = [active EXCEPT ![t] = TX!Top(stack[t]).token] /\ strayed' = strayed
         \/ active' = active /\ strayed' = strayed \union {s, TX!Innermost(t)'}
      /\ TX!Ended(s) \/ UNCHANGED <<work, meant>>
      /\ UNCHANGED <<opened, committed, rolled, repos, durable, wrote, born>>
  BY DEF TX!Leave, TX!LeaveFails
<1>2. strayed \subseteq strayed'
  BY <1>1
<1>3. /\ \A u \in Tasks : Stacked(u)'
      /\ stack' \in [Tasks -> Seq(Frames)] /\ active' \in [Tasks -> Sessions]
      /\ s \in TX!Scopes /\ TX!Innermost(t)' \in Sessions
  BY <1>1, <1>2, PopKeeps
<1>. HIDE DEF s
<1>4. strayed' \subseteq Sessions
  BY <1>1, <1>3 DEF TXInv, TXTyped, Sessions
<1>5. /\ work' \in [TX!Scopes -> SUBSET TX!Writes] /\ meant' \in [TX!Writes -> Sessions]
      /\ \A r \in TX!Scopes : Holds(r)' /\ \A w \in work'[r] : w <= wrote'
  BY <1>1, <1>2, <1>3, Emptied, SessionsSame DEF TXInv, TXTyped
<1>6. TXTyped'
  BY <1>1, <1>3, <1>4, <1>5 DEF TXInv, TXTyped
<1>7. \A r \in repos' : Agree(r.session, r.home)'
  BY <1>1, <1>2 DEF TXInv, Agree
<1>. QED
  BY <1>3, <1>5, <1>6, <1>7 DEF TXInv

LEMMA SpawnKeeps == ASSUME TXInv, NEW t \in Tasks, NEW u \in Tasks, TX!Spawn(t, u) PROVE TXInv'
<1>1. /\ TX!Runs(t) /\ ~TX!Runs(u) /\ t # u
      /\ active' = [active EXCEPT ![u] = active[t]]
      /\ born' = [born EXCEPT ![u] = TX!Innermost(t)]
      /\ UNCHANGED <<stack, opened, committed, rolled, repos, work, durable, wrote, meant, strayed>>
  BY DEF TX!Spawn
<1>2. TX!Innermost(t) \in Sessions /\ Agree(active[t], TX!Innermost(t)) /\ stack[u] = <<>>
  BY <1>1, StackIs DEF TXInv, Stacked
<1>3. /\ born'[u] = TX!Innermost(t) /\ active'[u] = active[t]
      /\ \A v \in Tasks : v # u => born'[v] = born[v] /\ active'[v] = active[v]
  BY <1>1, <1>2 DEF TXInv, TXTyped
<1>4. TXTyped'
  BY <1>1, <1>2 DEF TXInv, TXTyped
<1>5. ASSUME NEW v \in Tasks PROVE Stacked(v)'
  <2>1. CASE v # u
    BY <2>1, <1>1, <1>3 DEF TXInv, Stacked, Agree, TX!Runs, TX!Innermost, Below
  <2>2. CASE v = u
    <3>1. stack'[u] = <<>> /\ DOMAIN stack'[u] = {}
      BY <1>1, <1>2, StackIs
    <3>. QED
      BY <2>2, <3>1, <1>1, <1>2, <1>3 DEF Stacked, Agree, TX!Innermost
  <2>. QED
    BY <2>1, <2>2
<1>6. \A r \in repos' : Agree(r.session, r.home)'
  BY <1>1 DEF TXInv, Agree
<1>. QED
  BY <1>1, <1>4, <1>5, <1>6, SessionsSame DEF TXInv

LEMMA GetRepositoryKeeps == ASSUME TXInv, NEW t \in Tasks, TX!GetRepository(t) PROVE TXInv'
<1> DEFINE r == [session |-> active[t], home |-> TX!Innermost(t)]
<1>1. /\ TX!Runs(t) /\ active[t] # NoSession /\ repos' = repos \union {r}
      /\ UNCHANGED <<active, stack, opened, committed, rolled, work, durable, wrote, meant, born, strayed>>
  BY DEF TX!GetRepository
<1>2. active[t] \in TX!Scopes /\ TX!Innermost(t) \in Sessions /\ Agree(active[t], TX!Innermost(t))
  BY <1>1, StackIs DEF TXInv, TXTyped, Stacked, Sessions
<1>3. r \in Repos /\ Agree(r.session, r.home)
  BY <1>2 DEF Repos
<1>. HIDE DEF r
<1>4. TXTyped'
  BY <1>1, <1>3 DEF TXInv, TXTyped
<1>5. \A q \in repos' : Agree(q.session, q.home)'
  BY <1>1, <1>3 DEF TXInv, Agree
<1>. QED
  BY <1>1, <1>4, <1>5, StacksSame, SessionsSame DEF TXInv

LEMMA WriteKeeps == ASSUME TXInv, NEW r \in repos, TX!Write(r) PROVE TXInv'
<1>1. /\ wrote \in Nat /\ wrote + 1 \in TX!Writes /\ wrote + 1 \in 0..MaxWrites
      /\ \A w \in TX!Writes : w \in Nat
  BY BoundsAre DEF TX!Write, TXInv, TXTyped, TX!Writes
<1>2. /\ wrote' = wrote + 1
      /\ work' = [work EXCEPT ![r.session] = @ \union {wrote + 1}]
      /\ meant' = [meant EXCEPT ![wrote + 1] = r.home]
      /\ UNCHANGED <<active, stack, opened, committed, rolled, repos, durable, born, strayed>>
  BY DEF TX!Write
<1>3. r.session \in TX!Scopes /\ r.home \in Sessions /\ Agree(r.session, r.home)
  BY DEF TXInv, TXTyped, Repos
<1>4. /\ work \in [TX!Scopes -> SUBSET TX!Writes] /\ meant \in [TX!Writes -> Sessions]
      /\ \A s \in TX!Scopes : Holds(s) /\ wrote + 1 \notin work[s] /\ \A w \in work[s] : w <= wrote
  BY <1>1 DEF TXInv, TXTyped
<1>5. TXTyped'
  BY <1>1, <1>2, <1>3 DEF TXInv, TXTyped
<1>6. ASSUME NEW s \in TX!Scopes PROVE Holds(s)' /\ \A w \in work'[s] : w <= wrote'
  <2>1. /\ work'[s] = IF s = r.session THEN work[s] \union {wrote + 1} ELSE work[s]
        /\ meant'[wrote + 1] = r.home
        /\ \A w \in TX!Writes : w # wrote + 1 => meant'[w] = meant[w]
    BY <1>1, <1>2, <1>3, <1>4
  <2>2. \A w \in work'[s] : w <= wrote'
    BY <2>1, <1>1, <1>2, <1>4
  <2>3. ASSUME s \notin strayed \union committed \union rolled PROVE work'[s] = {w \in TX!Writes : meant'[w] = s}
    <3>1. work[s] = {w \in TX!Writes : meant[w] = s}
      BY <1>4, <2>3 DEF Holds
    <3>2. s = r.session <=> s = r.home
      BY <1>3, <2>3 DEF Agree
    <3>. QED
      BY <1>1, <1>4, <2>1, <3>1, <3>2
  <2>. QED
    BY <1>2, <2>2, <2>3 DEF Holds
<1>7. \A q \in repos' : Agree(q.session, q.home)'
  BY <1>2 DEF TXInv, Agree
<1>. QED
  BY <1>2, <1>5, <1>6, <1>7, StacksSame DEF TXInv

\* The steps that end what a session has, by a commit or without.
LEMMA SettleKeeps ==
  ASSUME TXInv, NEW s \in TX!Scopes, TX!Ended(s),
         durable' = durable \union work[s] \/ durable' = durable,
         committed' = committed \union {s} \/ committed' = committed,
         rolled' = rolled \union {s} \/ rolled' = rolled,
         UNCHANGED <<active, stack, opened, repos, wrote, born, strayed>>
  PROVE  TXInv'
<1>1. work[s] \subseteq TX!Writes
  BY DEF TXInv, TXTyped
<1>2. committed \subseteq committed' /\ rolled \subseteq rolled'
  OBVIOUS
<1>3. /\ work' \in [TX!Scopes -> SUBSET TX!Writes] /\ meant' \in [TX!Writes -> Sessions]
      /\ \A r \in TX!Scopes : Holds(r)' /\ \A w \in work'[r] : w <= wrote'
  BY <1>2, Emptied
<1>4. TXTyped'
  BY <1>1, <1>3 DEF TXInv, TXTyped
<1>5. \A r \in repos' : Agree(r.session, r.home)'
  BY DEF TXInv, Agree
<1>. QED
  BY <1>3, <1>4, <1>5, StacksSame DEF TXInv

LEMMA TXStep == ASSUME TXInv, TX!Next \/ UNCHANGED TXvars PROVE TXInv'
<1>1. CASE UNCHANGED TXvars
  <2>1. TXTyped' /\ \A r \in repos' : Agree(r.session, r.home)'
    BY <1>1 DEF TXvars, TXInv, TXTyped, Agree
  <2>. QED
    BY <1>1, <2>1, StacksSame, SessionsSame DEF TXvars, TXInv
<1>2. ASSUME NEW s \in TX!Scopes, TX!Commit(s) \/ TX!CommitFails(s) \/ TX!Rollback(s)
      PROVE  TXInv'
  BY <1>2, SettleKeeps DEF TX!Commit, TX!CommitFails, TX!Rollback
<1>. QED
  BY <1>1, <1>2, BeginKeeps, GetRepositoryKeeps, WriteKeeps, LeaveKeeps, SpawnKeeps DEF TX!Next

LEMMA TXTypes == TXInv => TX!TypeOK
BY DEF TXInv, TXTyped, TX!TypeOK, Sessions, Frames, Repos, TX!Session

\* Only a commit makes writes durable: all that belong to its transaction.
LEMMA TXCommits ==
  ASSUME TXInv, TX!Next \/ UNCHANGED TXvars
  PROVE  /\ \A s \in committed' \ committed : durable' = durable \union TX!Owned(s)
         /\ durable' # durable => \E s \in TX!Scopes : durable' = durable \union TX!Owned(s)
<1>1. CASE UNCHANGED <<committed, durable>>
  BY <1>1
<1>2. ASSUME NEW s \in TX!Scopes, TX!Commit(s) \/ TX!CommitFails(s) \/ TX!Rollback(s)
      PROVE  /\ \A r \in committed' \ committed : durable' = durable \union TX!Owned(r)
             /\ durable' # durable => \E r \in TX!Scopes : durable' = durable \union TX!Owned(r)
  <2>1. CASE TX!Open(s)
    <3>1. TX!Owned(s) = work[s]
      BY <2>1 DEF TXInv, Holds, TX!Open, TX!Owned
    <3>. QED
      BY <1>2, <3>1 DEF TX!Commit, TX!CommitFails, TX!Rollback
  <2>2. CASE ~TX!Open(s)
    BY <1>2, <2>2 DEF TX!Commit, TX!CommitFails, TX!Rollback
  <2>. QED
    BY <2>1, <2>2
<1>3. ASSUME TX!Next PROVE UNCHANGED <<committed, durable>> \/ \E s \in TX!Scopes : TX!Commit(s) \/ TX!CommitFails(s) \/ TX!Rollback(s)
  BY <1>3 DEF TX!Next, TX!Begin, TX!GetRepository, TX!Write, TX!Leave, TX!LeaveFails, TX!Spawn
<1>. QED
  BY <1>1, <1>2, <1>3 DEF TXvars

-----------------------------------------------------------------------------
\* The bounds of what limits calls.
LEMMA RLBounds ==
  /\ Capacity \in Nat /\ Rate \in Nat \ {0} /\ MaxTime \in Nat /\ MaxSpent \in Nat
  /\ Threshold \in Nat \ {0} /\ MaxRetries \in Nat
  /\ Costs \subseteq Nat /\ SharedCache \in BOOLEAN /\ WindowTypes \subseteq {"bucket", "window"}
BY StoresOK

-----------------------------------------------------------------------------
(* What a comprehension keeps of a list: f is the position of each element *)
(* that is kept.                                                           *)

Selects(f, s, I) ==
  /\ f \in [1..Cardinality(I) -> I]
  /\ \A m, n \in 1..Cardinality(I) : m < n => f[m] < f[n]
  /\ \A i \in I : \E n \in 1..Cardinality(I) : f[n] = i
  /\ \A n \in 1..Cardinality(I) : Kept(s, I)[n] = s[f[n]]

\* Positions have ranks, which increase with them, so that there is one of each.
LEMMA KeptIs ==
  ASSUME NEW S, NEW s \in Seq(S), NEW I \in SUBSET DOMAIN s
  PROVE  /\ Kept(s, I) \in Seq(S)
         /\ Len(Kept(s, I)) = Cardinality(I) /\ Cardinality(I) \in 0..Len(s)
         /\ \E f : Selects(f, s, I)
<1> DEFINE N == Cardinality(I)
           upTo(i) == {k \in I : k <= i}
           place == [i \in I |-> Cardinality(upTo(i))]
           f == [n \in 1..N |-> CHOOSE i \in I : Cardinality(upTo(i)) = n]
<1>1. DOMAIN s = 1..Len(s) /\ Len(s) \in Nat /\ I \subseteq Nat /\ \A i \in DOMAIN s : s[i] \in S
  BY LenProperties, ElementOfSeq
<1>2. IsFiniteSet(I) /\ N \in 0..Len(s)
  <2>1. IsFiniteSet(1..Len(s)) /\ Cardinality(1..Len(s)) = Len(s)
    BY <1>1, FS_Interval
  <2>2. I \in SUBSET (1..Len(s))
    BY <1>1
  <2>3. IsFiniteSet(I) /\ Cardinality(I) <= Len(s)
    BY <2>1, <2>2, FS_Subset
  <2>. QED
    BY <2>3, <1>1, FS_CardinalityType
<1>3. ASSUME NEW i \in I PROVE IsFiniteSet(upTo(i)) /\ place[i] \in 1..N /\ place[i] = Cardinality(upTo(i))
  <2>1. upTo(i) \in SUBSET I /\ i \in upTo(i)
    BY <1>1
  <2>2. IsFiniteSet(upTo(i)) /\ Cardinality(upTo(i)) <= N
    BY <2>1, <1>2, FS_Subset
  <2>3. Cardinality(upTo(i)) \in Nat /\ Cardinality(upTo(i)) # 0
    BY <2>1, <2>2, FS_CardinalityType, FS_EmptySet
  <2>. QED
    BY <2>2, <2>3, <1>2
<1>4. ASSUME NEW i \in I, NEW j \in I, i < j PROVE place[i] < place[j]
  <2>1. upTo(i) \in SUBSET upTo(j) /\ j \in upTo(j) /\ j \notin upTo(i)
    BY <1>1, <1>4
  <2>2. Cardinality(upTo(i)) <= Cardinality(upTo(j)) /\ Cardinality(upTo(i)) # Cardinality(upTo(j))
    BY <2>1, <1>3, FS_Subset
  <2>. HIDE DEF place, upTo, N
  <2>3. /\ place[i] = Cardinality(upTo(i)) /\ place[j] = Cardinality(upTo(j))
        /\ place[i] \in Nat /\ place[j] \in Nat
    <3>1. N \in Nat
      BY <1>2, <1>1 DEF N
    <3>. QED
      BY <3>1, <1>3
  <2>. QED
    BY <2>2, <2>3
<1>. HIDE DEF upTo
<1>5. place \in [I -> 1..N]
  BY <1>3
<1>. HIDE DEF place
<1>6. ASSUME NEW i \in I, NEW j \in I, place[i] <= place[j] PROVE i <= j
  <2>1. place[i] \in Nat /\ place[j] \in Nat /\ i \in Nat /\ j \in Nat
    BY <1>1, <1>2, <1>5
  <2>2. j < i => place[j] < place[i]
    BY <1>4
  <2>. QED
    BY <2>1, <2>2, <1>6
<1>7. ASSUME NEW n \in 1..N PROVE f[n] \in I /\ place[f[n]] = n
  <2>1. \A i, j \in I : place[i] = place[j] => i = j
    <3>. SUFFICES ASSUME NEW i \in I, NEW j \in I, place[i] = place[j] PROVE i = j
      OBVIOUS
    <3>1. place[i] \in Nat
      BY <1>2, <1>5
    <3>2. i <= j /\ j <= i
      BY <1>6, <3>1
    <3>. QED
      BY <3>2, <1>1
  <2>2. place \in Injection(I, 1..N)
    BY <1>5, <2>1 DEF Injection, IsInjective
  <2>3. IsFiniteSet(1..N) /\ Cardinality(1..N) = N
    BY <1>2, FS_Interval
  <2>4. place \in Surjection(I, 1..N)
    BY <2>2, <2>3, FS_Injection
  <2>5. \E i \in I : place[i] = n
    BY <2>4 DEF Surjection
  <2>6. \E i \in I : Cardinality(upTo(i)) = n
    BY <2>5, <1>3
  <2>. QED
    BY <2>6, <1>3
<1>8. f \in [1..N -> I]
  BY <1>7
<1>9. ASSUME NEW m \in 1..N, NEW n \in 1..N, m < n PROVE f[m] < f[n]
  <2>1. f[m] \in I /\ f[n] \in I /\ f[m] \in Nat /\ f[n] \in Nat
    BY <1>1, <1>8
  <2>2. f[n] <= f[m] => n <= m
    <3>1. ASSUME f[n] = f[m] PROVE n = m
      BY <3>1, <1>7
    <3>2. ASSUME f[n] < f[m] PROVE n < m
      <4>1. place[f[n]] < place[f[m]]
        BY <3>2, <2>1, <1>4
      <4>. QED
        BY <4>1, <1>7
    <3>. QED
      BY <3>1, <3>2, <2>1
  <2>. QED
    BY <2>1, <2>2, <1>9, <1>2
<1>10. ASSUME NEW i \in I PROVE \E n \in 1..N : f[n] = i
  <2>1. place[i] \in 1..N
    BY <1>5
  <2>2. f[place[i]] \in I /\ place[f[place[i]]] = place[i]
    BY <2>1, <1>7
  <2>3. f[place[i]] <= i /\ i <= f[place[i]]
    BY <2>1, <2>2, <1>2, <1>6
  <2>. QED
    BY <2>1, <2>2, <2>3, <1>1
<1>11. Kept(s, I) = [n \in 1..N |-> s[f[n]]]
  BY DEF Kept, upTo
<1>. HIDE DEF f
<1>12. \A n \in 1..N : s[f[n]] \in S
  BY <1>1, <1>8
<1>13. Kept(s, I) \in Seq(S) /\ Len(Kept(s, I)) = N
  BY <1>11, <1>12, <1>2, IsASeq
<1>14. \A n \in 1..N : Kept(s, I)[n] = s[f[n]]
  BY <1>11
<1>15. Selects(f, s, I)
  BY <1>8, <1>9, <1>10, <1>14 DEF Selects
<1>. QED
  BY <1>2, <1>13, <1>15

\* What is kept is at the positions that are kept.
LEMMA KeptSet ==
  ASSUME NEW S, NEW s \in Seq(S), NEW I \in SUBSET DOMAIN s
  PROVE  Kept(s, I) \in Seq(S) /\ ToSet(Kept(s, I)) = {s[i] : i \in I}
<1> DEFINE N == Cardinality(I)
           K == Kept(s, I)
<1>1. PICK f \in [1..N -> I] :
        /\ \A n \in 1..N : K[n] = s[f[n]]
        /\ \A i \in I : \E n \in 1..N : f[n] = i
  <2>1. PICK f : Selects(f, s, I)
    BY KeptIs
  <2>. QED
    BY <2>1 DEF Selects
<1>2. K \in Seq(S) /\ Len(K) = N
  BY KeptIs
<1>. HIDE DEF K
<1>3. DOMAIN K = 1..N
  BY <1>2, LenProperties
<1>4. ToSet(K) = {K[n] : n \in 1..N}
  BY <1>3 DEF ToSet
<1>5. {K[n] : n \in 1..N} = {s[i] : i \in I}
  BY <1>1
<1>. QED
  BY <1>2, <1>4, <1>5 DEF K

-----------------------------------------------------------------------------
(* MockHttp: failures are not ahead of the streak, unless it is as long as *)
(* it is counted.                                                          *)

MHInv ==
  /\ MH!TypeOK
  /\ circuit = "closed" => failures <= Threshold
  /\ failures <= streak \/ streak = Threshold

LEMMA MHInit == MH!Init => MHInv
<1>. SUFFICES ASSUME MH!Init PROVE MHInv
  OBVIOUS
<1>1. script = <<>> /\ Len(script) = 0 /\ index = 0
  BY EmptySeq, Zenon DEF MH!Init
<1>2. script \in Scripts \union {<<>>} /\ index \in 0..Len(script)
  BY <1>1
<1>3. failures = 0 /\ streak = 0 /\ circuit = "closed" /\ forced = FALSE /\ response = "none"
  BY DEF MH!Init
<1>. QED
  <2>1. circuit \in MH!Circuits
    BY <1>3 DEF MH!Circuits
  <2>2. failures \in 0..(Threshold + 1) /\ streak \in 0..Threshold /\ failures <= Threshold /\ failures <= streak
    BY <1>3, RLBounds
  <2>3. forced \in BOOLEAN
    BY <1>3
  <2>4. response \in MH!Statuses \union {"none", "timeout", "rejected"}
    BY <1>3
  <2>5. MH!TypeOK
    BY <1>2, <2>1, <2>2, <2>3, <2>4 DEF MH!TypeOK
  <2>. QED
    BY <2>2, <2>5 DEF MHInv

\* A canned sequence answers for ever, and a request makes a number of attempts.
LEMMA RequestIs ==
  ASSUME MHInv, NEW single \in MH!Statuses
  PROVE  /\ MH!Attempts(single) \in Nat
         /\ MH!Response(MH!Attempts(single), single) \in MH!Statuses
         /\ script \in Scripts \union {<<>>} /\ Len(script) \in Nat /\ index \in Nat
<1>1. script \in Scripts \union {<<>>} /\ script \in Seq(MH!Statuses)
  BY StoresOK, EmptyIs DEF MHInv, MH!TypeOK, MH!Statuses
<1>2. Len(script) \in Nat /\ DOMAIN script = 1..Len(script) /\ index \in 0..Len(script)
  BY <1>1, LenProperties DEF MHInv, MH!TypeOK
<1>3. MH!Attempts(single) \in Nat
  <2> DEFINE S == {n \in 0..MaxRetries : n = MaxRetries \/ MH!Response(n, single) # "retryable"}
  <2>1. S \subseteq Nat /\ MaxRetries \in S
    BY RLBounds
  <2>2. PICK n \in S : \A m \in S : n <= m
    <3>. HIDE DEF S
    <3>. QED
      BY <2>1, Least
  <2>3. \A m \in 0..(n - 1) : MH!Response(m, single) = "retryable"
    BY <2>2, RLBounds
  <2>4. n \in 0..MaxRetries /\ (n = MaxRetries \/ MH!Response(n, single) # "retryable")
    BY <2>2
  <2>5. MH!Attempts(single) \in 0..MaxRetries
    BY <2>3, <2>4 DEF MH!Attempts
  <2>. QED
    BY <2>5, RLBounds
<1>4. ASSUME NEW n \in Nat PROVE MH!Response(n, single) \in MH!Statuses
  <2>1. CASE script = <<>>
    BY <2>1 DEF MH!Response
  <2>2. CASE script # <<>>
    <3>1. Len(script) # 0
      BY <2>2, <1>1, EmptySeq
    <3> DEFINE i == IF index + n < Len(script) THEN index + n + 1 ELSE Len(script)
    <3>2. i \in 1..Len(script)
      BY <1>2, <3>1
    <3>3. script[i] \in MH!Statuses
      BY <1>1, <3>2, ElementOfSeq
    <3>. QED
      BY <2>2, <3>3 DEF MH!Response
  <2>. QED
    BY <2>1, <2>2
<1>. QED
  BY <1>1, <1>2, <1>3, <1>4

LEMMA MHStep ==
  ASSUME MHInv, MH!Next \/ UNCHANGED MHvars
  PROVE  MHInv'
<1>. USE RLBounds DEF MHInv, MH!TypeOK, MH!Circuits
<1>1. CASE UNCHANGED MHvars
  BY <1>1 DEF MHvars
<1>2. ASSUME NEW c \in MH!Circuits, MH!SetCircuit(c) PROVE MHInv'
  BY <1>2 DEF MH!SetCircuit
<1>3. CASE MH!ForceRecovery
  BY <1>3 DEF MH!ForceRecovery
<1>4. CASE MH!Reject
  BY <1>4 DEF MH!Reject
<1>5. CASE MH!TimeOut
  BY <1>5 DEF MH!TimeOut
<1>6. ASSUME NEW s \in Scripts, MH!SetSequence(s) PROVE MHInv'
  <2>1. Len(s) \in Nat
    BY StoresOK, LenProperties
  <2>. QED
    BY <1>6, <2>1 DEF MH!SetSequence
<1>7. ASSUME NEW single \in MH!Statuses, MH!Request(single) PROVE MHInv'
  <2> DEFINE n == MH!Attempts(single)
             result == MH!Response(n, single)
  <2>1. /\ n \in Nat /\ result \in MH!Statuses
        /\ Len(script) \in Nat /\ index \in Nat
    BY RequestIs
  <2>2. /\ response' = result /\ UNCHANGED script
        /\ index' = IF index + n + 1 < Len(script) THEN index + n + 1 ELSE Len(script)
        /\ streak' = IF result = "ok" THEN 0 ELSE IF streak < Threshold THEN streak + 1 ELSE streak
        /\ MH!UpdateCircuit(result = "ok")
    BY <1>7 DEF MH!Request
  <2>. QED
    BY <2>1, <2>2 DEF MH!UpdateCircuit
<1>. QED
  BY <1>1, <1>2, <1>3, <1>4, <1>5, <1>6, <1>7 DEF MH!Next

LEMMA MHOpens ==
  ASSUME MHInv, NEW single \in MH!Statuses, MH!Request(single),
         circuit = "closed", circuit' = "open"
  PROVE  streak' >= Threshold
<1> DEFINE result == MH!Response(MH!Attempts(single), single)
<1>1. /\ streak' = IF result = "ok" THEN 0 ELSE IF streak < Threshold THEN streak + 1 ELSE streak
      /\ MH!UpdateCircuit(result = "ok")
  BY DEF MH!Request
<1>. QED
  BY <1>1, RLBounds DEF MH!UpdateCircuit, MHInv, MH!TypeOK

-----------------------------------------------------------------------------
(* RateLimiter, the arithmetic: what a bucket or a window still grants at  *)
(* time n fits what it granted since, s.                                   *)

\* The tokens a bucket has after a refill.
Level(b, n) ==
  LET m == IF n > b.last THEN b.tokens + Rate * (n - b.last) ELSE b.tokens
  IN IF m > Capacity THEN Capacity ELSE m

BucketFits(b, n, s) == \A t \in 0..n : s[t] + Level(b, n) <= Capacity + Rate * (n - t)

\* Of what was granted within a window's length, each grant is a stamp that is
\* recent enough.
WindowFits(w, n, s) ==
  \A t \in RL!Time :
    t >= n - RL!WindowSize =>
      /\ s[t] <= Len(w.stamps)
      /\ \A i \in 1..Len(w.stamps) : i > Len(w.stamps) - s[t] => w.stamps[i] >= t

Fits(e, n, s) == IF RL!IsWindow(e) THEN WindowFits(e, n, s) ELSE BucketFits(e, n, s)

Grants == [RL!Time -> Nat]

\* Windows whose stamps are not in the future.
Entries(n) ==
  RL!Buckets \cup {w \in RL!Windows : \A i \in 1..Len(w.stamps) : w.stamps[i] <= n}

LEMMA TimesAre ==
  /\ RL!WindowSize \in Nat
  /\ RL!Time = 0..MaxTime /\ RL!Time \subseteq Nat
  /\ RL!Wall \in Nat /\ \A n \in RL!Time : n < RL!Wall
<1>1. \A a \in Nat, b \in Nat \ {0} : a \div b \in Nat
  OBVIOUS
<1>. QED
  BY <1>1, RLBounds DEF RL!WindowSize, RL!Time, RL!Wall

LEMMA BucketIs ==
  ASSUME NEW b \in RL!Buckets
  PROVE  /\ b.tokens \in 0..Capacity /\ b.last \in Nat
         /\ ~RL!IsWindow(b) /\ b # RL!None
BY TimesAre DEF RL!Buckets, RL!IsWindow, RL!None

LEMMA BucketMade ==
  ASSUME NEW k \in 0..Capacity, NEW n \in RL!Time \cup {RL!Wall}
  PROVE  /\ RL!Bucket(k, n) \in RL!Buckets
         /\ RL!Bucket(k, n).tokens = k /\ RL!Bucket(k, n).last = n
         /\ Level(RL!Bucket(k, n), n) = k
BY RLBounds, TimesAre DEF RL!Bucket, RL!Buckets, Level

LEMMA LevelIs ==
  ASSUME NEW b \in RL!Buckets, NEW n \in RL!Time
  PROVE  Level(b, n) \in 0..Capacity /\ Level(b, n + 1) <= Level(b, n) + Rate
<1>1. b.tokens \in 0..Capacity /\ b.last \in Nat /\ n \in Nat
  BY BucketIs, TimesAre
<1>2. n > b.last => Rate * (n - b.last) \in Nat /\ Rate * ((n + 1) - b.last) = Rate * (n - b.last) + Rate
  BY <1>1, RLBounds
<1>3. n = b.last => Rate * ((n + 1) - b.last) = Rate
  BY <1>1, RLBounds
<1>. QED
  BY <1>1, <1>2, <1>3, RLBounds DEF Level

\* A tick refills no more than what it allows.
LEMMA BucketElapses ==
  ASSUME NEW b \in RL!Buckets, NEW n \in RL!Time, n + 1 \in RL!Time, NEW s \in Grants,
         s[n + 1] = 0, BucketFits(b, n, s)
  PROVE  BucketFits(b, n + 1, s)
<1>1. n \in Nat /\ Level(b, n) \in 0..Capacity /\ Level(b, n + 1) \in 0..Capacity /\ Level(b, n + 1) <= Level(b, n) + Rate
  BY LevelIs, TimesAre
<1>2. ASSUME NEW t \in 0..(n + 1)
      PROVE  s[t] + Level(b, n + 1) <= Capacity + Rate * ((n + 1) - t)
  <2>1. CASE t = n + 1
    <3>1. Rate * ((n + 1) - t) = 0
      BY <2>1, <1>1, RLBounds
    <3>. QED
      BY <3>1, <2>1, <1>1, RLBounds
  <2>2. CASE t \in 0..n
    <3>1. s[t] + Level(b, n) <= Capacity + Rate * (n - t)
      BY <2>2 DEF BucketFits
    <3>2. n - t \in Nat /\ (n + 1) - t = (n - t) + 1
      BY <2>2, <1>1
    <3>3. Rate * (n - t) \in Nat /\ Rate * ((n - t) + 1) = Rate * (n - t) + Rate
      BY <3>2, RLBounds
    <3>4. s[t] \in Nat
      <4>1. n \in 0..MaxTime /\ t \in RL!Time
        BY <2>2, TimesAre, RLBounds
      <4>. QED
        BY <4>1 DEF Grants
    <3>. HIDE DEF Level
    <3>. QED
      BY <3>1, <3>2, <3>3, <3>4, <1>1, RLBounds
  <2>. QED
    BY <2>1, <2>2, <1>1
<1>. QED
  BY <1>2 DEF BucketFits

\* The tokens that are taken are those that are granted.
LEMMA BucketSpends ==
  ASSUME NEW b \in RL!Buckets, NEW n \in RL!Time, NEW s \in Grants, BucketFits(b, n, s),
         NEW c \in Nat, c <= Level(b, n)
  PROVE  /\ RL!Bucket(Level(b, n) - c, n) \in RL!Buckets
         /\ BucketFits(RL!Bucket(Level(b, n) - c, n), n,
                       [t \in RL!Time |-> IF t <= n THEN s[t] + c ELSE s[t]])
<1> DEFINE k == Level(b, n) - c
           s2 == [t \in RL!Time |-> IF t <= n THEN s[t] + c ELSE s[t]]
<1>1. Level(b, n) \in 0..Capacity /\ k \in 0..Capacity /\ n \in 0..MaxTime
  BY LevelIs, RLBounds, TimesAre
<1>2. RL!Bucket(k, n) \in RL!Buckets /\ Level(RL!Bucket(k, n), n) = k
  BY <1>1, BucketMade
<1>3. ASSUME NEW t \in 0..n
      PROVE  s2[t] + k <= Capacity + Rate * (n - t)
  <2>1. s2[t] = s[t] + c /\ s[t] \in Nat
    <3>1. t \in RL!Time /\ t <= n
      BY <1>1, TimesAre, RLBounds
    <3>. QED
      BY <3>1 DEF Grants
  <2>2. s[t] + Level(b, n) <= Capacity + Rate * (n - t)
    BY DEF BucketFits
  <2>3. Rate * (n - t) \in Nat
    BY <1>1, RLBounds
  <2>. HIDE DEF s2
  <2>. QED
    BY <2>1, <2>2, <2>3, <1>1, RLBounds
<1>. QED
  BY <1>2, <1>3 DEF BucketFits

\* Where nothing was granted yet, everything fits.
Unspent(s) == \A t \in RL!Time : s[t] = 0

LEMMA FreshFits ==
  ASSUME NEW s \in Grants, Unspent(s), NEW n \in RL!Time, NEW e \in RL!Buckets \cup RL!Windows
  PROVE  Fits(e, n, s)
<1>1. CASE e \in RL!Buckets
  <2>1. ~RL!IsWindow(e) /\ Level(e, n) \in 0..Capacity /\ n \in 0..MaxTime
    BY <1>1, BucketIs, LevelIs, TimesAre
  <2>2. ASSUME NEW t \in 0..n PROVE s[t] + Level(e, n) <= Capacity + Rate * (n - t)
    <3>1. s[t] = 0 /\ Rate * (n - t) \in Nat
      BY <2>1, TimesAre, RLBounds DEF Unspent
    <3>. QED
      BY <3>1, <2>1, RLBounds
  <2>. QED
    BY <2>1, <2>2 DEF Fits, BucketFits
<1>2. CASE e \in RL!Windows
  <2>1. RL!IsWindow(e) /\ e.stamps \in Seq(RL!Time)
    BY <1>2 DEF RL!Windows, RL!IsWindow
  <2>2. Len(e.stamps) \in Nat
    BY <2>1, LenProperties
  <2>3. WindowFits(e, n, s)
    BY <2>2 DEF WindowFits, Unspent
  <2>. QED
    BY <2>1, <2>3 DEF Fits
<1>. QED
  BY <1>1, <1>2

LEMMA WindowIs ==
  ASSUME NEW w \in RL!Windows
  PROVE  /\ w.stamps \in Seq(RL!Time) /\ Len(w.stamps) \in 0..Capacity
         /\ \A i \in 1..Len(w.stamps) : w.stamps[i] \in Nat /\ w.stamps[i] \in RL!Time
         /\ \A i, k \in 1..Len(w.stamps) : i < k => w.stamps[i] <= w.stamps[k]
         /\ RL!IsWindow(w) /\ w # RL!None
<1>1. w.stamps \in Seq(RL!Time) /\ Len(w.stamps) <= Capacity /\ w.kind = "window"
  BY DEF RL!Windows
<1>2. Len(w.stamps) \in Nat /\ DOMAIN w.stamps = 1..Len(w.stamps)
  BY <1>1, LenProperties
<1>3. \A i \in 1..Len(w.stamps) : w.stamps[i] \in RL!Time
  BY <1>1, <1>2, ElementOfSeq
<1>. QED
  BY <1>1, <1>2, <1>3, TimesAre, RLBounds DEF RL!Windows, RL!IsWindow, RL!None

LEMMA WindowMade ==
  ASSUME NEW s \in Seq(RL!Time), Len(s) <= Capacity,
         \A i, k \in 1..Len(s) : i < k => s[i] <= s[k]
  PROVE  RL!Window(s) \in RL!Windows /\ RL!Window(s).stamps = s /\ RL!IsWindow(RL!Window(s))
<1>1. DOMAIN s = 1..Len(s)
  BY LenProperties
<1>. QED
  BY <1>1 DEF RL!Windows, RL!Window, RL!IsWindow

\* popleft takes the stamps before the cut-off and no other.
LEMMA PoppedIs ==
  ASSUME NEW w \in RL!Windows, NEW c \in Int
  PROVE  /\ RL!Popped(w.stamps, c) \in 0..Len(w.stamps)
         /\ \A i \in 1..RL!Popped(w.stamps, c) : w.stamps[i] < c
<1> DEFINE q == w.stamps
           S == {n \in 0..Len(q) : n < Len(q) => q[n + 1] >= c}
<1>1. Len(q) \in Nat /\ \A i \in 1..Len(q) : q[i] \in Nat
  BY WindowIs
<1>2. PICK n \in S : \A m \in S : n <= m
  <2>1. S \subseteq Nat /\ Len(q) \in S
    BY <1>1
  <2>. HIDE DEF S
  <2>. QED
    BY <2>1, Least
<1>3. ASSUME NEW i \in 1..n PROVE q[i] < c
  <2>1. i - 1 \in 0..Len(q) /\ i - 1 < n /\ i - 1 < Len(q) /\ (i - 1) + 1 = i
    BY <1>1
  <2>2. i - 1 \notin S
    BY <1>2, <2>1
  <2>3. ~(q[(i - 1) + 1] >= c)
    BY <2>1, <2>2
  <2>4. q[i] \in Nat
    BY <1>1
  <2>. QED
    BY <2>1, <2>3, <2>4
<1>4. n \in 0..Len(q) /\ (n < Len(q) => q[n + 1] >= c)
  BY <1>2
<1>. HIDE DEF q, S
<1>5. /\ RL!Popped(q, c) \in 0..Len(q)
      /\ \A i \in 1..RL!Popped(q, c) : q[i] < c
  BY <1>3, <1>4 DEF RL!Popped
<1>. QED
  BY <1>5 DEF q

\* A window without the stamps before n - WindowSize.
Pruned(w, n) == RL!Window(SubSeq(w.stamps, RL!Popped(w.stamps, n - RL!WindowSize) + 1, Len(w.stamps)))

\* What is left of a window after k stamps are gone.
LEMMA PrunedIs ==
  ASSUME NEW w \in RL!Windows, NEW n \in RL!Time
  PROVE  \E k \in 0..Len(w.stamps) :
           /\ \A i \in 1..k : w.stamps[i] < n - RL!WindowSize
           /\ Pruned(w, n) \in RL!Windows
           /\ Len(Pruned(w, n).stamps) = Len(w.stamps) - k
           /\ \A i \in 1..(Len(w.stamps) - k) : Pruned(w, n).stamps[i] = w.stamps[k + i]
<1> DEFINE c == n - RL!WindowSize
           k == RL!Popped(w.stamps, c)
           L == Len(w.stamps)
           r == SubSeq(w.stamps, k + 1, L)
<1>1. c \in Int
  BY TimesAre
<1>2. /\ k \in 0..L /\ \A i \in 1..k : w.stamps[i] < c
      /\ L \in 0..Capacity /\ L \in Nat
      /\ \A i \in 1..L : w.stamps[i] \in RL!Time /\ w.stamps[i] \in Nat
      /\ \A i, j \in 1..L : i < j => w.stamps[i] <= w.stamps[j]
  <2>1. k \in 0..L /\ \A i \in 1..k : w.stamps[i] < c
    BY <1>1, PoppedIs
  <2>2. L \in 0..Capacity /\ L \in Nat
    BY WindowIs
  <2>. QED
    BY <2>1, <2>2, WindowIs
<1>3. /\ r \in Seq(RL!Time)
      /\ Len(r) = L - k
      /\ \A i \in 1..(L - k) : r[i] = w.stamps[k + i]
  <2>1. k + 1 \in Int /\ L \in Int /\ \A i \in (k + 1)..L : w.stamps[i] \in RL!Time
    BY <1>2
  <2>2. /\ r \in Seq(RL!Time)
        /\ Len(r) = IF k + 1 <= L THEN L - (k + 1) + 1 ELSE 0
        /\ \A i \in 1..(L - (k + 1) + 1) : r[i] = w.stamps[(k + 1) + i - 1]
    BY <2>1, SubSeqProperties
  <2>. HIDE DEF r, k, L
  <2>3. L - (k + 1) + 1 = L - k /\ \A i \in 1..(L - k) : (k + 1) + i - 1 = k + i
    BY <1>2
  <2>. QED
    BY <1>2, <2>2, <2>3
<1>4. \A i, j \in 1..Len(r) : i < j => r[i] <= r[j]
  <2>. HIDE DEF r, k, L
  <2>1. SUFFICES ASSUME NEW i \in 1..(L - k), NEW j \in 1..(L - k), i < j
                 PROVE  w.stamps[k + i] <= w.stamps[k + j]
    BY <1>3
  <2>2. k + i \in 1..L /\ k + j \in 1..L /\ k + i < k + j
    BY <1>2, <2>1
  <2>. QED
    BY <1>2, <2>2
<1>5. RL!Window(r) \in RL!Windows /\ RL!Window(r).stamps = r
  <2>1. Len(r) <= Capacity
    <3>. HIDE DEF r, k, L
    <3>. QED
      BY <1>2, <1>3, RLBounds
  <2>. HIDE DEF r
  <2>. QED
    BY <2>1, <1>3, <1>4, WindowMade
<1>6. Pruned(w, n) = RL!Window(r)
  BY DEF Pruned
<1>. HIDE DEF r, k, L, c
<1>7. /\ Pruned(w, n) \in RL!Windows
      /\ Len(Pruned(w, n).stamps) = L - k
      /\ \A i \in 1..(L - k) : Pruned(w, n).stamps[i] = w.stamps[k + i]
  BY <1>3, <1>5, <1>6
<1>. QED
  BY <1>2, <1>7 DEF L, c

\* Pruning takes nothing that was granted within a window's length.
LEMMA PrunedFits ==
  ASSUME NEW w \in RL!Windows, NEW n \in RL!Time, NEW s \in Grants,
         WindowFits(w, n, s)
  PROVE  WindowFits(Pruned(w, n), n, s)
<1> DEFINE L == Len(w.stamps)
           p == Pruned(w, n)
<1>1. PICK k \in 0..L :
           /\ \A i \in 1..k : w.stamps[i] < n - RL!WindowSize
           /\ Len(p.stamps) = L - k
           /\ \A i \in 1..(L - k) : p.stamps[i] = w.stamps[k + i]
  BY PrunedIs
<1>2. L \in Nat /\ n \in Nat /\ RL!WindowSize \in Nat /\ \A i \in 1..L : w.stamps[i] \in Nat
  BY WindowIs, TimesAre
<1>. HIDE DEF L, p
<1>3. ASSUME NEW t \in RL!Time, t >= n - RL!WindowSize
      PROVE  /\ s[t] <= Len(p.stamps)
             /\ \A i \in 1..Len(p.stamps) : i > Len(p.stamps) - s[t] => p.stamps[i] >= t
  <2>1. s[t] <= L /\ \A i \in 1..L : i > L - s[t] => w.stamps[i] >= t
    BY <1>3 DEF WindowFits, L
  <2>2. s[t] \in Nat /\ t \in Nat
    BY TimesAre DEF Grants
  <2>3. k <= L - s[t]
    <3>1. SUFFICES ASSUME k > L - s[t] PROVE FALSE
      BY <1>1, <1>2, <2>2
    <3>2. k \in 1..L /\ k \in 1..k
      BY <1>1, <1>2, <2>1, <2>2, <3>1
    <3>3. w.stamps[k] >= t /\ w.stamps[k] < n - RL!WindowSize /\ w.stamps[k] \in Nat
      BY <1>1, <1>2, <2>1, <3>1, <3>2
    <3>. QED
      BY <3>3, <1>2, <1>3, <2>2
  <2>4. ASSUME NEW i \in 1..(L - k), i > (L - k) - s[t] PROVE p.stamps[i] >= t
    <3>1. k + i \in 1..L /\ k + i > L - s[t]
      BY <1>2, <2>2, <2>4
    <3>. QED
      BY <1>1, <2>1, <3>1, <2>4
  <2>. QED
    BY <1>1, <1>2, <2>2, <2>3, <2>4
<1>. QED
  BY <1>3 DEF WindowFits, p

\* A stamp for a grant.
LEMMA WindowSpends ==
  ASSUME NEW w \in RL!Windows, NEW n \in RL!Time, NEW s \in Grants, WindowFits(w, n, s),
         \A i \in 1..Len(w.stamps) : w.stamps[i] <= n,
         Len(w.stamps) < Capacity,
         \A t \in RL!Time : t > n => s[t] = 0
  PROVE  /\ RL!Window(Append(w.stamps, n)) \in RL!Windows
         /\ \A i \in 1..Len(Append(w.stamps, n)) : Append(w.stamps, n)[i] <= n
         /\ WindowFits(RL!Window(Append(w.stamps, n)), n,
                       [t \in RL!Time |-> IF t <= n THEN s[t] + 1 ELSE s[t]])
<1> DEFINE L == Len(w.stamps)
           a == Append(w.stamps, n)
           s2 == [t \in RL!Time |-> IF t <= n THEN s[t] + 1 ELSE s[t]]
<1>1. /\ L \in Nat /\ n \in Nat /\ L < Capacity
      /\ \A i \in 1..L : w.stamps[i] \in Nat /\ w.stamps[i] <= n
      /\ \A i, j \in 1..L : i < j => w.stamps[i] <= w.stamps[j]
      /\ w.stamps \in Seq(RL!Time)
  BY WindowIs, TimesAre
<1>2. /\ a \in Seq(RL!Time) /\ Len(a) = L + 1
      /\ \A i \in 1..L : a[i] = w.stamps[i]
      /\ a[L + 1] = n
  BY <1>1, AppendIs
<1>. HIDE DEF a, L
<1>3. \A i \in 1..Len(a) : a[i] <= n /\ a[i] \in Nat
  BY <1>1, <1>2
<1>4. \A i, j \in 1..Len(a) : i < j => a[i] <= a[j]
  <2>1. SUFFICES ASSUME NEW i \in 1..(L + 1), NEW j \in 1..(L + 1), i < j
                 PROVE  a[i] <= a[j]
    BY <1>2
  <2>2. CASE j = L + 1
    BY <2>2, <1>2, <1>3
  <2>3. CASE j \in 1..L
    <3>1. i \in 1..L
      BY <2>1, <2>3, <1>1
    <3>. QED
      BY <2>1, <2>3, <3>1, <1>1, <1>2
  <2>. QED
    BY <2>2, <2>3, <1>1
<1>5. RL!Window(a) \in RL!Windows /\ RL!Window(a).stamps = a
  BY <1>1, <1>2, <1>4, WindowMade, RLBounds
<1>6. ASSUME NEW t \in RL!Time, t >= n - RL!WindowSize
      PROVE  /\ s2[t] <= Len(a)
             /\ \A i \in 1..Len(a) : i > Len(a) - s2[t] => a[i] >= t
  <2>1. s[t] <= L /\ \A i \in 1..L : i > L - s[t] => w.stamps[i] >= t
    BY <1>6 DEF WindowFits, L
  <2>2. s[t] \in Nat /\ t \in Nat /\ s2[t] = IF t <= n THEN s[t] + 1 ELSE 0
    BY TimesAre DEF Grants
  <2>. HIDE DEF s2
  <2>3. CASE t <= n
    <3>0. s2[t] = s[t] + 1
      BY <2>2, <2>3
    <3>1. s2[t] = s[t] + 1 /\ Len(a) - s2[t] = L - s[t]
      <4>1. \A l, m \in Nat : (l + 1) - (m + 1) = l - m
        OBVIOUS
      <4>2. (L + 1) - (s[t] + 1) = L - s[t]
        BY <4>1, <1>1, <2>2
      <4>. QED
        BY <4>2, <3>0, <1>2, Zenon
    <3>2. ASSUME NEW i \in 1..(L + 1), i > L - s[t] PROVE a[i] >= t
      <4>1. CASE i = L + 1
        BY <4>1, <1>2, <2>3
      <4>2. CASE i \in 1..L
        BY <4>2, <3>2, <2>1, <1>2
      <4>. QED
        BY <4>1, <4>2, <1>1
    <3>. QED
      BY <3>1, <3>2, <1>1, <1>2, <2>1, <2>2
  <2>4. CASE t > n
    BY <2>2, <2>4, <1>1, <1>2
  <2>. QED
    BY <2>3, <2>4, <1>1, <2>2
<1>7. WindowFits(RL!Window(a), n, s2)
  <2>. HIDE DEF s2
  <2>. QED
    BY <1>5, <1>6 DEF WindowFits
<1>. QED
  BY <1>3, <1>5, <1>7 DEF a

-----------------------------------------------------------------------------
(* RateLimiter, the states: with one process the entry its next call goes  *)
(* on from fits what was granted, and so does the one a call in progress   *)
(* works on, unless what was granted has just been forgotten.              *)

RLTyped ==
  /\ now \in RL!Time
  /\ cache \in Entries(now) \cup {RL!None}
  /\ buckets \in [Limiters -> RL!Buckets \cup {RL!None}]
  /\ windows \in [Limiters -> (Entries(now) \cap RL!Windows) \cup {RL!None}]
  /\ state \in [Limiters -> Entries(now) \cup {RL!None}]
  /\ local \in [Limiters -> BOOLEAN]
  /\ spent \in Grants

\* What a call falls back on, and what it goes on from, where the cache has c
\* and the process the window w and the bucket b.
Mine(w, b) == IF w # RL!None THEN w ELSE IF b = RL!None THEN RL!NewBucket ELSE b

Effective(c, w, b) ==
  IF c # RL!None /\ RL!IsWindow(c) = (w # RL!None) THEN c ELSE Mine(w, b)

\* Nothing is granted in the future, and no interval that is over held more
\* than Capacity grants.
Past(n, s) == \A t \in RL!Time : t > n => s[t] = 0
Old(n, s)  == \A t \in RL!Time : t + RL!WindowSize < n => s[t] - s[t + RL!WindowSize + 1] <= Capacity

RLLimit(p) ==
  /\ SharedCache \/ cache = RL!None
  /\ Past(now, spent)
  /\ Fits(Effective(cache, windows[p], buckets[p]), now, spent)
  /\ RL!Windowed(p) => Old(now, spent)
  /\ state[p] # RL!None =>
       /\ RL!IsWindow(state[p]) = RL!Windowed(p)
       /\ state[p] = Effective(cache, windows[p], buckets[p]) \/ Unspent(spent)
       /\ local[p] \/ SharedCache

RLInv ==
  /\ RLTyped
  /\ \A p \in Limiters : Limiters = {p} => RLLimit(p)

LEMMA EntryIs ==
  ASSUME NEW n \in RL!Time, NEW e \in Entries(n)
  PROVE  /\ e # RL!None /\ e \in RL!Buckets \cup RL!Windows
         /\ RL!IsWindow(e) => e \in RL!Windows /\ \A i \in 1..Len(e.stamps) : e.stamps[i] <= n
         /\ ~RL!IsWindow(e) => e \in RL!Buckets
         /\ RL!IsWindow(e) \in BOOLEAN
BY BucketIs, WindowIs DEF Entries, RL!IsWindow

LEMMA NewIs ==
  /\ RL!NewBucket \in RL!Buckets
  /\ RL!Window(<<>>) \in RL!Windows /\ \A n \in RL!Time : RL!Window(<<>>) \in Entries(n)
  /\ \A n \in RL!Time : RL!Buckets \subseteq Entries(n) /\ (n + 1 \in RL!Time => Entries(n) \subseteq Entries(n + 1))
<1>1. RL!NewBucket \in RL!Buckets
  BY BucketMade, RLBounds DEF RL!NewBucket
<1>2. <<>> \in Seq(RL!Time) /\ Len(<<>>) = 0
  BY EmptySeq
<1>3. RL!Window(<<>>) \in RL!Windows /\ RL!Window(<<>>).stamps = <<>>
  <2>1. \A s \in Seq(RL!Time) :
          Len(s) = 0 => RL!Window(s) \in RL!Windows /\ RL!Window(s).stamps = s
    <3>1. SUFFICES ASSUME NEW s \in Seq(RL!Time), Len(s) = 0
                   PROVE  RL!Window(s) \in RL!Windows /\ RL!Window(s).stamps = s
      OBVIOUS
    <3>2. Len(s) <= Capacity /\ \A i, k \in 1..Len(s) : i < k => s[i] <= s[k]
      BY <3>1, RLBounds
    <3>. QED
      BY <3>2, WindowMade
  <2>. QED
    BY <1>2, <2>1, Zenon
<1>4. \A n \in RL!Time : RL!Window(<<>>) \in Entries(n)
  BY <1>2, <1>3 DEF Entries
<1>5. ASSUME NEW n \in RL!Time, n + 1 \in RL!Time, NEW e \in Entries(n) PROVE e \in Entries(n + 1)
  <2>1. CASE e \in RL!Buckets
    BY <2>1 DEF Entries
  <2>2. CASE e \in RL!Windows
    <3>1. \A i \in 1..Len(e.stamps) : e.stamps[i] <= n
      BY <2>2, EntryIs, WindowIs
    <3>2. \A i \in 1..Len(e.stamps) : e.stamps[i] <= n + 1
      BY <3>1, <2>2, WindowIs, TimesAre
    <3>. QED
      BY <2>2, <3>2 DEF Entries
  <2>. QED
    BY <2>1, <2>2, <1>5 DEF Entries
<1>. QED
  BY <1>1, <1>3, <1>4, <1>5 DEF Entries

LEMMA EffectiveIs ==
  ASSUME NEW n \in RL!Time,
         NEW c \in Entries(n) \cup {RL!None},
         NEW w \in (Entries(n) \cap RL!Windows) \cup {RL!None},
         NEW b \in RL!Buckets \cup {RL!None}
  PROVE  /\ Mine(w, b) \in Entries(n) /\ RL!IsWindow(Mine(w, b)) = (w # RL!None)
         /\ Effective(c, w, b) \in Entries(n) /\ RL!IsWindow(Effective(c, w, b)) = (w # RL!None)
<1>1. Mine(w, b) \in Entries(n) /\ RL!IsWindow(Mine(w, b)) = (w # RL!None)
  <2>1. CASE w # RL!None
    <3>1. Mine(w, b) = w /\ w \in RL!Windows /\ w \in Entries(n)
      BY <2>1 DEF Mine
    <3>2. RL!IsWindow(w)
      BY <3>1, WindowIs
    <3>. QED
      BY <3>1, <3>2, <2>1
  <2>2. CASE w = RL!None
    <3>1. Mine(w, b) \in RL!Buckets
      BY <2>2, NewIs DEF Mine
    <3>2. ~RL!IsWindow(Mine(w, b)) /\ Mine(w, b) \in Entries(n)
      BY <3>1, BucketIs, NewIs
    <3>. QED
      BY <3>2, <2>2 DEF RL!IsWindow
  <2>. QED
    BY <2>1, <2>2
<1>2. Effective(c, w, b) \in {c, Mine(w, b)}
  BY DEF Effective
<1>. QED
  BY <1>1, <1>2 DEF Effective

\* What a call works on, refilled or pruned.
LEMMA CurrentIs ==
  ASSUME RLTyped, NEW p \in Limiters, state[p] # RL!None
  PROVE  /\ RL!Current(p) \in Entries(now)
         /\ RL!IsWindow(RL!Current(p)) = RL!IsWindow(state[p])
         /\ ~RL!IsWindow(state[p]) => RL!Current(p) = RL!Bucket(Level(state[p], now), now)
         /\ \A s \in Grants : Fits(state[p], now, s) => Fits(RL!Current(p), now, s)
<1> DEFINE e == state[p]
           c == RL!Current(p)
<1>1. e \in Entries(now) /\ now \in RL!Time
  BY DEF RLTyped
<1>2. CASE RL!IsWindow(e)
  <2>1. e \in RL!Windows /\ \A i \in 1..Len(e.stamps) : e.stamps[i] <= now
    BY <1>1, <1>2, EntryIs
  <2>2. c = Pruned(e, now)
    BY <1>2 DEF RL!Current, RL!Prune, Pruned
  <2>3. PICK k \in 0..Len(e.stamps) :
           /\ c \in RL!Windows
           /\ Len(c.stamps) = Len(e.stamps) - k
           /\ \A i \in 1..(Len(e.stamps) - k) : c.stamps[i] = e.stamps[k + i]
    <3>1. \E k \in 0..Len(e.stamps) :
            /\ Pruned(e, now) \in RL!Windows
            /\ Len(Pruned(e, now).stamps) = Len(e.stamps) - k
            /\ \A i \in 1..(Len(e.stamps) - k) : Pruned(e, now).stamps[i] = e.stamps[k + i]
      BY <2>1, <1>1, PrunedIs
    <3>. QED
      BY <3>1, <2>2, Zenon
  <2>4. \A i \in 1..Len(c.stamps) : c.stamps[i] <= now
    <3>1. Len(e.stamps) \in Nat
      BY <2>1, WindowIs
    <3>2. \A i \in 1..(Len(e.stamps) - k) : k + i \in 1..Len(e.stamps)
      BY <3>1
    <3>. QED
      BY <2>1, <2>3, <3>2
  <2>5. c \in Entries(now) /\ RL!IsWindow(c)
    BY <2>3, <2>4, WindowIs DEF Entries
  <2>6. \A s \in Grants : WindowFits(e, now, s) => WindowFits(c, now, s)
    BY <2>1, <2>2, <1>1, PrunedFits
  <2>. QED
    BY <1>2, <2>5, <2>6 DEF Fits, RL!IsWindow
<1>3. CASE ~RL!IsWindow(e)
  <2>1. e \in RL!Buckets
    BY <1>1, <1>3, EntryIs
  <2>2. c = RL!Bucket(Level(e, now), now)
    BY <1>3 DEF RL!Current, RL!Refill, Level
  <2>3. Level(e, now) \in 0..Capacity
    BY <2>1, <1>1, LevelIs
  <2>4. c \in RL!Buckets /\ Level(c, now) = Level(e, now)
    BY <2>2, <2>3, <1>1, BucketMade
  <2>5. c \in Entries(now) /\ ~RL!IsWindow(c)
    BY <2>4, <1>1, NewIs, BucketIs
  <2>6. \A s \in Grants : BucketFits(e, now, s) => BucketFits(c, now, s)
    BY <2>4 DEF BucketFits
  <2>. QED
    BY <1>3, <2>2, <2>5, <2>6 DEF Fits, RL!IsWindow
<1>. QED
  BY <1>2, <1>3

\* Once everything is forgotten, whatever is stored fits.
LEMMA ForgottenFits ==
  ASSUME RLTyped', NEW p \in Limiters, Unspent(spent'),
         SharedCache \/ cache' = RL!None,
         (state[p] # RL!None => RL!IsWindow(state[p]) = RL!Windowed(p) /\ (local[p] \/ SharedCache))'
  PROVE  RLLimit(p)'
<1> DEFINE eff == Effective(cache, windows[p], buckets[p])'
           s == spent'
           n == now'
<1>1. n \in RL!Time /\ s \in Grants /\ n \in Nat
  BY TimesAre DEF RLTyped
<1>2. eff \in Entries(n)
  BY EffectiveIs DEF RLTyped
<1>. HIDE DEF eff, s, n
<1>3. Fits(eff, n, s)
  <2>1. eff \in RL!Buckets \cup RL!Windows
    BY <1>1, <1>2, EntryIs
  <2>. QED
    BY <1>1, <2>1, FreshFits DEF s
<1>4. Past(n, s)
  BY DEF Past, Unspent, s
<1>5. Old(n, s)
  <2>1. SUFFICES ASSUME NEW t \in RL!Time, t + RL!WindowSize < n
                 PROVE  s[t] - s[t + RL!WindowSize + 1] <= Capacity
    BY DEF Old
  <2>2. t + RL!WindowSize + 1 \in RL!Time
    BY <2>1, <1>1, TimesAre, RLBounds
  <2>3. s[t] = 0 /\ s[t + RL!WindowSize + 1] = 0
    BY <2>1, <2>2 DEF Unspent, s
  <2>. QED
    BY <2>3, RLBounds
<1>. QED
  BY <1>3, <1>4, <1>5 DEF RLLimit, eff, s, n

LEMMA ForgetIs == ASSUME RL!Forget PROVE Unspent(spent') /\ spent' \in Grants
BY DEF RL!Forget, Unspent, Grants

LEMMA LeaveTyped ==
  ASSUME RLTyped, NEW p \in Limiters, NEW e \in Entries(now), RL!Leave(p, e),
         cache' \in {cache, e}, spent' \in Grants
  PROVE  RLTyped'
<1>1. now' = now /\ now \in RL!Time
  BY DEF RL!Leave, RLTyped
<1>2. IF RL!IsWindow(e) THEN e \in RL!Windows ELSE e \in RL!Buckets
  BY <1>1, EntryIs
<1>3. cache' \in Entries(now) \cup {RL!None}
  BY DEF RLTyped
<1>4. buckets' \in [Limiters -> RL!Buckets \cup {RL!None}]
  BY <1>2 DEF RLTyped, RL!Leave
<1>5. windows' \in [Limiters -> (Entries(now) \cap RL!Windows) \cup {RL!None}]
  BY <1>2 DEF RLTyped, RL!Leave
<1>6. state' \in [Limiters -> Entries(now) \cup {RL!None}] /\ local' \in [Limiters -> BOOLEAN]
  BY DEF RLTyped, RL!Leave
<1>. QED
  BY <1>1, <1>3, <1>4, <1>5, <1>6 DEF RLTyped

\* A call that ends having saved e and granted what that allows, or having
\* neither saved nor granted anything.
LEMMA LeaveFits ==
  ASSUME RLTyped, NEW p \in Limiters, RLLimit(p), state[p] # RL!None,
         NEW e \in Entries(now), RL!IsWindow(e) = RL!IsWindow(state[p]), RL!Leave(p, e),
         NEW s \in Grants, spent' = s,
         RL!Save(e) \/ (UNCHANGED cache /\ s = spent),
         Fits(e, now, s), Past(now, s), RL!Windowed(p) => Old(now, s)
  PROVE  RLLimit(p)'
<1>1. /\ now \in RL!Time /\ e # RL!None
      /\ cache \in Entries(now) \cup {RL!None}
      /\ windows[p] \in (Entries(now) \cap RL!Windows) \cup {RL!None}
      /\ buckets[p] \in RL!Buckets \cup {RL!None}
  BY EntryIs DEF RLTyped
<1>2. /\ now' = now /\ state'[p] = RL!None
      /\ windows'[p] = IF local[p] /\ RL!IsWindow(e) THEN e ELSE windows[p]
      /\ buckets'[p] = IF local[p] /\ ~RL!IsWindow(e) THEN e ELSE buckets[p]
  BY DEF RLTyped, RL!Leave
<1>3. /\ RL!IsWindow(e) = (windows[p] # RL!None)
      /\ local[p] \/ SharedCache
      /\ SharedCache \/ cache = RL!None
  BY DEF RLLimit, RL!Windowed
<1>4. (windows'[p] # RL!None) = (windows[p] # RL!None)
  BY <1>1, <1>2, <1>3
<1>5. SharedCache \/ cache' = RL!None
  BY <1>3 DEF RL!Save
<1>6. Fits(Effective(cache', windows'[p], buckets'[p]), now, s)
  <2>1. CASE SharedCache /\ RL!Save(e)
    <3>1. cache' = e
      BY <2>1 DEF RL!Save
    <3>2. Effective(cache', windows'[p], buckets'[p]) = e
      BY <3>1, <1>1, <1>3, <1>4 DEF Effective
    <3>. QED
      BY <3>2
  <2>2. CASE ~SharedCache
    <3>1. cache' = RL!None /\ local[p]
      BY <2>2, <1>3, <1>5
    <3>2. Effective(cache', windows'[p], buckets'[p]) = e
      BY <3>1, <1>1, <1>2, <1>3, <1>4 DEF Effective, Mine
    <3>. QED
      BY <3>2
  <2>3. CASE UNCHANGED cache /\ s = spent
    <3>1. Effective(cache', windows'[p], buckets'[p]) \in {Effective(cache, windows[p], buckets[p]), e}
      BY <2>3, <1>1, <1>2, <1>3, <1>4 DEF Effective, Mine
    <3>2. Fits(Effective(cache, windows[p], buckets[p]), now, s)
      BY <2>3 DEF RLLimit
    <3>. QED
      BY <3>1, <3>2
  <2>. QED
    BY <2>1, <2>2, <2>3
<1>. QED
  BY <1>2, <1>4, <1>5, <1>6 DEF RLLimit, RL!Windowed

\* A call that ends and fails to save.
LEMMA FailsKeeps ==
  ASSUME RLInv, NEW p \in Limiters, state[p] # RL!None,
         NEW e \in Entries(now), RL!Leave(p, e), RL!SaveFails
  PROVE  RLInv'
<1>1. UNCHANGED cache /\ Unspent(spent') /\ spent' \in Grants
  BY ForgetIs DEF RL!SaveFails
<1>2. RLTyped'
  BY <1>1, LeaveTyped DEF RLInv
<1>3. ASSUME Limiters = {p}, RLLimit(p) PROVE RLLimit(p)'
  <2>1. state'[p] = RL!None
    BY DEF RL!Leave, RLInv, RLTyped
  <2>2. SharedCache \/ cache' = RL!None
    BY <1>1, <1>3 DEF RLLimit
  <2>. QED
    BY <1>1, <1>2, <2>1, <2>2, ForgottenFits
<1>. QED
  BY <1>2, <1>3 DEF RLInv

\* A call that ends, in general.
LEMMA CallKeeps ==
  ASSUME RLInv, NEW p \in Limiters, state[p] # RL!None,
         NEW e \in Entries(now), RL!IsWindow(e) = RL!IsWindow(state[p]), RL!Leave(p, e),
         NEW s \in Grants, spent' = s,
         RL!Save(e) \/ (UNCHANGED cache /\ s = spent),
         RLLimit(p) => Fits(e, now, s) /\ Past(now, s) /\ (RL!Windowed(p) => Old(now, s))
  PROVE  RLInv'
<1>1. cache' \in {cache, e}
  BY DEF RL!Save
<1>2. RLTyped'
  BY <1>1, LeaveTyped DEF RLInv
<1>3. ASSUME Limiters = {p}, RLLimit(p) PROVE RLLimit(p)'
  BY <1>3, LeaveFits DEF RLInv
<1>. QED
  BY <1>2, <1>3 DEF RLInv

\* What the call in progress works on fits what was granted.
LEMMA StateFits ==
  ASSUME RLTyped, NEW p \in Limiters, RLLimit(p), state[p] # RL!None
  PROVE  Fits(state[p], now, spent)
<1>1. state[p] \in Entries(now) /\ now \in RL!Time /\ spent \in Grants
  BY DEF RLTyped
<1>2. CASE Unspent(spent)
  BY <1>1, <1>2, EntryIs, FreshFits
<1>3. CASE state[p] = Effective(cache, windows[p], buckets[p])
  BY <1>3 DEF RLLimit
<1>. QED
  BY <1>2, <1>3 DEF RLLimit

\* What is granted now is granted.
LEMMA GrantIs ==
  ASSUME NEW n \in RL!Time, NEW s \in Grants, NEW c \in Nat
  PROVE  LET s2 == [t \in RL!Time |-> IF t <= n THEN s[t] + c ELSE s[t]]
         IN  /\ s2 \in Grants
             /\ Past(n, s) => Past(n, s2)
             /\ Old(n, s) => Old(n, s2)
<1> DEFINE s2 == [t \in RL!Time |-> IF t <= n THEN s[t] + c ELSE s[t]]
<1>1. \A t \in RL!Time : s[t] \in Nat /\ s2[t] = IF t <= n THEN s[t] + c ELSE s[t]
  BY DEF Grants
<1>2. s2 \in Grants
  BY DEF Grants
<1>. HIDE DEF s2
<1>3. Past(n, s) => Past(n, s2)
  BY <1>1, TimesAre DEF Past
<1>4. Old(n, s) => Old(n, s2)
  <2>1. SUFFICES ASSUME Old(n, s), NEW t \in RL!Time, t + RL!WindowSize < n
                 PROVE  s2[t] - s2[t + RL!WindowSize + 1] <= Capacity
    BY DEF Old
  <2>2. t + RL!WindowSize + 1 \in RL!Time /\ t <= n /\ t + RL!WindowSize + 1 <= n
    BY <2>1, TimesAre, RLBounds
  <2>3. s2[t] = s[t] + c /\ s2[t + RL!WindowSize + 1] = s[t + RL!WindowSize + 1] + c
    BY <1>1, <2>2
  <2>4. s[t] - s[t + RL!WindowSize + 1] <= Capacity /\ s[t] \in Nat /\ s[t + RL!WindowSize + 1] \in Nat
    BY <2>1, <2>2, <1>1 DEF Old
  <2>. QED
    BY <2>3, <2>4, RLBounds
<1>. QED
  BY <1>2, <1>3, <1>4 DEF s2

LEMMA ConfigureKeeps ==
  ASSUME RLInv, NEW p \in Limiters, NEW k \in WindowTypes, RL!Configure(p, k)
  PROVE  RLInv'
<1> DEFINE e == IF k = "window" THEN RL!Window(<<>>) ELSE RL!NewBucket
<1>1. /\ now \in RL!Time /\ now' = now /\ state[p] = RL!None /\ UNCHANGED <<state, local>>
      /\ buckets' = [buckets EXCEPT ![p] = IF k = "window" THEN RL!None ELSE e]
      /\ windows' = [windows EXCEPT ![p] = IF k = "window" THEN e ELSE RL!None]
      /\ (RL!Save(e) /\ RL!Forget) \/ RL!SaveFails
  BY DEF RL!Configure, RL!call, RLInv, RLTyped
<1>2. /\ e \in Entries(now)
      /\ IF k = "window" THEN e \in RL!Windows ELSE e \in RL!Buckets
  BY <1>1, NewIs
<1>. HIDE DEF e
<1>3. cache' \in {cache, e} /\ Unspent(spent') /\ spent' \in Grants
  BY <1>1, ForgetIs DEF RL!Save, RL!SaveFails
<1>4. RLTyped'
  <2>1. buckets' \in [Limiters -> RL!Buckets \cup {RL!None}]
    BY <1>1, <1>2 DEF RLInv, RLTyped
  <2>2. windows' \in [Limiters -> (Entries(now) \cap RL!Windows) \cup {RL!None}]
    BY <1>1, <1>2 DEF RLInv, RLTyped
  <2>3. cache' \in Entries(now) \cup {RL!None}
    BY <1>2, <1>3 DEF RLInv, RLTyped
  <2>. QED
    BY <1>1, <1>3, <2>1, <2>2, <2>3 DEF RLInv, RLTyped
<1>5. ASSUME Limiters = {p}, RLLimit(p) PROVE RLLimit(p)'
  <2>1. SharedCache \/ cache' = RL!None
    BY <1>1, <1>5 DEF RLLimit, RL!Save, RL!SaveFails
  <2>2. state'[p] = RL!None
    BY <1>1
  <2>. QED
    BY <1>3, <1>4, <2>1, <2>2, ForgottenFits
<1>. QED
  BY <1>4, <1>5 DEF RLInv

LEMMA LoadKeeps ==
  ASSUME RLInv, NEW p \in Limiters, NEW failed \in BOOLEAN, RL!Load(p, failed)
  PROVE  RLInv'
<1> DEFINE shared == ~failed /\ cache # RL!None /\ RL!IsWindow(cache) = RL!Windowed(p)
           mine == Mine(windows[p], buckets[p])
           e == IF shared THEN cache ELSE mine
<1>1. /\ now \in RL!Time /\ now' = now /\ state[p] = RL!None /\ UNCHANGED <<cache, windows>>
      /\ state' = [state EXCEPT ![p] = e]
      /\ local' = [local EXCEPT ![p] = ~shared]
      /\ buckets' = [buckets EXCEPT ![p] = IF shared \/ RL!Windowed(p) THEN @ ELSE mine]
      /\ IF failed THEN RL!Forget ELSE UNCHANGED spent
  BY DEF RL!Load, RLInv, RLTyped, Mine, RL!Windowed
<1>2. /\ cache \in Entries(now) \cup {RL!None}
      /\ windows[p] \in (Entries(now) \cap RL!Windows) \cup {RL!None}
      /\ buckets[p] \in RL!Buckets \cup {RL!None}
      /\ shared \in BOOLEAN
  BY DEF RLInv, RLTyped
<1>3. mine \in Entries(now) /\ RL!IsWindow(mine) = RL!Windowed(p)
  BY <1>1, <1>2, EffectiveIs DEF RL!Windowed
<1>4. ~RL!Windowed(p) => mine \in RL!Buckets
  BY <1>1, <1>3, EntryIs DEF RL!IsWindow
<1>5. e \in Entries(now) /\ RL!IsWindow(e) = RL!Windowed(p)
  BY <1>2, <1>3
<1>6. ~failed => e = Effective(cache, windows[p], buckets[p])
  BY DEF Effective, RL!Windowed
<1>. HIDE DEF mine, e
<1>7. spent' \in Grants /\ (failed => Unspent(spent')) /\ (~failed => spent' = spent)
  BY <1>1, ForgetIs DEF RLInv, RLTyped
<1>8. RLTyped'
  <2>1. buckets' \in [Limiters -> RL!Buckets \cup {RL!None}]
    BY <1>1, <1>4 DEF RLInv, RLTyped
  <2>2. state' \in [Limiters -> Entries(now) \cup {RL!None}] /\ local' \in [Limiters -> BOOLEAN]
    BY <1>1, <1>5, <1>2 DEF RLInv, RLTyped
  <2>. QED
    BY <1>1, <1>7, <2>1, <2>2 DEF RLInv, RLTyped
<1>9. ASSUME Limiters = {p}, RLLimit(p) PROVE RLLimit(p)'
  <2>1. /\ state'[p] = e /\ RL!Windowed(p)' = RL!Windowed(p)
        /\ local'[p] = ~shared
    BY <1>1 DEF RLInv, RLTyped, RL!Windowed
  <2>2. local'[p] \/ SharedCache
    BY <2>1, <1>9, <1>2 DEF RLLimit
  <2>3. CASE failed
    BY <2>1, <2>2, <2>3, <1>1, <1>5, <1>7, <1>8, <1>9, ForgottenFits DEF RLLimit
  <2>4. CASE ~failed
    <3>1. Effective(cache', windows'[p], buckets'[p]) = Effective(cache, windows[p], buckets[p])
      <4>1. buckets'[p] = IF shared \/ RL!Windowed(p) THEN buckets[p] ELSE mine
        BY <1>1 DEF RLInv, RLTyped
      <4>2. Mine(windows[p], buckets'[p]) = mine \/ shared
        BY <4>1, <1>4, BucketIs DEF Mine, mine, RL!Windowed
      <4>3. UNCHANGED cache /\ windows'[p] = windows[p]
        BY <1>1
      <4>. QED
        BY <4>2, <4>3, <2>4 DEF Effective, mine, RL!Windowed
    <3>. QED
      BY <2>1, <2>2, <2>4, <3>1, <1>1, <1>5, <1>6, <1>7, <1>9 DEF RLLimit
  <2>. QED
    BY <2>3, <2>4
<1>. QED
  BY <1>8, <1>9 DEF RLInv

LEMMA AllowWindowKeeps ==
  ASSUME RLInv, NEW p \in Limiters, RL!AllowWindow(p)
  PROVE  RLInv'
<1> DEFINE w == RL!Current(p)
           e == RL!Window(Append(w.stamps, now))
           s == [t \in RL!Time |-> IF t <= now THEN spent[t] + 1 ELSE spent[t]]
<1>1. /\ state[p] # RL!None /\ RL!IsWindow(state[p])
      /\ Len(w.stamps) < Capacity
      /\ RL!Leave(p, e)
      /\ (RL!Save(e) /\ spent' = s) \/ RL!SaveFails
  BY DEF RL!AllowWindow, RL!Grant
<1>2. /\ w \in Entries(now) /\ RL!IsWindow(w)
      /\ \A x \in Grants : Fits(state[p], now, x) => Fits(w, now, x)
      /\ now \in RL!Time /\ spent \in Grants
  BY <1>1, CurrentIs DEF RLInv, RLTyped, RL!IsWindow
<1>3. w \in RL!Windows /\ \A i \in 1..Len(w.stamps) : w.stamps[i] <= now
  BY <1>2, EntryIs
<1>. HIDE DEF w
<1>4. e \in Entries(now) /\ RL!IsWindow(e)
  <2>1. w.stamps \in Seq(RL!Time) /\ Unspent([t \in RL!Time |-> 0]) /\ [t \in RL!Time |-> 0] \in Grants
    BY <1>3, WindowIs DEF Unspent, Grants
  <2>2. WindowFits(w, now, [t \in RL!Time |-> 0])
    BY <2>1, <1>2, <1>3, FreshFits DEF Fits
  <2>3. Past(now, [t \in RL!Time |-> 0])
    BY DEF Past
  <2>4. e \in RL!Windows /\ \A i \in 1..Len(Append(w.stamps, now)) : Append(w.stamps, now)[i] <= now
    BY <2>1, <2>2, <2>3, <1>1, <1>2, <1>3, WindowSpends DEF Past
  <2>5. e.stamps = Append(w.stamps, now)
    BY DEF RL!Window
  <2>. QED
    BY <2>4, <2>5, WindowIs DEF Entries
<1>5. s \in Grants /\ (Past(now, spent) => Past(now, s)) /\ (Old(now, spent) => Old(now, s))
  BY <1>2, GrantIs
<1>6. ASSUME RLLimit(p) PROVE Fits(e, now, s) /\ Past(now, s) /\ (RL!Windowed(p) => Old(now, s))
  <2>1. WindowFits(w, now, spent)
    BY <1>1, <1>2, <1>6, StateFits DEF RLInv, Fits
  <2>2. WindowFits(e, now, s)
    BY <2>1, <1>1, <1>2, <1>3, <1>6, WindowSpends DEF RLLimit, Past
  <2>. QED
    BY <2>2, <1>4, <1>5, <1>6 DEF RLLimit, Fits
<1>. HIDE DEF e, s
<1>7. RL!IsWindow(e) = RL!IsWindow(state[p])
  BY <1>1, <1>4 DEF RL!IsWindow
<1>8. CASE RL!SaveFails
  BY <1>8, <1>1, <1>4, FailsKeeps
<1>9. CASE RL!Save(e) /\ spent' = s
  BY <1>9, <1>1, <1>4, <1>5, <1>6, <1>7, CallKeeps
<1>. QED
  BY <1>1, <1>8, <1>9

LEMMA AllowBucketKeeps ==
  ASSUME RLInv, NEW p \in Limiters, NEW c \in Costs, RL!AllowBucket(p, c)
  PROVE  RLInv'
<1> DEFINE b == state[p]
           k == Level(b, now)
           e == RL!Bucket(k - c, now)
           s == [t \in RL!Time |-> IF t <= now THEN spent[t] + c ELSE spent[t]]
<1>1. /\ b # RL!None /\ ~RL!IsWindow(b)
      /\ RL!Current(p).tokens >= c
      /\ RL!Leave(p, RL!Bucket(RL!Current(p).tokens - c, now))
      /\ \/ RL!Save(RL!Bucket(RL!Current(p).tokens - c, now)) /\ spent' = s
         \/ RL!SaveFails
  BY DEF RL!AllowBucket, RL!Grant
<1>2. /\ b \in RL!Buckets /\ now \in RL!Time /\ spent \in Grants /\ c \in Nat
  BY <1>1, EntryIs, RLBounds DEF RLInv, RLTyped
<1>3. k \in 0..Capacity
  BY <1>2, LevelIs
<1>4. RL!Current(p).tokens = k
  <2>1. RL!Current(p) = RL!Bucket(k, now)
    BY <1>1, CurrentIs DEF RLInv
  <2>. QED
    BY <2>1 DEF RL!Bucket
<1>. HIDE DEF k
<1>5. c <= k /\ RL!Leave(p, e) /\ ((RL!Save(e) /\ spent' = s) \/ RL!SaveFails)
  BY <1>1, <1>2, <1>3, <1>4
<1>6. e \in RL!Buckets /\ e \in Entries(now) /\ ~RL!IsWindow(e)
  <2>1. k - c \in 0..Capacity
    BY <1>2, <1>3, <1>5, RLBounds
  <2>. QED
    BY <2>1, <1>2, BucketMade, BucketIs, NewIs
<1>7. s \in Grants /\ (Past(now, spent) => Past(now, s)) /\ (Old(now, spent) => Old(now, s))
  BY <1>2, GrantIs
<1>8. ASSUME RLLimit(p) PROVE Fits(e, now, s) /\ Past(now, s) /\ (RL!Windowed(p) => Old(now, s))
  <2>1. BucketFits(b, now, spent)
    BY <1>1, <1>8, StateFits DEF RLInv, Fits
  <2>2. BucketFits(e, now, s)
    BY <2>1, <1>2, <1>5, BucketSpends DEF k
  <2>. QED
    BY <2>2, <1>6, <1>7, <1>8 DEF RLLimit, Fits
<1>. HIDE DEF e, s
<1>9. CASE RL!SaveFails
  BY <1>9, <1>1, <1>5, <1>6, FailsKeeps
<1>10. CASE RL!Save(e) /\ spent' = s
  <2>1. RL!IsWindow(e) = RL!IsWindow(b)
    BY <1>1, <1>6 DEF RL!IsWindow
  <2>. QED
    BY <2>1, <1>10, <1>1, <1>5, <1>6, <1>7, <1>8, CallKeeps
<1>. QED
  BY <1>5, <1>9, <1>10

\* The calls that grant nothing, saved or not.
LEMMA PeekKeeps ==
  ASSUME RLInv, NEW p \in Limiters, state[p] # RL!None, RL!Leave(p, RL!Current(p)),
         \/ RL!Save(RL!Current(p)) /\ UNCHANGED spent
         \/ RL!SaveFails
         \/ UNCHANGED <<cache, spent>>
  PROVE  RLInv'
<1> DEFINE e == RL!Current(p)
           s == spent
<1>1. /\ e \in Entries(now) /\ RL!IsWindow(e) = RL!IsWindow(state[p])
      /\ s \in Grants
      /\ Fits(state[p], now, s) => Fits(e, now, s)
  BY CurrentIs DEF RLInv, RLTyped
<1>2. RLLimit(p) => Fits(e, now, s) /\ Past(now, s) /\ (RL!Windowed(p) => Old(now, s))
  BY <1>1, StateFits DEF RLInv, RLLimit
<1>. HIDE DEF e
<1>3. CASE RL!SaveFails
  BY <1>3, <1>1, FailsKeeps DEF e
<1>4. CASE (RL!Save(e) \/ UNCHANGED cache) /\ spent' = s
  BY <1>4, <1>1, <1>2, CallKeeps DEF e
<1>. QED
  BY <1>3, <1>4 DEF e

LEMMA LoseKeeps == ASSUME RLInv, RL!Lose PROVE RLInv'
<1>1. cache' = RL!None /\ Unspent(spent') /\ spent' \in Grants /\ UNCHANGED <<now, buckets, windows, state, local>>
  BY ForgetIs DEF RL!Lose, RL!own, RL!call
<1>2. RLTyped'
  BY <1>1 DEF RLInv, RLTyped
<1>3. ASSUME NEW p \in Limiters, RLLimit(p) PROVE RLLimit(p)'
  BY <1>1, <1>2, <1>3, ForgottenFits DEF RLLimit, RL!Windowed
<1>. QED
  BY <1>2, <1>3 DEF RLInv

LEMMA TickKeeps == ASSUME RLInv, RL!Tick PROVE RLInv'
<1>1. /\ now \in RL!Time /\ now + 1 \in RL!Time /\ now' = now + 1
      /\ UNCHANGED <<cache, buckets, windows, state, local, spent>>
      /\ spent \in Grants
  BY TimesAre, RLBounds DEF RLInv, RLTyped, RL!Tick, RL!own, RL!call
<1>2. RLTyped'
  <2>1. Entries(now) \subseteq Entries(now + 1)
    BY <1>1, NewIs
  <2>. QED
    BY <2>1, <1>1 DEF RLInv, RLTyped
<1>3. ASSUME NEW p \in Limiters, RLLimit(p) PROVE RLLimit(p)'
  <2> DEFINE e == Effective(cache, windows[p], buckets[p])
  <2>1. /\ e \in Entries(now) /\ RL!IsWindow(e) = RL!Windowed(p)
        /\ Fits(e, now, spent) /\ Past(now, spent)
        /\ RL!Windowed(p) => Old(now, spent)
    <3>1. /\ cache \in Entries(now) \cup {RL!None}
          /\ windows[p] \in (Entries(now) \cap RL!Windows) \cup {RL!None}
          /\ buckets[p] \in RL!Buckets \cup {RL!None}
      BY DEF RLInv, RLTyped
    <3>2. e \in Entries(now) /\ RL!IsWindow(e) = (windows[p] # RL!None)
      BY <3>1, <1>1, EffectiveIs
    <3>. HIDE DEF e
    <3>3. Fits(e, now, spent) /\ Past(now, spent) /\ (RL!Windowed(p) => Old(now, spent))
      BY <1>3 DEF RLLimit, e
    <3>. QED
      BY <3>2, <3>3 DEF RL!Windowed
  <2>. HIDE DEF e
  <2>2. \A t \in RL!Time : t \in Nat /\ spent[t] \in Nat
    BY <1>1, TimesAre DEF Grants
  <2>3. Past(now + 1, spent) /\ spent[now + 1] = 0
    BY <2>1, <2>2, <1>1 DEF Past
  <2>4. Fits(e, now + 1, spent)
    <3>1. CASE RL!IsWindow(e)
      <4>1. WindowFits(e, now, spent)
        BY <2>1, <3>1 DEF Fits
      <4>2. WindowFits(e, now + 1, spent)
        BY <4>1, <2>2, <1>1, TimesAre DEF WindowFits
      <4>. QED
        BY <4>2, <3>1 DEF Fits
    <3>2. CASE ~RL!IsWindow(e)
      <4>1. e \in RL!Buckets /\ BucketFits(e, now, spent)
        BY <2>1, <3>2, <1>1, EntryIs DEF Fits
      <4>2. BucketFits(e, now + 1, spent)
        BY <4>1, <2>3, <1>1, BucketElapses
      <4>. QED
        BY <4>2, <3>2 DEF Fits
    <3>. QED
      BY <3>1, <3>2
  <2>5. ASSUME RL!Windowed(p) PROVE Old(now + 1, spent)
    <3>1. SUFFICES ASSUME NEW t \in RL!Time, t + RL!WindowSize < now + 1
                   PROVE  spent[t] - spent[t + RL!WindowSize + 1] <= Capacity
      BY DEF Old
    <3>2. t + RL!WindowSize + 1 \in RL!Time /\ t \in Nat
      BY <3>1, <1>1, TimesAre, RLBounds
    <3>3. CASE t + RL!WindowSize < now
      BY <3>3, <2>1, <2>5 DEF Old
    <3>4. CASE t + RL!WindowSize = now
      <4>1. e \in RL!Windows /\ WindowFits(e, now, spent)
        BY <2>1, <2>5, <1>1, EntryIs DEF Fits
      <4>2. spent[t] <= Len(e.stamps) /\ Len(e.stamps) \in 0..Capacity
        BY <4>1, <3>4, <3>2, <1>1, TimesAre, WindowIs DEF WindowFits
      <4>3. spent[t] \in Nat /\ spent[t + RL!WindowSize + 1] \in Nat
        BY <3>2, <2>2
      <4>. QED
        BY <4>2, <4>3, RLBounds
    <3>. QED
      BY <3>1, <3>2, <3>3, <3>4, <1>1, TimesAre
  <2>. QED
    BY <2>3, <2>4, <2>5, <1>1, <1>3 DEF RLLimit, RL!Windowed, e
<1>. QED
  BY <1>2, <1>3 DEF RLInv

LEMMA RLInit == RL!Init => RLInv
<1>. SUFFICES ASSUME RL!Init PROVE RLInv
  OBVIOUS
<1>1. /\ now = 0 /\ now \in RL!Time /\ cache = RL!None
      /\ buckets = [p \in Limiters |-> RL!None] /\ windows = [p \in Limiters |-> RL!None]
      /\ state = [p \in Limiters |-> RL!None] /\ local = [p \in Limiters |-> FALSE]
      /\ spent = [t \in RL!Time |-> 0]
  BY TimesAre, RLBounds DEF RL!Init
<1>2. RLTyped /\ Unspent(spent)
  BY <1>1 DEF RLTyped, Grants, Unspent
<1>3. ASSUME NEW p \in Limiters PROVE RLLimit(p)
  <2>1. Effective(cache, windows[p], buckets[p]) = RL!NewBucket
    BY <1>1 DEF Effective, Mine
  <2>2. Fits(RL!NewBucket, now, spent)
    BY <1>1, <1>2, NewIs, FreshFits DEF RLTyped
  <2>3. Past(now, spent)
    BY <1>2 DEF Past, Unspent
  <2>4. ~RL!Windowed(p) /\ state[p] = RL!None
    BY <1>1 DEF RL!Windowed
  <2>. QED
    BY <2>1, <2>2, <2>3, <2>4, <1>1 DEF RLLimit
<1>. QED
  BY <1>2, <1>3 DEF RLInv

LEMMA RLStep ==
  ASSUME RLInv, RL!Next \/ UNCHANGED RLvars
  PROVE  RLInv'
<1>1. CASE UNCHANGED RLvars
  BY <1>1 DEF RLvars, RLInv, RLTyped, RLLimit, RL!Windowed
<1>2. CASE RL!Lose
  BY <1>2, LoseKeeps
<1>3. CASE RL!Tick
  BY <1>3, TickKeeps
<1>4. ASSUME NEW p \in Limiters,
             \/ \E k \in WindowTypes : RL!Configure(p, k)
             \/ \E failed \in BOOLEAN : RL!Load(p, failed)
             \/ RL!AllowWindow(p) \/ RL!DenyWindow(p)
             \/ \E c \in Costs : RL!AllowBucket(p, c)
             \/ RL!DenyBucket(p)
             \/ RL!Peek(p) \/ RL!PeekReset(p)
      PROVE  RLInv'
  <2>1. CASE RL!DenyWindow(p) \/ RL!DenyBucket(p) \/ RL!Peek(p) \/ RL!PeekReset(p)
    <3>1. /\ state[p] # RL!None /\ RL!Leave(p, RL!Current(p))
          /\ \/ RL!Save(RL!Current(p)) /\ UNCHANGED spent
             \/ RL!SaveFails
             \/ UNCHANGED <<cache, spent>>
      BY <2>1 DEF RL!DenyWindow, RL!DenyBucket, RL!Peek, RL!PeekReset
    <3>. QED
      BY <3>1, PeekKeeps
  <2>. QED
    BY <2>1, <1>4, ConfigureKeeps, LoadKeeps, AllowWindowKeeps, AllowBucketKeeps
<1>. QED
  BY <1>1, <1>2, <1>3, <1>4 DEF RL!Next

LEMMA RLTypes == RLTyped => RL!TypeOK
<1>. SUFFICES ASSUME RLTyped PROVE RL!TypeOK
  OBVIOUS
<1>1. Entries(now) \subseteq RL!Buckets \cup RL!Windows
  BY DEF Entries
<1>. QED
  BY <1>1 DEF RLTyped, RL!TypeOK, Grants

LEMMA RLKeeps ==
  ASSUME RLInv, NEW p \in Limiters, Limiters = {p}
  PROVE  RL!BucketLimit /\ RL!WindowLimit
<1> DEFINE e == Effective(cache, windows[p], buckets[p])
<1>1. /\ now \in RL!Time /\ spent \in Grants
      /\ cache \in Entries(now) \cup {RL!None}
      /\ windows[p] \in (Entries(now) \cap RL!Windows) \cup {RL!None}
      /\ buckets[p] \in RL!Buckets \cup {RL!None}
  BY DEF RLInv, RLTyped
<1>2. Fits(e, now, spent) /\ Past(now, spent) /\ (RL!Windowed(p) => Old(now, spent))
  BY DEF RLInv, RLLimit
<1>3. e \in Entries(now) /\ RL!IsWindow(e) = RL!Windowed(p)
  BY <1>1, EffectiveIs DEF RL!Windowed
<1>. HIDE DEF e
<1>4. \A t \in RL!Time : t \in Nat /\ spent[t] \in Nat
  BY <1>1, TimesAre DEF Grants
<1>5. ASSUME ~RL!Windowed(p), NEW t \in 0..now PROVE spent[t] <= Capacity + Rate * (now - t)
  <2>1. e \in RL!Buckets /\ spent[t] + Level(e, now) <= Capacity + Rate * (now - t)
    BY <1>1, <1>2, <1>3, <1>5, EntryIs DEF Fits, BucketFits
  <2>2. Level(e, now) \in 0..Capacity /\ t \in RL!Time /\ now - t \in Nat
    BY <2>1, <1>1, LevelIs, TimesAre, RLBounds
  <2>3. Rate * (now - t) \in Nat /\ spent[t] \in Nat
    BY <2>2, <1>4, RLBounds
  <2>. QED
    BY <2>1, <2>2, <2>3, RLBounds
<1>6. ASSUME RL!Windowed(p), NEW t \in RL!Time
      PROVE  LET end == t + RL!WindowSize + 1
             IN  spent[t] - (IF end \in RL!Time THEN spent[end] ELSE 0) <= Capacity
  <2> DEFINE end == t + RL!WindowSize + 1
  <2>1. t \in Nat /\ now \in Nat /\ RL!WindowSize \in Nat /\ spent[t] \in Nat
    BY <1>1, <1>4, TimesAre
  <2>2. CASE t + RL!WindowSize < now
    <3>1. end \in RL!Time
      BY <2>1, <2>2, <1>1, TimesAre, RLBounds
    <3>. QED
      BY <3>1, <2>2, <1>2, <1>6 DEF Old
  <2>3. CASE t >= now - RL!WindowSize
    <3>1. e \in RL!Windows /\ spent[t] <= Len(e.stamps)
      BY <2>3, <1>1, <1>2, <1>3, <1>6, EntryIs DEF Fits, WindowFits
    <3>2. Len(e.stamps) \in 0..Capacity
      BY <3>1, WindowIs
    <3>3. end \in RL!Time => spent[end] = 0
      BY <2>1, <2>3, <1>2 DEF Past
    <3>. QED
      BY <3>1, <3>2, <3>3, <2>1, RLBounds
  <2>. QED
    BY <2>1, <2>2, <2>3
<1>. QED
  BY <1>5, <1>6 DEF RL!BucketLimit, RL!WindowLimit

-----------------------------------------------------------------------------
(* MemoryCache: what was written last and is due is followed by keys that  *)
(* were used since, or as many as fit have been.                           *)

LEMMA CacheBounds ==
  MaxSize \in Nat /\ MaxCacheTime \in Nat /\ MaxDepth \in Nat /\ CacheTTLs \subseteq Nat
BY StoresOK

\* The entries of an ordered dict.
Dict(s) ==
  /\ s \in Seq(MC!EntryType)
  /\ \A i, j \in DOMAIN s : s[i].key = s[j].key => i = j

\* The entry of k is at i, and what follows has keys in K.
FollowedAt(s, i, k, until, K) ==
  /\ i \in DOMAIN s /\ s[i].key = k /\ s[i].until = until
  /\ \A j \in DOMAIN s : j > i => s[j].key \in K

Full(K) == MaxSize > 0 /\ Cardinality(K) >= MaxSize

MCTyped ==
  /\ mtime \in 0..MaxCacheTime
  /\ Dict(store) /\ (MaxSize > 0 => Len(store) <= MaxSize)
  /\ frames \in Seq([key : CacheKeys, ttl : CacheTTLs]) /\ Len(frames) <= MaxDepth
  /\ due \in [CacheKeys -> Nat]
  /\ newer \in [CacheKeys -> SUBSET CacheKeys]

MCInv ==
  /\ MCTyped
  /\ \A k \in CacheKeys :
       /\ IsFiniteSet(newer[k])
       /\ mtime < due[k] => Full(newer[k]) \/ \E i \in DOMAIN store : FollowedAt(store, i, k, due[k], newer[k])

LEMMA MCInit == MC!Init => MCInv
<1>1. Dict(<<>>)
  BY DEF Dict
<1>. QED
  BY <1>1, FS_EmptySet, CacheBounds DEF MC!Init, MCInv, MCTyped

LEMMA DictIs ==
  ASSUME NEW s, Dict(s)
  PROVE  Len(s) \in Nat /\ DOMAIN s = 1..Len(s) /\ \A i \in DOMAIN s : s[i] \in MC!EntryType /\ s[i].key \in CacheKeys /\ s[i].until \in Nat
<1>1. Len(s) \in Nat /\ DOMAIN s = 1..Len(s) /\ \A i \in DOMAIN s : s[i] \in MC!EntryType
  BY LenProperties, ElementOfSeq DEF Dict
<1>. QED
  BY <1>1 DEF MC!EntryType

\* Removing entries keeps their order.
LEMMA KeptDict ==
  ASSUME NEW s, Dict(s), NEW I \in SUBSET DOMAIN s
  PROVE  /\ Dict(Kept(s, I)) /\ Len(Kept(s, I)) <= Len(s)
         /\ \A n \in DOMAIN Kept(s, I) : \E i \in I : Kept(s, I)[n] = s[i]
         /\ \A i \in I : \A k, until, K :
              FollowedAt(s, i, k, until, K) => \E n \in DOMAIN Kept(s, I) : FollowedAt(Kept(s, I), n, k, until, K)
<1> DEFINE N == Cardinality(I)
           t == Kept(s, I)
<1>0. s \in Seq(MC!EntryType) /\ DOMAIN s \subseteq Nat
  BY DictIs DEF Dict
<1>1. PICK f \in [1..N -> I] :
        /\ \A n \in 1..N : t[n] = s[f[n]]
        /\ \A m, n \in 1..N : m < n => f[m] < f[n]
        /\ \A i \in I : \E n \in 1..N : f[n] = i
  <2>1. PICK f : Selects(f, s, I)
    BY <1>0, KeptIs
  <2>. QED
    BY <2>1 DEF Selects
<1>2. t \in Seq(MC!EntryType) /\ Len(t) = N /\ N \in 0..Len(s) /\ I \subseteq Nat
  BY <1>0, KeptIs
<1>. HIDE DEF t
<1>3. DOMAIN t = 1..N /\ N \in Nat
  BY <1>2, DictIs, LenProperties
<1>. HIDE DEF N
<1>4. Dict(t)
  <2>1. SUFFICES ASSUME NEW m \in 1..N, NEW n \in 1..N, t[m].key = t[n].key, m # n PROVE FALSE
    BY <1>2, <1>3 DEF Dict
  <2>2. f[m] = f[n]
    BY <2>1, <1>1 DEF Dict
  <2>3. m < n \/ n < m
    BY <2>1, <1>3
  <2>4. f[m] < f[n] \/ f[n] < f[m]
    BY <2>3, <1>1
  <2>5. f[m] \in Nat
    BY <1>1, <1>2
  <2>. QED
    BY <2>2, <2>4, <2>5
<1>5. ASSUME NEW n \in DOMAIN t PROVE \E i \in I : t[n] = s[i]
  BY <1>1, <1>3
<1>6. ASSUME NEW i \in I, NEW k, NEW until, NEW K, FollowedAt(s, i, k, until, K)
      PROVE  \E n \in DOMAIN t : FollowedAt(t, n, k, until, K)
  <2>1. PICK n \in 1..N : f[n] = i
    BY <1>1
  <2>2. ASSUME NEW m \in DOMAIN t, m > n PROVE t[m].key \in K
    <3>1. m \in 1..N /\ n < m
      BY <2>2, <1>3
    <3>2. f[m] > i /\ f[m] \in DOMAIN s /\ t[m] = s[f[m]]
      BY <3>1, <2>1, <1>1, <1>2
    <3>. QED
      BY <3>2, <1>6 DEF FollowedAt
  <2>. QED
    BY <2>1, <2>2, <1>1, <1>3, <1>6 DEF FollowedAt
<1>7. Len(t) <= Len(s)
  BY <1>2, DictIs DEF N
<1>. QED
  BY <1>4, <1>5, <1>6, <1>7 DEF t

LEMMA MoreNewer ==
  ASSUME NEW K, NEW L, IsFiniteSet(L), K \subseteq L, Full(K)
  PROVE  Full(L)
<1>1. IsFiniteSet(K) /\ Cardinality(K) <= Cardinality(L) /\ Cardinality(K) \in Nat /\ Cardinality(L) \in Nat
  BY FS_Subset, FS_CardinalityType
<1>. QED
  BY <1>1, CacheBounds DEF Full

\* Appending an entry of a key that is not there.
LEMMA AppendDict ==
  ASSUME NEW s, Dict(s), NEW e \in MC!EntryType, \A i \in DOMAIN s : s[i].key # e.key
  PROVE  /\ Dict(Append(s, e)) /\ Len(Append(s, e)) = Len(s) + 1
         /\ \A K : FollowedAt(Append(s, e), Len(s) + 1, e.key, e.until, K)
         /\ \A i \in DOMAIN s : \A k, until, K :
              FollowedAt(s, i, k, until, K) => FollowedAt(Append(s, e), i, k, until, K \cup {e.key})
<1> DEFINE t == Append(s, e)
           n == Len(s)
<1>1. /\ t \in Seq(MC!EntryType) /\ Len(t) = n + 1 /\ DOMAIN t = 1..(n + 1)
      /\ DOMAIN s = 1..n /\ n \in Nat
      /\ \A k \in 1..n : t[k] = s[k]
      /\ t[n + 1] = e
  BY AppendIs DEF Dict
<1>. HIDE DEF t, n
<1>2. Dict(t)
  BY <1>1 DEF Dict
<1>3. ASSUME NEW K PROVE FollowedAt(t, n + 1, e.key, e.until, K)
  BY <1>1 DEF FollowedAt
<1>4. ASSUME NEW i \in DOMAIN s, NEW k, NEW until, NEW K, FollowedAt(s, i, k, until, K)
      PROVE  FollowedAt(t, i, k, until, K \cup {e.key})
  <2>1. i \in 1..n /\ i \in DOMAIN t /\ t[i] = s[i]
    BY <1>1
  <2>2. ASSUME NEW j \in DOMAIN t, j > i PROVE t[j].key \in K \cup {e.key}
    <3>1. CASE j = n + 1
      BY <3>1, <1>1
    <3>2. CASE j # n + 1
      BY <3>2, <2>2, <1>1, <1>4 DEF FollowedAt
    <3>. QED
      BY <3>1, <3>2
  <2>. QED
    BY <2>1, <2>2, <1>4 DEF FollowedAt
<1>. QED
  BY <1>1, <1>2, <1>3, <1>4 DEF t, n

\* The limit drops the oldest entry, unless what follows fills the cache.
LEMMA EnforcedDict ==
  ASSUME NEW s, Dict(s), MaxSize > 0 => Len(s) <= MaxSize + 1
  PROVE  /\ Dict(MC!Enforced(s)) /\ (MaxSize > 0 => Len(MC!Enforced(s)) <= MaxSize)
         /\ \A i \in DOMAIN s : \A k, until, K :
              FollowedAt(s, i, k, until, K) /\ IsFiniteSet(K) =>
                Full(K) \/ \E n \in DOMAIN MC!Enforced(s) : FollowedAt(MC!Enforced(s), n, k, until, K)
<1>1. CASE ~(MaxSize > 0 /\ Len(s) > MaxSize)
  <2>1. MC!Enforced(s) = s
    BY <1>1 DEF MC!Enforced
  <2>2. MaxSize > 0 => Len(s) <= MaxSize
    BY <1>1, CacheBounds, DictIs
  <2>. QED
    BY <2>1, <2>2
<1>2. CASE MaxSize > 0 /\ Len(s) > MaxSize
  <2> DEFINE t == SubSeq(s, 2, MaxSize + 1)
  <2>1. /\ Len(s) = MaxSize + 1 /\ MaxSize \in Nat \ {0} /\ DOMAIN s = 1..(MaxSize + 1)
        /\ \A i \in 1..(MaxSize + 1) : s[i] \in MC!EntryType
    BY <1>2, CacheBounds, DictIs
  <2>2. MC!Enforced(s) = t
    <3>1. Len(s) - MaxSize + 1 = 2
      BY <2>1
    <3>. QED
      BY <3>1, <1>2, <2>1 DEF MC!Enforced
  <2>3. /\ t \in Seq(MC!EntryType) /\ Len(t) = MaxSize /\ DOMAIN t = 1..MaxSize
        /\ \A i \in 1..MaxSize : t[i] = s[i + 1]
    <3>1. t \in Seq(MC!EntryType) /\ Len(t) = MaxSize
      BY <2>1, SubSeqProperties DEF Dict
    <3>2. \A i \in 1..MaxSize : t[i] = s[i + 1]
      BY <2>1, SubSeqProperties DEF Dict
    <3>. QED
      BY <3>1, <3>2, LenProperties
  <2>. HIDE DEF t
  <2>4. Dict(t)
    <3>1. ASSUME NEW i \in 1..MaxSize, NEW j \in 1..MaxSize, t[i].key = t[j].key PROVE i = j
      <4>1. i + 1 \in DOMAIN s /\ j + 1 \in DOMAIN s /\ s[i + 1].key = s[j + 1].key
        BY <3>1, <2>1, <2>3
      <4>2. i + 1 = j + 1
        BY <4>1 DEF Dict
      <4>. QED
        BY <4>2
    <3>. QED
      BY <2>3, <3>1 DEF Dict
  <2>5. ASSUME NEW i \in DOMAIN s, NEW k, NEW until, NEW K, FollowedAt(s, i, k, until, K), IsFiniteSet(K)
        PROVE  Full(K) \/ \E n \in DOMAIN t : FollowedAt(t, n, k, until, K)
    <3>1. CASE i = 1
      <4> DEFINE g == [n \in 1..MaxSize |-> t[n].key]
      <4>1. \A n \in 1..MaxSize : t[n].key \in K
        <5>1. SUFFICES ASSUME NEW n \in 1..MaxSize PROVE t[n].key \in K
          OBVIOUS
        <5>2. n + 1 \in DOMAIN s /\ n + 1 > 1 /\ t[n] = s[n + 1]
          BY <2>1, <2>3
        <5>. QED
          BY <5>2, <3>1, <2>5 DEF FollowedAt
      <4>2. g \in Injection(1..MaxSize, K)
        BY <4>1, <2>3, <2>4 DEF Injection, IsInjective, Dict
      <4>3. Cardinality(1..MaxSize) <= Cardinality(K)
        BY <4>2, <2>5, FS_Injection
      <4>4. Cardinality(1..MaxSize) = MaxSize /\ Cardinality(K) \in Nat
        BY <2>1, <2>5, FS_Interval, FS_CardinalityType
      <4>. QED
        BY <4>3, <4>4, <2>1 DEF Full
    <3>2. CASE i # 1
      <4>1. i - 1 \in 1..MaxSize /\ t[i - 1] = s[i]
        BY <3>2, <2>1, <2>3
      <4>2. ASSUME NEW j \in DOMAIN t, j > i - 1 PROVE t[j].key \in K
        <5>1. j + 1 \in DOMAIN s /\ j + 1 > i /\ t[j] = s[j + 1]
          BY <4>1, <4>2, <2>1, <2>3
        <5>. QED
          BY <5>1, <2>5 DEF FollowedAt
      <4>3. FollowedAt(t, i - 1, k, until, K)
        BY <4>1, <4>2, <2>3, <2>5 DEF FollowedAt
      <4>. QED
        BY <4>1, <4>3, <2>3
    <3>. QED
      BY <3>1, <3>2
  <2>. QED
    BY <2>2, <2>3, <2>4, <2>5, <2>1
<1>. QED
  BY <1>1, <1>2

LEMMA SameKept == \A s, I : MC!Kept(s, I) = Kept(s, I)
BY DEF MC!Kept, Kept, MC!Cardinality, Cardinality, MC!IsFiniteSet, IsFiniteSet

LEMMA WithoutIs ==
  ASSUME NEW s, Dict(s), NEW k \in CacheKeys
  PROVE  /\ Dict(MC!Without(s, k)) /\ Len(MC!Without(s, k)) <= Len(s)
         /\ \A n \in DOMAIN MC!Without(s, k) : MC!Without(s, k)[n].key # k
         /\ \A i \in DOMAIN s : \A j, until, K :
              FollowedAt(s, i, j, until, K) /\ j # k =>
                \E n \in DOMAIN MC!Without(s, k) : FollowedAt(MC!Without(s, k), n, j, until, K)
<1> DEFINE I == {i \in DOMAIN s : s[i].key # k}
<1>1. MC!Without(s, k) = Kept(s, I)
  BY SameKept DEF MC!Without
<1>2. \A i \in DOMAIN s : \A j, until, K : FollowedAt(s, i, j, until, K) /\ j # k => i \in I
  BY DEF FollowedAt
<1>3. I \in SUBSET DOMAIN s /\ \A i \in I : s[i].key # k
  OBVIOUS
<1>. HIDE DEF I
<1>. QED
  BY <1>1, <1>2, <1>3, KeptDict

LEMMA CacheWriteKeeps ==
  ASSUME MCInv, NEW k \in CacheKeys, NEW ttl \in CacheTTLs, MC!Write(k, ttl), mtime' = mtime,
         frames' \in Seq([key : CacheKeys, ttl : CacheTTLs]), Len(frames') <= MaxDepth
  PROVE  MCInv'
<1> DEFINE e == [key |-> k, until |-> mtime + ttl]
           s == MC!Without(store, k)
           t == Append(s, e)
<1>1. /\ store' = MC!Enforced(t)
      /\ due' = [due EXCEPT ![k] = mtime + ttl]
      /\ newer' = [j \in CacheKeys |-> IF j = k \/ due[j] <= mtime THEN {} ELSE newer[j] \union {k}]
  BY DEF MC!Write
<1>2. e \in MC!EntryType /\ e.key = k /\ e.until = mtime + ttl /\ mtime \in Nat /\ mtime + ttl \in Nat
  BY CacheBounds DEF MCInv, MCTyped, MC!EntryType
<1>3. /\ Dict(store) /\ (MaxSize > 0 => Len(store) <= MaxSize) /\ Len(store) \in Nat
  BY DictIs DEF MCInv, MCTyped
<1>. HIDE DEF e
<1>4. /\ Dict(s) /\ Len(s) <= Len(store) /\ Len(s) \in Nat
      /\ \A n \in DOMAIN s : s[n].key # k
      /\ \A i \in DOMAIN store : \A j, until, K :
           FollowedAt(store, i, j, until, K) /\ j # k => \E n \in DOMAIN s : FollowedAt(s, n, j, until, K)
  BY <1>3, WithoutIs, DictIs
<1>. HIDE DEF s
<1>5. /\ Dict(t) /\ Len(t) = Len(s) + 1
      /\ \A K : FollowedAt(t, Len(s) + 1, k, mtime + ttl, K)
      /\ \A i \in DOMAIN s : \A j, until, K :
           FollowedAt(s, i, j, until, K) => FollowedAt(t, i, j, until, K \cup {k})
  BY <1>2, <1>4, AppendDict
<1>. HIDE DEF t
<1>6. MaxSize > 0 => Len(t) <= MaxSize + 1
  BY <1>3, <1>4, <1>5, CacheBounds
<1>7. /\ Dict(store') /\ (MaxSize > 0 => Len(store') <= MaxSize)
      /\ \A i \in DOMAIN t : \A j, until, K :
           FollowedAt(t, i, j, until, K) /\ IsFiniteSet(K) =>
             Full(K) \/ \E n \in DOMAIN store' : FollowedAt(store', n, j, until, K)
  BY <1>1, <1>5, <1>6, EnforcedDict
<1>8. MCTyped'
  BY <1>1, <1>2, <1>7 DEF MCInv, MCTyped
<1>9. ASSUME NEW j \in CacheKeys
      PROVE  /\ IsFiniteSet(newer'[j])
             /\ mtime' < due'[j] =>
                  Full(newer'[j]) \/ \E i \in DOMAIN store' : FollowedAt(store', i, j, due'[j], newer'[j])
  <2>1. CASE j = k
    <3>1. newer'[j] = {} /\ due'[j] = mtime + ttl /\ IsFiniteSet({})
      BY <2>1, <1>1, FS_EmptySet DEF MCInv, MCTyped
    <3>2. FollowedAt(t, Len(s) + 1, j, mtime + ttl, {})
      BY <2>1, <1>5
    <3>3. Len(s) + 1 \in DOMAIN t
      BY <3>2 DEF FollowedAt
    <3>. QED
      BY <3>1, <3>2, <3>3, <1>7
  <2>2. CASE j # k /\ due[j] <= mtime
    <3>1. newer'[j] = {} /\ due'[j] = due[j] /\ due[j] \in Nat /\ IsFiniteSet({})
      BY <2>2, <1>1, FS_EmptySet DEF MCInv, MCTyped
    <3>. QED
      BY <3>1, <2>2, <1>2
  <2>3. CASE j # k /\ ~(due[j] <= mtime)
    <3> DEFINE K == newer[j] \cup {k}
    <3>1. newer'[j] = K /\ due'[j] = due[j] /\ due[j] \in Nat /\ mtime < due[j]
      BY <2>3, <1>1, <1>2 DEF MCInv, MCTyped
    <3>2. IsFiniteSet(newer[j]) /\ IsFiniteSet(K) /\ newer[j] \subseteq K
      BY FS_AddElement DEF MCInv
    <3>3. CASE Full(newer[j])
      <4>1. Full(K)
        BY <3>2, <3>3, MoreNewer
      <4>. QED
        BY <3>1, <3>2, <4>1
    <3>4. ASSUME NEW i \in DOMAIN store, FollowedAt(store, i, j, due[j], newer[j])
          PROVE  Full(K) \/ \E n \in DOMAIN store' : FollowedAt(store', n, j, due[j], K)
      <4>1. PICK m \in DOMAIN s : FollowedAt(s, m, j, due[j], newer[j])
        BY <3>4, <2>3, <1>4
      <4>2. FollowedAt(t, m, j, due[j], K)
        BY <4>1, <1>5
      <4>3. m \in DOMAIN t
        BY <4>2 DEF FollowedAt
      <4>. HIDE DEF K
      <4>. QED
        BY <4>2, <4>3, <3>2, <1>7
    <3>. HIDE DEF K
    <3>. QED
      BY <3>1, <3>2, <3>3, <3>4 DEF MCInv
  <2>. QED
    BY <2>1, <2>2, <2>3
<1>. QED
  BY <1>8, <1>9 DEF MCInv

\* Keys that are found count as used since for the others.
Grown ==
  /\ newer' \in [CacheKeys -> SUBSET CacheKeys]
  /\ \A k \in CacheKeys : newer[k] \subseteq newer'[k] /\ IsFiniteSet(newer'[k])

LEMMA NotGrown == ASSUME MCInv, UNCHANGED newer PROVE Grown
BY DEF MCInv, MCTyped, Grown

\* Entries go away whose key has expired or is not due.
LEMMA LeaveOut ==
  ASSUME MCInv, NEW I \in SUBSET DOMAIN store, store' = Kept(store, I),
         mtime' = mtime, Grown, due' \in [CacheKeys -> Nat],
         \A k \in CacheKeys : due'[k] \in {due[k], 0},
         \A i \in DOMAIN store : i \in I \/ store[i].until <= mtime \/ due'[store[i].key] = 0,
         frames' \in Seq([key : CacheKeys, ttl : CacheTTLs]), Len(frames') <= MaxDepth
  PROVE  MCInv'
<1>1. Dict(store) /\ mtime \in Nat /\ \A k \in CacheKeys : due[k] \in Nat
  BY CacheBounds DEF MCInv, MCTyped
<1>2. /\ Dict(store') /\ Len(store') <= Len(store) /\ Len(store) \in Nat /\ Len(store') \in Nat
      /\ \A i \in I : \A k, until, K :
           FollowedAt(store, i, k, until, K) => \E n \in DOMAIN store' : FollowedAt(store', n, k, until, K)
  BY <1>1, KeptDict, DictIs
<1>3. MCTyped'
  BY <1>2, CacheBounds DEF MCInv, MCTyped, Grown
<1>4. ASSUME NEW k \in CacheKeys, mtime < due'[k]
      PROVE  Full(newer'[k]) \/ \E i \in DOMAIN store' : FollowedAt(store', i, k, due'[k], newer'[k])
  <2>1. due'[k] = due[k] /\ due'[k] # 0
    BY <1>1, <1>4
  <2>2. ASSUME NEW i \in DOMAIN store, FollowedAt(store, i, k, due[k], newer[k]) PROVE i \in I
    <3>1. store[i].until = due[k] /\ store[i].key = k
      BY <2>2 DEF FollowedAt
    <3>. QED
      BY <3>1, <2>1, <1>1, <1>4
  <2>3. Full(newer[k]) \/ \E i \in DOMAIN store' : FollowedAt(store', i, k, due'[k], newer[k])
    BY <2>1, <2>2, <1>2, <1>4 DEF MCInv
  <2>4. newer[k] \subseteq newer'[k] /\ IsFiniteSet(newer'[k])
    BY DEF Grown
  <2>. QED
    BY <2>3, <2>4, MoreNewer DEF FollowedAt
<1>. QED
  BY <1>3, <1>4 DEF MCInv, Grown

LEMMA EvictedIs ==
  ASSUME MCInv, NEW k \in CacheKeys
  PROVE  \E I \in SUBSET DOMAIN store :
           MC!Evicted(k) = Kept(store, I) /\ \A i \in DOMAIN store : i \in I \/ store[i].until <= mtime
<1> DEFINE I == {i \in DOMAIN store : store[i].key # k \/ ~MC!Expired(store[i])}
<1>1. MC!Evicted(k) = Kept(store, I)
  BY SameKept DEF MC!Evicted
<1>2. \A i \in DOMAIN store : i \in I \/ store[i].until <= mtime
  <2>1. SUFFICES ASSUME NEW i \in DOMAIN store, mtime >= store[i].until PROVE store[i].until <= mtime
    BY DEF MC!Expired
  <2>2. store[i].until \in Nat /\ mtime \in Nat
    BY DictIs DEF MCInv, MCTyped
  <2>. QED
    BY <2>1, <2>2
<1>3. I \in SUBSET DOMAIN store
  OBVIOUS
<1>. QED
  BY <1>1, <1>2, <1>3

LEMMA LookUpIs ==
  ASSUME MCInv, NEW k \in CacheKeys, MC!LookUp(k)
  PROVE  /\ Grown /\ UNCHANGED <<mtime, due>>
         /\ \E I \in SUBSET DOMAIN store :
              store' = Kept(store, I) /\ \A i \in DOMAIN store : i \in I \/ store[i].until <= mtime
<1>1. store' = MC!Evicted(k) /\ UNCHANGED <<mtime, due>>
  BY DEF MC!LookUp
<1>2. CASE UNCHANGED newer
  BY <1>1, <1>2, EvictedIs, NotGrown
<1>3. CASE newer' = [j \in CacheKeys |-> IF j = k \/ due[j] <= mtime THEN newer[j] ELSE newer[j] \union {k}]
  <2>1. \A j \in CacheKeys : IsFiniteSet(newer[j]) /\ IsFiniteSet(newer[j] \union {k})
    BY FS_AddElement DEF MCInv
  <2>2. Grown
    BY <1>3, <2>1 DEF Grown, MCInv, MCTyped
  <2>. QED
    BY <1>1, <2>2, EvictedIs
<1>. QED
  BY <1>2, <1>3 DEF MC!LookUp

LEMMA MCStep == ASSUME MCInv, MC!Next \/ UNCHANGED MCvars PROVE MCInv'
<1> DEFINE F == [key : CacheKeys, ttl : CacheTTLs]
<1>1. /\ frames \in Seq(F) /\ Len(frames) <= MaxDepth
      /\ due \in [CacheKeys -> Nat] /\ Dict(store)
  BY DEF MCInv, MCTyped
<1>2. ASSUME frames # <<>>
      PROVE  /\ Last(frames).key \in CacheKeys /\ Last(frames).ttl \in CacheTTLs
             /\ Front(frames) \in Seq(F) /\ Len(Front(frames)) <= MaxDepth
             /\ MC!Top(frames) = Last(frames) /\ MC!Popped(frames) = Front(frames)
  <2>1. Len(frames) \in Nat \ {0}
    BY <1>1, <1>2, EmptySeq, LenProperties
  <2>2. frames[Len(frames)] \in F
    <3>. HIDE DEF F
    <3>. QED
      BY <2>1, <1>1, ElementOfSeq
  <2>3. TX!Popped(frames) \in Seq(F) /\ Len(TX!Popped(frames)) = Len(frames) - 1
    <3>. HIDE DEF F
    <3>. QED
      BY <2>1, <1>1, FrontIs
  <2>. QED
    BY <2>1, <2>2, <2>3, <1>1, CacheBounds DEF Last, Front, MC!Top, MC!Popped, TX!Popped
<1>3. CASE UNCHANGED MCvars
  BY <1>3 DEF MCvars, MCInv, MCTyped
<1>4. CASE MC!Tick
  <2>1. mtime \in Nat /\ mtime' = mtime + 1 /\ mtime' <= MaxCacheTime /\ UNCHANGED <<store, frames, due, newer>>
    BY <1>4, CacheBounds DEF MC!Tick, MCInv, MCTyped
  <2>2. MCTyped'
    BY <2>1, CacheBounds DEF MCInv, MCTyped
  <2>3. \A k \in CacheKeys : mtime' < due'[k] => mtime < due[k]
    BY <2>1, <1>1
  <2>. QED
    BY <2>1, <2>2, <2>3 DEF MCInv
<1>5. CASE MC!Clear
  <2>1. store' = <<>> /\ due' = [k \in CacheKeys |-> 0] /\ UNCHANGED <<mtime, frames, newer>>
    BY <1>5 DEF MC!Clear
  <2>2. Dict(<<>>) /\ Len(<<>>) = 0
    BY DEF Dict
  <2>3. MCTyped'
    BY <2>1, <2>2, CacheBounds DEF MCInv, MCTyped
  <2>4. mtime \in Nat
    BY DEF MCInv, MCTyped
  <2>. QED
    BY <2>1, <2>3, <2>4 DEF MCInv
<1>6. CASE MC!Return
  BY <1>6, <1>2, CacheWriteKeeps DEF MC!Return
<1>7. CASE MC!Raise
  BY <1>7, <1>2 DEF MC!Raise, MCInv, MCTyped
<1>8. ASSUME NEW k \in CacheKeys, MC!Get(k) PROVE MCInv'
  <2>1. MC!LookUp(k) /\ frames' = frames
    BY <1>8 DEF MC!Get
  <2>. QED
    BY <2>1, <1>1, LookUpIs, LeaveOut
<1>9. ASSUME NEW k \in CacheKeys, MC!Delete(k) PROVE MCInv'
  <2> DEFINE I == {i \in DOMAIN store : store[i].key # k}
  <2>1. store' = Kept(store, I) /\ due' = [due EXCEPT ![k] = 0] /\ UNCHANGED <<mtime, frames, newer>>
    BY <1>9, SameKept DEF MC!Delete, MC!Without
  <2>2. I \in SUBSET DOMAIN store /\ \A i \in DOMAIN store : i \in I \/ due'[store[i].key] = 0
    BY <2>1, <1>1
  <2>3. due' \in [CacheKeys -> Nat] /\ \A j \in CacheKeys : due'[j] \in {due[j], 0}
    BY <2>1, <1>1
  <2>4. Grown
    BY <2>1, NotGrown
  <2>. HIDE DEF I
  <2>. QED
    BY <2>1, <2>2, <2>3, <2>4, <1>1, LeaveOut
<1>10. ASSUME NEW k \in CacheKeys, NEW ttl \in CacheTTLs, MC!Set(k, ttl) PROVE MCInv'
  BY <1>10, <1>1, CacheWriteKeeps DEF MC!Set
<1>11. ASSUME NEW k \in CacheKeys, NEW ttl \in CacheTTLs, MC!Enter(k, ttl) PROVE MCInv'
  <2>1. MC!LookUp(k)
    BY <1>11 DEF MC!Enter
  <2>2. (Len(frames) < MaxDepth /\ frames' = Append(frames, [key |-> k, ttl |-> ttl])) \/ frames' = frames
    BY <1>11 DEF MC!Enter
  <2>3. frames' \in Seq(F) /\ Len(frames') <= MaxDepth
    <3>1. [key |-> k, ttl |-> ttl] \in F
      OBVIOUS
    <3>. HIDE DEF F
    <3>. QED
      BY <3>1, <2>2, <1>1, CacheBounds, AppendIs
  <2>. QED
    BY <2>1, <2>3, <1>1, LookUpIs, LeaveOut
<1>. QED
  BY <1>3, <1>4, <1>5, <1>6, <1>7, <1>8, <1>9, <1>10, <1>11 DEF MC!Next

LEMMA MCKeeps == MCInv => MC!TypeOK /\ MC!KeepsNewest
<1>. SUFFICES ASSUME MCInv PROVE MC!TypeOK /\ MC!KeepsNewest
  OBVIOUS
<1>1. MC!TypeOK
  BY DEF MCInv, MCTyped, Dict, MC!TypeOK
<1>2. ASSUME NEW k \in CacheKeys, mtime < due[k],
             MaxSize = 0 \/ MC!Cardinality(newer[k]) < MaxSize
      PROVE  \E i \in DOMAIN store : store[i].key = k
  <2>1. MC!Cardinality(newer[k]) = Cardinality(newer[k])
    BY DEF MC!Cardinality, Cardinality, MC!IsFiniteSet, IsFiniteSet
  <2>2. Cardinality(newer[k]) \in Nat
    BY FS_CardinalityType DEF MCInv
  <2>3. ~Full(newer[k])
    BY <1>2, <2>1, <2>2, CacheBounds DEF Full
  <2>. QED
    BY <1>2, <2>3 DEF MCInv, FollowedAt
<1>. QED
  BY <1>1, <1>2 DEF MC!KeepsNewest

-----------------------------------------------------------------------------
(* Delegations: every policy is of the file or of a listed record.         *)

LEMMA GrantBounds ==
  /\ MaxRecords \in Nat /\ MaxGrantTime \in Nat /\ GrantTTLs \subseteq Nat
BY StoresOK

CDInv == CD!TypeOK /\ CD!PoliciesAreOwned

LEMMA CDInit == CD!Init => CDInv
<1>. SUFFICES ASSUME CD!Init PROVE CDInv
  OBVIOUS
<1>1. base \subseteq CD!Rights /\ casbinRoles \subseteq CD!Rights /\ policies = base
  BY DEF CD!Init
<1>2. Delegates # {} /\ Actions # {}
  BY DEF CD!Init, CD!Rights
<1>3. casbinDecision \in [who : Delegates, action : Actions, reason : CD!Decisions]
  BY <1>2 DEF CD!Init, CD!NoDecision, CD!Decisions
<1>. QED
  BY <1>1, <1>3, GrantBounds DEF CDInv, CD!Init, CD!TypeOK, CD!PoliciesAreOwned

LEMMA CDDelegate ==
  ASSUME CDInv, NEW d \in Delegates, NEW t \in ResourceTypes,
         NEW A \in (SUBSET Actions) \ {{}}, NEW ttl \in GrantTTLs, CD!Delegate(d, t, A, ttl)
  PROVE  CDInv'
<1> DEFINE r == [who |-> d, type |-> t, actions |-> A, expires |-> casbinTime + ttl]
<1>1. /\ casbinRecords' = Append(casbinRecords, r)
      /\ policies' = policies \cup ({d} \X A)
      /\ UNCHANGED <<casbinTime, base, casbinRoles, casbinDecision>>
  BY DEF CD!Delegate
<1>2. r \in CD!Records /\ CD!Granted(r) = {d} \X A
  BY GrantBounds DEF CDInv, CD!TypeOK, CD!Records, CD!Granted
<1>. HIDE DEF r
<1>3. casbinRecords' \in Seq(CD!Records) /\ ToSet(casbinRecords') = ToSet(casbinRecords) \cup {r}
  BY <1>1, <1>2, AppendIs, AppendSet DEF CDInv, CD!TypeOK
<1>4. {d} \X A \subseteq CD!Rights
  BY DEF CD!Rights
<1>5. CD!TypeOK'
  BY <1>1, <1>3, <1>4 DEF CDInv, CD!TypeOK
<1>6. CD!PoliciesAreOwned'
  BY <1>1, <1>2, <1>3 DEF CDInv, CD!PoliciesAreOwned, CD!Elements, ToSet, CD!Granted
<1>. QED
  BY <1>5, <1>6 DEF CDInv

\* What pruning leaves belongs to a record that has not expired.
LEMMA PrunedOwned ==
  ASSUME CDInv, NEW p \in CD!Pruned
  PROVE  p \in policies /\ (p \in base \/ \E r \in ToSet(casbinRecords) : p \in CD!Granted(r) /\ ~CD!Expired(r))
BY DEF CDInv, CD!PoliciesAreOwned, CD!Pruned, CD!Elements, ToSet

LEMMA CDCheck ==
  ASSUME CDInv, NEW d \in Delegates, NEW t \in ResourceTypes, NEW a \in Actions, CD!Check(d, t, a)
  PROVE  /\ CDInv'
         /\ casbinDecision'.reason \in CD!Allowing =>
              \/ <<d, a>> \in base \cup casbinRoles
              \/ \E r \in ToSet(casbinRecords) : <<d, a>> \in CD!Granted(r) /\ ~CD!Expired(r)
<1> DEFINE D == CD!Deciding(d, t, a)
           reason == casbinDecision'.reason
<1>1. /\ policies' = CD!Pruned
      /\ casbinDecision' \in [who : Delegates, action : Actions, reason : CD!Decisions]
      /\ D # {} /\ reason \in CD!Allowing => ~CD!Expired(casbinRecords[CD!Lowest(D)])
      /\ D = {} /\ reason \in CD!Allowing => <<d, a>> \in CD!Pruned \cup casbinRoles
      /\ UNCHANGED <<casbinTime, base, casbinRoles, casbinRecords>>
  BY DEF CD!Check, CD!Decisions, CD!Allowing
<1>2. CDInv'
  <2>1. CD!Pruned \subseteq policies
    BY DEF CD!Pruned
  <2>. QED
    BY <1>1, <2>1 DEF CDInv, CD!TypeOK, CD!PoliciesAreOwned, CD!Elements, CD!Granted
<1>3. ASSUME D # {}, ~CD!Expired(casbinRecords[CD!Lowest(D)])
      PROVE  \E r \in ToSet(casbinRecords) : <<d, a>> \in CD!Granted(r) /\ ~CD!Expired(r)
  <2>1. D \subseteq DOMAIN casbinRecords /\ DOMAIN casbinRecords \subseteq Nat
    BY LenProperties DEF CDInv, CD!TypeOK, CD!Deciding
  <2>2. CD!Lowest(D) \in D
    <3>1. \E n \in D : \A m \in D : n <= m
      BY <1>3, <2>1, Least
    <3>. HIDE DEF D
    <3>. QED
      BY <3>1 DEF CD!Lowest
  <2>3. LET r == casbinRecords[CD!Lowest(D)] IN r.who = d /\ a \in r.actions
    BY <2>2 DEF CD!Deciding
  <2>4. casbinRecords[CD!Lowest(D)] \in ToSet(casbinRecords)
    BY <2>1, <2>2 DEF ToSet
  <2>. QED
    BY <1>3, <2>3, <2>4 DEF CD!Granted
<1>. QED
  BY <1>1, <1>2, <1>3, PrunedOwned

LEMMA CDList == ASSUME CDInv, CD!List PROVE CDInv'
<1> DEFINE I == {i \in DOMAIN casbinRecords : ~CD!Expired(casbinRecords[i])}
<1>1. /\ policies' = CD!Pruned /\ casbinRecords' = Kept(casbinRecords, I)
      /\ UNCHANGED <<casbinTime, base, casbinRoles, casbinDecision>>
  BY DEF CD!List, CD!Kept, Kept, CD!Cardinality, Cardinality, CD!IsFiniteSet, IsFiniteSet
<1>2. casbinRecords' \in Seq(CD!Records) /\ ToSet(casbinRecords') = {casbinRecords[i] : i \in I}
  BY <1>1, KeptSet DEF CDInv, CD!TypeOK
<1>3. CD!Pruned \subseteq policies
  BY DEF CD!Pruned
<1>4. CD!TypeOK'
  BY <1>1, <1>2, <1>3 DEF CDInv, CD!TypeOK
<1>5. CD!PoliciesAreOwned'
  <2>1. SUFFICES ASSUME NEW p \in CD!Pruned, p \notin base
                 PROVE  \E r \in ToSet(casbinRecords') : p \in CD!Granted(r)
    BY <1>1 DEF CD!PoliciesAreOwned, CD!Elements, ToSet, CD!Granted
  <2>2. PICK r \in ToSet(casbinRecords) : p \in CD!Granted(r) /\ ~CD!Expired(r)
    BY <2>1, PrunedOwned
  <2>. QED
    BY <1>2, <2>2 DEF ToSet
<1>. QED
  BY <1>4, <1>5 DEF CDInv

LEMMA CDStep == ASSUME CDInv, CD!Next \/ UNCHANGED CDvars PROVE CDInv'
<1>1. CASE UNCHANGED CDvars
  BY <1>1 DEF CDvars, CDInv, CD!TypeOK, CD!PoliciesAreOwned, CD!Elements, CD!Granted
<1>2. CASE CD!Tick
  BY <1>2, GrantBounds DEF CD!Tick, CDInv, CD!TypeOK, CD!PoliciesAreOwned, CD!Elements, CD!Granted
<1>. QED
  BY <1>1, <1>2, CDDelegate, CDCheck, CDList DEF CD!Next

-----------------------------------------------------------------------------
(* MemoryDelegations: a record that has denied is gone at once.            *)

MDInv == MD!TypeOK /\ denied = {}

LEMMA MDInit == MD!Init => MDInv
BY GrantBounds DEF MD!Init, MDInv, MD!TypeOK, MD!Reasons

\* Pruning leaves the records that are live.
LEMMA PruneIs ==
  ASSUME MDInv, MD!Prune
  PROVE  records' \in Seq(MD!Records) /\ ToSet(records') = {r \in ToSet(records) : MD!Live(r)}
<1> DEFINE I == {i \in DOMAIN records : MD!Live(records[i])}
<1>1. records' = Kept(records, I)
  BY DEF MD!Prune, MD!Kept, Kept, MD!Cardinality, Cardinality, MD!IsFiniteSet, IsFiniteSet
<1>2. records' \in Seq(MD!Records) /\ ToSet(records') = {records[i] : i \in I}
  BY <1>1, KeptSet DEF MDInv, MD!TypeOK
<1>. QED
  BY <1>2 DEF ToSet

LEMMA MDCheck ==
  ASSUME MDInv, NEW p \in Principals, NEW a \in Actions, MD!CheckPermission(p, a)
  PROVE  /\ MDInv'
         /\ decision'.reason \in {"delegation_allow", "rbac_allow"} =>
              \/ roles[p] # NoRole /\ a \in RoleActions[roles[p]]
              \/ \E r \in ToSet(records) : r.who = p /\ a \in r.actions /\ MD!Live(r)
<1> DEFINE C == {i \in DOMAIN records : records[i].who = p /\ a \in records[i].actions}
           first == records[MD!Lowest(C)]
<1>1. /\ MD!Prune /\ listTime' = listTime /\ roles' = roles
      /\ \/ C # {} /\ MD!Live(first) /\ decision'.reason = "delegation_allow" /\ UNCHANGED denied
         \/ /\ C # {} /\ ~MD!Live(first)
            /\ decision'.reason = "delegation_expired"
            /\ denied' = (denied \union {first}) \intersect MD!Elements(records')
         \/ C = {} /\ decision'.reason = MD!RoleDecision(p, a) /\ UNCHANGED denied
  BY DEF MD!CheckPermission, MD!Decide
<1>2. records' \in Seq(MD!Records) /\ ToSet(records') = {r \in ToSet(records) : MD!Live(r)}
  BY <1>1, PruneIs
<1>3. /\ MD!RoleDecision(p, a) \in MD!Reasons
      /\ MD!RoleDecision(p, a) # "delegation_allow"
      /\ MD!RoleDecision(p, a) = "rbac_allow" => roles[p] # NoRole /\ a \in RoleActions[roles[p]]
  BY DEF MD!RoleDecision, MD!Reasons
<1>4. C # {} => first \in ToSet(records) /\ first.who = p /\ a \in first.actions
  <2>1. SUFFICES ASSUME C # {} PROVE MD!Lowest(C) \in C
    BY DEF ToSet
  <2>2. C \subseteq Nat
    BY LenProperties DEF MDInv, MD!TypeOK
  <2>3. \E n \in C : \A m \in C : n <= m
    BY <2>1, <2>2, Least
  <2>. HIDE DEF C
  <2>. QED
    BY <2>3 DEF MD!Lowest
<1>. HIDE DEF C, first
<1>5. denied' = {}
  <2>1. MD!Elements(records') = ToSet(records')
    BY DEF MD!Elements, ToSet
  <2>. QED
    BY <1>1, <1>2, <2>1 DEF MDInv
<1>6. MD!TypeOK'
  <2>1. decision'.reason \in MD!Reasons
    BY <1>1, <1>3 DEF MD!Reasons
  <2>. QED
    BY <2>1, <1>1, <1>2, <1>5 DEF MDInv, MD!TypeOK, MD!Reasons
<1>7. CASE C # {} /\ MD!Live(first)
  BY <1>7, <1>4, <1>5, <1>6 DEF MDInv
<1>8. CASE decision'.reason = "delegation_expired"
  BY <1>8, <1>5, <1>6 DEF MDInv
<1>9. CASE decision'.reason = MD!RoleDecision(p, a)
  BY <1>9, <1>3, <1>5, <1>6 DEF MDInv
<1>. QED
  BY <1>1, <1>7, <1>8, <1>9, Zenon

LEMMA MDStep == ASSUME MDInv, MD!Next \/ UNCHANGED MDvars PROVE MDInv'
<1>1. CASE UNCHANGED MDvars
  BY <1>1 DEF MDvars, MDInv, MD!TypeOK
<1>2. CASE MD!Tick
  BY <1>2, GrantBounds DEF MD!Tick, MDInv, MD!TypeOK
<1>3. CASE MD!List
  BY <1>3, PruneIs DEF MD!List, MDInv, MD!TypeOK
<1>4. ASSUME NEW p \in Principals, NEW role \in DOMAIN RoleActions, MD!AddRole(p, role)
      PROVE  MDInv'
  BY <1>4 DEF MD!AddRole, MDInv, MD!TypeOK
<1>5. ASSUME NEW p \in Principals, NEW q \in Principals, NEW A \in (SUBSET Actions) \ {{}},
             NEW ttl \in GrantTTLs, MD!Delegate(p, q, A, ttl)
      PROVE  MDInv'
  <2>1. [who |-> q, actions |-> A, expires |-> listTime + ttl] \in MD!Records
    BY GrantBounds DEF MDInv, MD!TypeOK, MD!Records
  <2>2. records' \in Seq(MD!Records)
    BY <1>5, <2>1, AppendIs DEF MD!Delegate, MDInv, MD!TypeOK
  <2>. QED
    BY <1>5, <2>2 DEF MD!Delegate, MD!Decide, MD!Reasons, MDInv, MD!TypeOK
<1>. QED
  BY <1>1, <1>2, <1>3, <1>4, <1>5, MDCheck DEF MD!Next

-----------------------------------------------------------------------------
(* Licences.                                                               *)

LEMMA LicenceBounds ==
  /\ Grace \in Nat /\ MockTerm \in Nat /\ MaxLicenceTime \in Nat
  /\ Tokens \subseteq [notBefore : Nat, expiry : Nat]
BY StoresOK

LEMMA LIInit == LI!Init => LI!TypeOK
BY LicenceBounds DEF LI!Init, LI!TypeOK, LI!Claims

LEMMA BuildKeeps ==
  ASSUME LI!TypeOK, NEW t \in Tenants, NEW c \in LI!Claims, LI!BuildInfo(t, c)
  PROVE  info' \in [Tenants -> [claims : LI!Claims, revoked : BOOLEAN]]
<1> DEFINE T == [claims : LI!Claims, revoked : BOOLEAN]
           i == [claims |-> c, revoked |-> t \in revoked]
<1>1. i \in T
  <2>1. (t \in revoked) = TRUE \/ (t \in revoked) = FALSE
    OBVIOUS
  <2>2. [claims |-> c, revoked |-> TRUE] \in T /\ [claims |-> c, revoked |-> FALSE] \in T
    OBVIOUS
  <2>. HIDE DEF T
  <2>. QED
    BY <2>1, <2>2, Zenon
<1>2. info \in [Tenants -> T] /\ info' = [info EXCEPT ![t] = i]
  BY DEF LI!TypeOK, LI!BuildInfo
<1>. HIDE DEF T, i
<1>3. info' \in [Tenants -> T]
  BY <1>1, <1>2
<1>. QED
  BY <1>3 DEF T

LEMMA LIStep == ASSUME LI!TypeOK, LI!Next \/ UNCHANGED LIvars PROVE LI!TypeOK'
<1>1. CASE UNCHANGED LIvars
  BY <1>1 DEF LIvars, LI!TypeOK
<1>2. CASE LI!Tick
  BY <1>2, LicenceBounds DEF LI!Tick, LI!TypeOK
<1>3. CASE LI!LoadFails
  BY <1>3 DEF LI!LoadFails, LI!vars, LI!TypeOK
<1>4. ASSUME NEW t \in Tenants, LI!LoadMock(t) PROVE LI!TypeOK'
  <2>1. [notBefore |-> 0, expiry |-> licenceTime + MockTerm] \in LI!Claims
    BY DEF LI!TypeOK, LI!Claims
  <2>. HIDE DEF LI!Claims
  <2>. QED
    BY <1>4, <2>1 DEF LI!LoadMock, LI!BuildInfo, LI!TypeOK
<1>5. ASSUME NEW t \in Tenants, LI!GetLicense(t) \/ LI!RevokeLicense(t) PROVE LI!TypeOK'
  <2>1. licences[t] \in LI!Claims
    BY DEF LI!TypeOK
  <2>. HIDE DEF LI!Claims
  <2>. QED
    BY <1>5, <2>1, BuildKeeps DEF LI!GetLicense, LI!RevokeLicense, LI!TypeOK, LI!Current
<1>6. ASSUME NEW t \in Tenants, NEW token \in Tokens, LI!LoadLicense(t, token) \/ LI!AddLicense(t, token)
      PROVE  LI!TypeOK'
  <2>1. token \in LI!Claims
    BY DEF LI!Claims
  <2>. QED
    BY <1>6, <2>1, BuildKeeps DEF LI!LoadLicense, LI!AddLicense, LI!TypeOK
<1>. QED
  BY <1>1, <1>2, <1>3, <1>4, <1>5, <1>6 DEF LI!Next

\* Whoever is told of a licence holds a term that the clock is in.
LEMMA LIServes ==
  ASSUME LI!TypeOK, NEW t \in Tenants, LI!GetLicense(t), served'[t] = "licence"
  PROVE  t \notin revoked /\ LI!IsValid(info'[t]) # LI!IsGracePeriod(info'[t])
<1>1. LI!Current(t) /\ info'[t] = [claims |-> licences[t], revoked |-> t \in revoked] /\ licenceTime' = licenceTime
  BY DEF LI!GetLicense, LI!BuildInfo, LI!TypeOK
<1>2. licences[t].expiry \in Nat /\ licenceTime \in Nat /\ licenceTime <= licences[t].expiry + Grace
  <2>1. licences[t] \in LI!Claims \ {NoToken} /\ licenceTime \in Nat
    BY <1>1, LicenceBounds DEF LI!TypeOK, LI!Current
  <2>2. licences[t].expiry \in Nat
    BY <2>1, LicenceBounds DEF LI!Claims
  <2>. QED
    BY <2>1, <2>2, <1>1 DEF LI!Current
<1> DEFINE e == licences[t].expiry
<1>3. t \notin revoked /\ info'[t] = [claims |-> licences[t], revoked |-> FALSE]
  <2>1. (t \in revoked) = FALSE
    BY <1>1 DEF LI!Current
  <2>. QED
    BY <1>1, <2>1, Zenon
<1>4. info'[t].claims.expiry = e /\ ~info'[t].revoked
  BY <1>3
<1>. HIDE DEF e
<1>5. LI!IsValid(info'[t]) <=> licenceTime <= e
  BY <1>4 DEF LI!IsValid
<1>6. LI!IsGracePeriod(info'[t]) <=> e < licenceTime /\ licenceTime <= e + Grace
  BY <1>4 DEF LI!IsGracePeriod
<1>7. e \in Nat /\ licenceTime \in Nat /\ licenceTime <= e + Grace
  BY <1>2 DEF e
<1>8. LI!IsValid(info'[t]) <=> ~LI!IsGracePeriod(info'[t])
  BY <1>5, <1>6, <1>7, LicenceBounds
<1>. QED
  BY <1>3, <1>8 DEF LI!IsValid, LI!IsGracePeriod

-----------------------------------------------------------------------------
(* The composition. *)

InvAll ==
  /\ RVInv /\ TXInv /\ OSInv /\ OSCount /\ UPInv /\ SFInv /\ MSInv /\ RLInv /\ MHInv
  /\ MCInv /\ CDInv /\ MDInv /\ LI!TypeOK
  /\ CFInv /\ FFInv /\ TRInv /\ SMInv /\ TEInv /\ DEInv /\ ERInv

LEMMA InvAllInit == Init => InvAll
BY Zenon, RVInit, TXInit, OSInit, OSCountInit, UPInit, SFInit, MSInit, RLInit, MHInit,
   MCInit, CDInit, MDInit, LIInit, CFInit, FFInit, TRInit, SMInit, TEInit, DEInit, ERInit
   DEF Init, InvAll

\* A step is one of the component a behaviour is about.
LEMMA Components ==
  ASSUME [Next]_vars
  PROVE  /\ RV!Next \/ UNCHANGED RVvars
         /\ TX!Next \/ UNCHANGED TXvars
         /\ OS!Next \/ UNCHANGED OSvars
         /\ UP!Next \/ UNCHANGED UPvars
         /\ SF!Next \/ UNCHANGED SFvars
         /\ MS!Next \/ UNCHANGED MSvars
         /\ RL!Next \/ UNCHANGED RLvars
         /\ MH!Next \/ UNCHANGED MHvars
         /\ MC!Next \/ UNCHANGED MCvars
         /\ CD!Next \/ UNCHANGED CDvars
         /\ MD!Next \/ UNCHANGED MDvars
         /\ LI!Next \/ UNCHANGED LIvars
         /\ CF!Next \/ UNCHANGED CFvars
         /\ FF!Next \/ UNCHANGED FFvars
         /\ TR!Next \/ UNCHANGED TRvars
         /\ SM!Next \/ UNCHANGED SMvars
         /\ TE!Next \/ UNCHANGED TEvars
         /\ DE!Next \/ UNCHANGED DEvars
         /\ ER!Next \/ UNCHANGED ERvars
BY Zenon DEF Next, vars, Idle

LEMMA InvAllStep == InvAll /\ [Next]_vars => InvAll'
<1>. SUFFICES ASSUME InvAll, [Next]_vars PROVE InvAll'
  OBVIOUS
<1>. QED
  BY Components, RVStep, TXStep, OSStep, OSCountStep, UPStep, SFStep, MSStep, RLStep, MHStep,
     MCStep, CDStep, MDStep, LIStep, CFStep, FFStep, TRStep, SMStep, TEStep, DEStep, ERStep
     DEF InvAll

LEMMA InvAllHolds == Spec => []InvAll
BY InvAllInit, InvAllStep, PTL DEF Spec

-----------------------------------------------------------------------------
\* Every component's variables keep their types.
THEOREM TypesCorrect == Spec => []TypesOK
<1>1. InvAll => TypesOK
  BY TXTypes, OSTypes, SFKeeps, RLTypes, MCKeeps
     DEF InvAll, TypesOK, RVInv, UPInv, MSInv, RLInv, MHInv, CDInv, MDInv,
         CFInv, FFInv, TRInv, SMInv, TEInv, DEInv, ERInv
<1>. QED
  BY <1>1, InvAllHolds, PTL

\* MemoryDatabaseAdapter: in one life of a row a version names one content, for
\* every number of rows, clients and writes.
THEOREM VersionsAreUnique == Spec => []VersionsIdentify
<1>1. InvAll => VersionsIdentify
  BY RVKeeps DEF InvAll, VersionsIdentify
<1>. QED
  BY <1>1, InvAllHolds, PTL

\* SQLAlchemyAdapter: a commit makes durable all that was written in its
\* transaction and nothing else, however many tasks nest and overlap theirs,
\* whatever fails, and wherever repositories and scopes are kept; of the
\* transactions a failed rollback led astray, what is in their sessions.
THEOREM CommitsOwn == Spec => CommitsItsOwn
<1>1. InvAll /\ [Next]_vars
        => /\ [\A s \in committed' \ committed : durable' = durable \union TX!Owned(s)]_(TX!vars)
           /\ [durable' # durable => \E s \in TX!Scopes : durable' = durable \union TX!Owned(s)]_(TX!vars)
  BY Components, TXCommits DEF InvAll
<1>. QED
  BY <1>1, InvAllHolds, PTL DEF Spec, CommitsItsOwn, TX!CommitsItsOwn

\* The storage adapters: what was uploaded while nothing overlapped it is what is
\* downloaded until the next change begins, for every number of callers and calls.
THEOREM UploadsServed == Spec => []UploadedIsServed
<1>1. InvAll => UploadedIsServed
  BY OSKeeps DEF InvAll, UploadedIsServed
<1>. QED
  BY <1>1, InvAllHolds, PTL

\* The update adapters: a rollback restores the version that was installed
\* when the latest update began, whatever that update came to.
THEOREM RollbackRestores == Spec => RestoresLatest
<1>1. InvAll => (applies > 0 => saved.version = before)
  BY DEF InvAll, UPInv
<1>2. InvAll /\ [Next]_vars
        => [current' # current => applies' # applies \/ current' = before]_(UP!vars)
  BY Components, UPStep DEF InvAll
<1>. QED
  BY <1>1, <1>2, InvAllHolds, PTL DEF Spec, RestoresLatest, UP!RestoresLatest

\* A secret that was replaced is answered for one TTL at most, from the file
\* whoever rotates, fails or dies, and from memory by whichever call.
THEOREM SecretsFresh == Spec => BoundedStaleness
<1>1. InvAll => SF!BoundedStaleness
  BY SFKeeps DEF InvAll
<1>2. InvAll /\ [Next]_vars
        => [\A n \in Names : MS!GetSecret(n) /\ secretAnswer'.value # 0 /\ secretAnswer'.name = n
              => clock <= ended[secretAnswer'.value] + TTL]_(MS!vars)
  <2>1. SUFFICES ASSUME InvAll, NEW n \in Names,
                        MS!GetSecret(n), secretAnswer'.value # 0, ~UNCHANGED MS!vars
                 PROVE  clock <= ended[secretAnswer'.value] + TTL
    OBVIOUS
  <2>. QED
    BY <2>1, MSAnswers DEF InvAll, MS!vars, MSvars
<1>. QED
  BY <1>1, <1>2, InvAllHolds, PTL DEF Spec, BoundedStaleness, MS!BoundedStaleness

\* With one process a bucket or a window grants no more in any interval than it
\* allows, whatever is lost, fails or is reset, for every capacity, rate and cost,
\* and the circuit of the double opens only when calls have failed often enough.
\* It takes one process: two spend the same tokens.
OneLimiter == \E p \in Limiters : Limiters = {p}

THEOREM LimitsKept == OneLimiter => (Spec => LimitsHold)
<1>. SUFFICES ASSUME OneLimiter PROVE Spec => LimitsHold
  OBVIOUS
<1>1. InvAll => RL!BucketLimit /\ RL!WindowLimit
  BY RLKeeps DEF InvAll, OneLimiter
<1>2. InvAll /\ [Next]_vars
        => [\A single \in MH!Statuses :
              MH!Request(single) /\ circuit = "closed" /\ circuit' = "open" => streak' >= Threshold]_(MH!vars)
  BY MHOpens DEF InvAll
<1>. QED
  BY <1>1, <1>2, InvAllHolds, PTL DEF Spec, LimitsHold, MH!OpensOnFailures

\* MemoryCacheAdapter: neither the limit nor nested computations cost an entry
\* its place before it is due, for every size, number of keys and depth.
THEOREM NewestKept == Spec => []KeepsNewest
<1>1. InvAll => KeepsNewest
  BY MCKeeps DEF InvAll, KeepsNewest
<1>. QED
  BY <1>1, InvAllHolds, PTL

\* The permission and licence adapters grant nothing on the strength of what has
\* expired or was revoked, for every set of rights, roles, tenants and terms.
THEOREM GrantsLapse == Spec => GrantsExpire
<1>1. InvAll => CD!PoliciesAreOwned /\ MD!ExpiredDeniesOnce
  BY DEF InvAll, CDInv, MDInv, MD!ExpiredDeniesOnce
<1>2. InvAll /\ [Next]_vars
        => [\A d \in Delegates, t \in ResourceTypes, a \in Actions :
              casbinDecision'.reason \in CD!Allowing /\ CD!Check(d, t, a) =>
                \/ <<d, a>> \in base \cup casbinRoles
                \/ \E r \in CD!Elements(casbinRecords) : <<d, a>> \in CD!Granted(r) /\ ~CD!Expired(r)]_(CD!vars)
  BY CDCheck DEF InvAll, CD!Elements, ToSet
<1>3. InvAll /\ [Next]_vars
        => [\A p \in Principals, a \in Actions :
              decision'.reason \in {"delegation_allow", "rbac_allow"} /\ MD!CheckPermission(p, a) =>
                \/ roles[p] # NoRole /\ a \in RoleActions[roles[p]]
                \/ \E r \in MD!Elements(records) : r.who = p /\ a \in r.actions /\ MD!Live(r)]_(MD!vars)
  BY MDCheck DEF InvAll, MD!Elements, ToSet
<1>4. InvAll /\ [Next]_vars
        => [\A t \in Tenants : LI!GetLicense(t) /\ served'[t] = "licence" =>
              /\ t \notin revoked
              /\ LI!IsValid(info'[t]) # LI!IsGracePeriod(info'[t])]_(LI!vars)
  BY LIServes DEF InvAll
<1>. QED
  BY <1>1, <1>2, <1>3, <1>4, InvAllHolds, PTL
     DEF Spec, GrantsExpire, CD!ExpiredGrantsNothing, MD!ExpiredGrantsNothing, LI!ServedIsInTerm

\* Settings, texts and classes: what is served follows the order of precedence,
\* no load takes away what it does not replace, and a class stays the one that
\* was first loaded until the cache is invalidated, for every file, environment,
\* catalogue and module.
THEOREM LastGoodKept == Spec => []KeepsLastGood
<1>1. InvAll => KeepsLastGood
  BY CFKeeps, DEKeeps DEF InvAll, KeepsLastGood, TRInv, DEInv
<1>. QED
  BY <1>1, InvAllHolds, PTL

\* InMemoryStateMachineAdapter: after each run the log is a path along the rules
\* and ends where the machine is, and is_running stays only after a run that
\* escaped, for every set of states, handlers and rules and every limit.
THEOREM DoublePathLogged == Spec => []DoubleLogIsPath
<1>1. InvAll => DoubleLogIsPath
  BY DEF InvAll, DoubleLogIsPath, SMInv
<1>. QED
  BY <1>1, InvAllHolds, PTL

\* The observability and error adapters: the open spans are of one trace, each
\* exception but a group is counted once at each guard it passes, and every record carries
\* the class of its error, for every depth of calls and number of spans.
THEOREM ReportsTrue == Spec => []ReportsAreTrue
<1>1. InvAll => ReportsAreTrue
  BY ERCounts DEF InvAll, ReportsAreTrue, TEInv, ERInv
<1>. QED
  BY <1>1, InvAllHolds, PTL
=============================================================================
