----------------------------- MODULE RowVersions -----------------------------
(***************************************************************************)
(* MemoryDatabaseAdapter: one table of versioned rows that several clients *)
(* read, copy and write back, inside transaction scopes or outside.  Each  *)
(* call is atomic: nothing in it awaits.  A row's content is the number of *)
(* the write it stems from; it lives from an insert to a delete or to the  *)
(* next insert under its id.                                               *)
(***************************************************************************)
EXTENDS Naturals, FiniteSets

CONSTANTS
  Ids, Clients, NoRow,
  MaxWrites \* bound: writes to the table

VARIABLES
  table,   \* _table()
  copies,  \* per client and id: the row it holds, from a read or a write
  scope,   \* per client: its _MemoryTransactionScope
  stamp,   \* history: writes so far
  lives    \* history: per id, inserts so far

vars == <<table, copies, scope, stamp, lives>>

RowType == [life : 1..MaxWrites, version : 1..MaxWrites, stamp : 1..MaxWrites]

TypeOK ==
  /\ table \in [Ids -> RowType \union {NoRow}]
  /\ copies \in [Clients -> [Ids -> RowType \union {NoRow}]]
  /\ scope \in [Clients -> {"none", "open", "committed", "rolledback"}]
  /\ stamp \in 0..MaxWrites
  /\ lives \in [Ids -> 0..MaxWrites]

Init ==
  /\ table = [i \in Ids |-> NoRow]
  /\ copies = [c \in Clients |-> [i \in Ids |-> NoRow]]
  /\ scope = [c \in Clients |-> "none"]
  /\ stamp = 0
  /\ lives = [i \in Ids |-> 0]

-----------------------------------------------------------------------------
\* find_by_id, or an element of find_all; count reads without copying.
Find(c, i) ==
  /\ copies' = [copies EXCEPT ![c][i] = table[i]]
  /\ UNCHANGED <<table, scope, stamp, lives>>

FindAll(c) ==
  /\ copies' = [copies EXCEPT ![c] = table]
  /\ UNCHANGED <<table, scope, stamp, lives>>

\* Every write goes to the shared table at once, in a scope or not; the
\* client gets a copy of the row.
Put(c, i, row) ==
  /\ stamp < MaxWrites
  /\ stamp' = stamp + 1
  /\ table' = [table EXCEPT ![i] = row]
  /\ copies' = [copies EXCEPT ![c][i] = row]
  /\ UNCHANGED scope

\* insert, which replaces a row that is there.
Insert(c, i) ==
  /\ lives' = [lives EXCEPT ![i] = @ + 1]
  /\ Put(c, i, [life |-> lives[i] + 1, version |-> 1, stamp |-> stamp + 1])

\* Mutant of Update: a blind write keeps the version.
UpdateQuietly(c, i, blind) ==
  /\ table[i] # NoRow
  /\ blind \/ (copies[c][i] # NoRow /\ copies[c][i].version = table[i].version)
  /\ Put(c, i, [table[i] EXCEPT !.version = IF blind THEN @ ELSE @ + 1, !.stamp = stamp + 1])
  /\ UNCHANGED lives

\* update, with the version of the client's copy or with none (blind), in
\* which case it is not compared.  A missing row or another version raises.
Update(c, i, blind) ==
  /\ table[i] # NoRow
  /\ blind \/ (copies[c][i] # NoRow /\ copies[c][i].version = table[i].version)
  /\ Put(c, i, [table[i] EXCEPT !.version = @ + 1, !.stamp = stamp + 1])
  /\ UNCHANGED lives

Delete(c, i) ==
  /\ table' = [table EXCEPT ![i] = NoRow]
  /\ UNCHANGED <<copies, scope, stamp, lives>>

-----------------------------------------------------------------------------
Begin(c) ==
  /\ scope[c] = "none"
  /\ scope' = [scope EXCEPT ![c] = "open"]
  /\ UNCHANGED <<table, copies, stamp, lives>>

\* commit, which raises after a rollback.
Commit(c) ==
  /\ scope[c] \in {"open", "committed"}
  /\ scope' = [scope EXCEPT ![c] = "committed"]
  /\ UNCHANGED <<table, copies, stamp, lives>>

\* rollback, called or made by transaction() for an exception: it clears the
\* scope's list of pending operations, which no repository adds to.
Rollback(c) ==
  /\ scope[c] # "none"
  /\ scope' = [scope EXCEPT ![c] = "rolledback"]
  /\ UNCHANGED <<table, copies, stamp, lives>>

Leave(c) ==
  /\ scope[c] # "none"
  /\ scope' = [scope EXCEPT ![c] = "none"]
  /\ UNCHANGED <<table, copies, stamp, lives>>

Next ==
  \E c \in Clients :
    \/ FindAll(c) \/ Begin(c) \/ Commit(c) \/ Rollback(c) \/ Leave(c)
    \/ \E i \in Ids :
         \/ Find(c, i) \/ Insert(c, i) \/ Delete(c, i)
         \/ \E blind \in BOOLEAN : Update(c, i, blind)

Spec == Init /\ [][Next]_vars

-----------------------------------------------------------------------------
(* Properties *)

\* In one life of a row a version names one content: a client whose version
\* is accepted writes over the content it has seen, whoever wrote in between
\* with or without a version.
VersionsIdentify ==
  \A c \in Clients, i \in Ids :
    LET seen == copies[c][i]
        row == table[i]
    IN  (seen # NoRow /\ row # NoRow /\ seen.life = row.life /\ seen.version = row.version) =>
          seen.stamp = row.stamp
=============================================================================
