---------------------------- MODULE Transactions ----------------------------
(***************************************************************************)
(* SQLAlchemyAdapter: tasks open transactions, nested or not, and get      *)
(* repositories on the session a context variable names, of which a task   *)
(* they create gets a copy.  Repositories and scopes may be kept, and used *)
(* by anybody, for as long as the program likes.  A write stands for       *)
(* insert, update or delete, which flush into the session; sessions and    *)
(* the database are SQLAlchemy's.  Scopes are numbered like their sessions.*)
(***************************************************************************)
EXTENDS Naturals, Containers

CONSTANTS
  Tasks, Root,
  NoSession,
  MaxScopes, \* bound: transactions
  MaxWrites  \* bound: writes

Scopes == 1..MaxScopes
Writes == 1..MaxWrites

VARIABLES
  active,    \* _active_session in each task's context
  stack,     \* per task: the transactions it is in, with the token to reset
  opened,    \* transactions begun so far
  committed, \* scopes with _committed set
  rolled,    \* scopes with _rolled_back set
  repos,     \* repositories: their session, and the transaction they were asked for in
  work,      \* per session: flushed writes of its database transaction
  durable,   \* writes the database keeps
  wrote,     \* history: writes so far
  meant,     \* history: the transaction of each write, until that commits or discards it
  born,      \* history: the transaction a task was created in
  strayed    \* history: transactions that were left without resetting the context
             \* variable, and those they were left for

vars == <<active, stack, opened, committed, rolled, repos, work, durable, wrote, meant, born, strayed>>

Session == Scopes \union {NoSession}

TypeOK ==
  /\ active \in [Tasks -> Session]
  /\ stack \in [Tasks -> Seq([scope : Scopes, token : Session])]
  /\ opened \in 0..MaxScopes
  /\ committed \subseteq Scopes /\ rolled \subseteq Scopes /\ strayed \subseteq Session
  /\ repos \subseteq [session : Scopes, home : Session]
  /\ work \in [Scopes -> SUBSET Writes]
  /\ durable \subseteq Writes
  /\ wrote \in 0..MaxWrites
  /\ meant \in [Writes -> Session]
  /\ born \in [Tasks -> Session \union {0}]

Init ==
  /\ active = [t \in Tasks |-> NoSession]
  /\ stack = [t \in Tasks |-> <<>>]
  /\ opened = 0
  /\ committed = {} /\ rolled = {} /\ strayed = {}
  /\ repos = {}
  /\ work = [s \in Scopes |-> {}]
  /\ durable = {}
  /\ wrote = 0
  /\ meant = [w \in Writes |-> NoSession]
  /\ born = [t \in Tasks |-> IF t = Root THEN NoSession ELSE 0]

-----------------------------------------------------------------------------
Runs(t) == born[t] # 0

Innermost(t) == IF stack[t] = <<>> THEN born[t] ELSE Top(stack[t]).scope

\* asyncio copies the context of the task that creates another.
Spawn(t, u) ==
  /\ Runs(t) /\ ~Runs(u)
  /\ active' = [active EXCEPT ![u] = active[t]]
  /\ born' = [born EXCEPT ![u] = Innermost(t)]
  /\ UNCHANGED <<stack, opened, committed, rolled, repos, work, durable, wrote, meant, strayed>>

\* transaction(), up to the yield.
Begin(t) ==
  /\ Runs(t) /\ opened < MaxScopes
  /\ opened' = opened + 1
  /\ stack' = [stack EXCEPT ![t] = Append(@, [scope |-> opened + 1, token |-> active[t]])]
  /\ active' = [active EXCEPT ![t] = opened + 1]
  /\ UNCHANGED <<committed, rolled, repos, work, durable, wrote, meant, born, strayed>>

\* get_repository raises without a session.
GetRepository(t) ==
  /\ Runs(t) /\ active[t] # NoSession
  /\ repos' = repos \union {[session |-> active[t], home |-> Innermost(t)]}
  /\ UNCHANGED <<active, stack, opened, committed, rolled, work, durable, wrote, meant, born, strayed>>

Write(r) ==
  /\ wrote < MaxWrites
  /\ wrote' = wrote + 1
  /\ work' = [work EXCEPT ![r.session] = @ \union {wrote + 1}]
  /\ meant' = [meant EXCEPT ![wrote + 1] = r.home]
  /\ UNCHANGED <<active, stack, opened, committed, rolled, repos, durable, born, strayed>>

\* The session's database transaction ends, and with it what was written in it.
Ended(s) ==
  /\ work' = [work EXCEPT ![s] = {}]
  /\ meant' = [w \in Writes |-> IF meant[w] = s THEN NoSession ELSE meant[w]]

Open(s) == s <= opened /\ s \notin committed \union rolled

\* commit(): raises after a rollback, does nothing the second time.
Commit(s) ==
  /\ Open(s) /\ Ended(s)
  /\ durable' = durable \union work[s]
  /\ committed' = committed \union {s}
  /\ UNCHANGED <<active, stack, opened, rolled, repos, wrote, born, strayed>>

\* The database refuses, or it has committed and nobody hears of it: commit()
\* raises, or is cancelled.
CommitFails(s) ==
  /\ Open(s) /\ Ended(s)
  /\ durable' = durable \union work[s] \/ UNCHANGED durable
  /\ UNCHANGED <<active, stack, opened, committed, rolled, repos, wrote, born, strayed>>

\* rollback(), of a scope that may have been committed; if it raises or is
\* cancelled, _rolled_back is not set, whatever became of the session's work.
Rollback(s) ==
  /\ s <= opened /\ s \notin rolled
  /\ Ended(s)
  /\ rolled' = rolled \union {s} \/ UNCHANGED rolled
  /\ UNCHANGED <<active, stack, opened, committed, repos, durable, wrote, born, strayed>>

\* Mutant of Leave: the context variable is not reset.
LeaveUnreset(t) ==
  /\ stack[t] # <<>>
  /\ Ended(Top(stack[t]).scope)
  /\ stack' = [stack EXCEPT ![t] = Popped(@)]
  /\ UNCHANGED <<active, opened, committed, rolled, repos, durable, wrote, born, strayed>>

\* The end of transaction(): rollback of a scope that was neither committed nor
\* rolled back, the token, and close(), which drops what else the session has
\* not committed, unless it fails.
Leave(t) ==
  /\ stack[t] # <<>>
  /\ LET s == Top(stack[t]).scope
     IN  Ended(s) \/ (~Open(s) /\ UNCHANGED <<work, meant>>)
  /\ active' = [active EXCEPT ![t] = Top(stack[t]).token]
  /\ stack' = [stack EXCEPT ![t] = Popped(@)]
  /\ UNCHANGED <<opened, committed, rolled, repos, durable, wrote, born, strayed>>

\* That rollback raises or is cancelled: neither the token is reset nor the
\* session closed.
LeaveFails(t) ==
  /\ stack[t] # <<>>
  /\ UNCHANGED <<active, opened, committed, rolled, repos, durable, wrote, born>>
  /\ LET s == Top(stack[t]).scope
     IN  /\ Open(s)
         /\ Ended(s) \/ UNCHANGED <<work, meant>>
         /\ stack' = [stack EXCEPT ![t] = Popped(@)]
         /\ strayed' = strayed \union {s, Innermost(t)'}

Next ==
  \/ \E t \in Tasks :
       Begin(t) \/ GetRepository(t) \/ Leave(t) \/ LeaveFails(t) \/ \E u \in Tasks : Spawn(t, u)
  \/ \E r \in repos : Write(r)
  \/ \E s \in Scopes : Commit(s) \/ CommitFails(s) \/ Rollback(s)

Spec == Init /\ [][Next]_vars

-----------------------------------------------------------------------------
(* Properties *)

\* What belongs to a transaction: what was written through the repositories
\* that were asked for in it, and has not been committed, rolled back or refused since.
\* The context variable may name another one where a rollback failed: there it
\* is what is in the session.
Owned(s) == IF s \in strayed THEN work[s] ELSE {w \in Writes : meant[w] = s}

\* A commit makes durable all that belongs to its transaction, at once, and
\* nothing else, however transactions of several tasks nest and overlap, fail
\* and are kept beyond their end; and nothing else makes anything durable.
CommitsItsOwn ==
  /\ [][\A s \in committed' \ committed : durable' = durable \union Owned(s)]_vars
  /\ [][durable' # durable => \E s \in Scopes : durable' = durable \union Owned(s)]_vars
=============================================================================
