------------------------------ MODULE Delegations ------------------------------
(***************************************************************************)
(* CasbinPermissionAdapter: delegations of one tenant on one resource.  A  *)
(* delegation is kept twice, as a record with an expiry and as policies of *)
(* the enforcer, which has no expiry; the two are brought together only    *)
(* when somebody asks.  A record names a resource type, a policy does not. *)
(* The enforcer, external, is a set of policies and the rights of roles.   *)
(***************************************************************************)
EXTENDS Naturals, Containers

CONSTANTS
  Delegates,   \* principals that receive delegations
  Actions,     \* actions that may be delegated
  Types,       \* resource types
  TTLs,        \* ttl_seconds asked for
  MaxRecords,  \* bound: records at a time
  MaxTime      \* bound: the clock

Rights == Delegates \X Actions
Decisions == {"delegation_allow", "delegation_expired", "rbac_allow", "rbac_deny"}
Records == [who : Delegates, type : Types, actions : (SUBSET Actions) \ {{}},
            expires : Nat]

VARIABLES
  clock,     \* time.time(), taken not to run backwards
  base,      \* the rights the policy file gives directly
  roles,     \* the rights it gives through roles
  records,   \* _delegations, oldest first
  policies,  \* the enforcer's policies
  decision   \* the last decision: who, what, and the reason code

vars == <<clock, base, roles, records, policies, decision>>

NoDecision == [who |-> CHOOSE d \in Delegates : TRUE, action |-> CHOOSE a \in Actions : TRUE,
               reason |-> "rbac_deny"]

TypeOK ==
  /\ clock \in 0..MaxTime
  /\ base \subseteq Rights /\ roles \subseteq Rights
  /\ records \in Seq(Records)
  /\ policies \subseteq Rights
  /\ decision \in [who : Delegates, action : Actions, reason : Decisions]

Init ==
  /\ clock = 0
  /\ \E r \in Rights : base \in {{}, {r}}
  /\ \E r \in Rights : roles \in {{}, {r}}
  /\ records = <<>>
  /\ policies = base
  /\ decision = NoDecision

Expired(r) == r.expires <= clock
Granted(r) == {r.who} \X r.actions
Enforce(who, action) == <<who, action>> \in policies \cup roles

\* check_delegation, by a principal that may delegate.
Delegate(who, type, actions, ttl) ==
  /\ Len(records) < MaxRecords
  /\ records' = Append(records,
       [who |-> who, type |-> type, actions |-> actions, expires |-> clock + ttl])
  /\ policies' = policies \cup ({who} \X actions)
  /\ UNCHANGED <<clock, base, roles, decision>>

\* prune_expired_delegations removes the policies of every expired record,
\* those that the policy file or another record gives as well.
Pruned == policies \ UNION {Granted(r) : r \in {q \in Elements(records) : Expired(q)}}

\* The records that decide about a request: those that cover it and either
\* have expired or still have their policy.
Deciding(who, type, action) ==
  {i \in DOMAIN records :
     /\ records[i].who = who /\ records[i].type = type
     /\ action \in records[i].actions
     /\ Expired(records[i]) \/ Enforce(who, action)}

\* check_permission: the oldest deciding record, or the enforcer after the
\* pruning.  The list itself is not pruned.
Check(who, type, action) ==
  /\ policies' = Pruned
  /\ decision' =
       [who |-> who, action |-> action, reason |->
         LET D == Deciding(who, type, action) IN
           IF D # {}
           THEN IF Expired(records[Lowest(D)]) THEN "delegation_expired" ELSE "delegation_allow"
           ELSE IF <<who, action>> \in Pruned \cup roles THEN "rbac_allow" ELSE "rbac_deny"]
  /\ UNCHANGED <<clock, base, roles, records>>

\* list_effective_permissions prunes the list as well.
List ==
  /\ policies' = Pruned
  /\ records' = Kept(records, {i \in DOMAIN records : ~Expired(records[i])})
  /\ UNCHANGED <<clock, base, roles, decision>>

Tick ==
  /\ clock < MaxTime
  /\ clock' = clock + 1
  /\ UNCHANGED <<base, roles, records, policies, decision>>

Next ==
  \/ \E d \in Delegates, t \in Types, A \in (SUBSET Actions) \ {{}}, ttl \in TTLs :
       Delegate(d, t, A, ttl)
  \/ \E d \in Delegates, t \in Types, a \in Actions : Check(d, t, a)
  \/ List
  \/ Tick

Spec == Init /\ [][Next]_vars

-----------------------------------------------------------------------------
(* Properties. *)

Allowing == {"delegation_allow", "rbac_allow"}

\* An allowed request has a right behind it at that moment: of the policy file,
\* of a role, or of a delegation that has not expired.
ExpiredGrantsNothing ==
  [][\A d \in Delegates, t \in Types, a \in Actions :
       decision'.reason \in Allowing /\ Check(d, t, a) =>
         \/ <<d, a>> \in base \cup roles
         \/ \E r \in Elements(records) : <<d, a>> \in Granted(r) /\ ~Expired(r)]_vars

\* No policy outlives the records: whatever is not of the policy file belongs
\* to a record that is still listed, so that its expiry will remove it.
PoliciesAreOwned ==
  policies \subseteq base \cup UNION {Granted(r) : r \in Elements(records)}
=============================================================================
