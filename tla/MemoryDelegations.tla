-------------------------- MODULE MemoryDelegations --------------------------
(***************************************************************************)
(* InMemoryPermissionAdapter: roles and delegations of one tenant on one   *)
(* resource.  Unlike the casbin adapter it keeps a delegation once, as a   *)
(* record, and prunes the list whenever it is asked.                       *)
(***************************************************************************)
EXTENDS Naturals, Containers

CONSTANTS
  Principals,
  Actions,
  RoleActions, \* ROLE_HIERARCHY: the actions of each role
  Delegating,  \* the roles that hold "delegate"
  NoRole,
  TTLs,        \* ttl_seconds asked for
  MaxRecords,  \* bound: records at a time
  MaxTime      \* bound: the clock

VARIABLES
  clock,       \* time.time()
  roles,       \* _roles
  records,     \* _delegations, oldest first
  decision,    \* the last decision: who asked for what, and the reason
  refused      \* history: records in the list that have answered "delegation_expired"

vars == <<clock, roles, records, decision, refused>>

Records == [who : Principals, actions : (SUBSET Actions) \ {{}}, expires : Nat]
Reasons == {"none", "delegation_created", "delegation_allow", "delegation_expired", "rbac_allow", "rbac_deny"}

TypeOK ==
  /\ clock \in 0..MaxTime
  /\ roles \in [Principals -> DOMAIN RoleActions \union {NoRole}]
  /\ records \in Seq(Records)
  /\ decision.reason \in Reasons
  /\ refused \subseteq Records

Init ==
  /\ clock = 0
  /\ roles = [p \in Principals |-> NoRole]
  /\ records = <<>>
  /\ decision = [who |-> CHOOSE p \in Principals : TRUE, action |-> CHOOSE a \in Actions : TRUE, reason |-> "none"]
  /\ refused = {}

Tick ==
  /\ clock < MaxTime
  /\ clock' = clock + 1
  /\ UNCHANGED <<roles, records, decision, refused>>

AddRole(p, role) ==
  /\ roles' = [roles EXCEPT ![p] = role]
  /\ UNCHANGED <<clock, records, decision, refused>>

Decide(p, a, reason) == decision' = [who |-> p, action |-> a, reason |-> reason]

\* perform_delegation, by a principal whose role may delegate or may not.
Delegate(by, to, actions, ttl) ==
  /\ Len(records) < MaxRecords
  /\ \/ /\ roles[by] \in Delegating
        /\ records' = Append(records, [who |-> to, actions |-> actions, expires |-> clock + ttl])
        /\ Decide(by, decision.action, "delegation_created")
     \/ /\ roles[by] \notin Delegating
        /\ Decide(by, decision.action, "rbac_deny")
        /\ UNCHANGED records
  /\ UNCHANGED <<clock, roles, refused>>

Live(r) == r.expires > clock

\* prune_expired_delegations
Prune == records' = Kept(records, {i \in DOMAIN records : Live(records[i])})

RoleDecision(p, a) ==
  IF roles[p] # NoRole /\ a \in RoleActions[roles[p]] THEN "rbac_allow" ELSE "rbac_deny"

\* check_active_delegation: the first record that covers the request decides,
\* live or expired, and the list is pruned after it; else the role decides.
CheckPermission(p, a) ==
  LET covering == {i \in DOMAIN records : records[i].who = p /\ a \in records[i].actions}
      first == records[Lowest(covering)]
  IN  /\ Prune
      /\ \/ covering # {} /\ Live(first) /\ Decide(p, a, "delegation_allow") /\ UNCHANGED refused
         \/ /\ covering # {} /\ ~Live(first)
            /\ Decide(p, a, "delegation_expired")
            /\ refused' = (refused \union {first}) \intersect Elements(records')
         \/ covering = {} /\ Decide(p, a, RoleDecision(p, a)) /\ UNCHANGED refused
      /\ UNCHANGED <<clock, roles>>

\* list_effective_permissions
List ==
  /\ Prune
  /\ UNCHANGED <<clock, roles, decision, refused>>

Next ==
  \/ Tick \/ List
  \/ \E p \in Principals :
       \/ \E role \in DOMAIN RoleActions : AddRole(p, role)
       \/ \E a \in Actions : CheckPermission(p, a)
       \/ \E q \in Principals, actions \in (SUBSET Actions) \ {{}}, ttl \in TTLs : Delegate(p, q, actions, ttl)

Spec == Init /\ [][Next]_vars

-----------------------------------------------------------------------------
(* Properties *)

\* What is allowed is allowed by the principal's role, or by a record that has
\* not expired at that moment.
ExpiredGrantsNothing ==
  [][\A p \in Principals, a \in Actions :
       decision'.reason \in {"delegation_allow", "rbac_allow"} /\ CheckPermission(p, a) =>
         \/ roles[p] # NoRole /\ a \in RoleActions[roles[p]]
         \/ \E r \in Elements(records) : r.who = p /\ a \in r.actions /\ Live(r)]_vars

\* A record that has expired denies one request at most, so that a delegation
\* renewed behind it counts from the next one on.
ExpiredDeniesOnce == \A r \in Elements(records) : r \in refused => Live(r)
=============================================================================
