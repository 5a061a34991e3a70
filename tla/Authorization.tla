---------------------------- MODULE Authorization ----------------------------
(* Who may do what (03_SECURITY): roles and their assignments (rbac.c),    *)
(* permission objects and protected resources (permission.c), and the      *)
(* decision that asks them all (authorization.c), over the identity        *)
(* service.  The answer of the session service is an input that Sessions   *)
(* bounds: no session of a suspended, revoked or unknown identity is       *)
(* valid.  The answer of the policy's provider is an input too.            *)
EXTENDS Identities, Sequences, TLAPS

CONSTANTS
  Roles,            \* identifiers of roles; at most OZAYN_RBAC_MAX_ROLES
  MaxRolePerms,     \* OZAYN_RBAC_MAX_PERMISSIONS
  MaxAssignments,   \* OZAYN_RBAC_MAX_ASSIGNMENTS
  ResourceTypes, ResourceActions,
  PermIds,          \* identifiers of permission objects, at most OZAYN_PERM_MAX_PERMS
  GrantScopes,      \* (bound) scopes of what is granted or protected
  AskedScopes,      \* (bound) scopes as requests spell them
  ResourceRefs,     \* references of protected resources
  MaxProtected,     \* OZAYN_PERM_MAX_PERMS again
  PolicyProviders,  \* providers of policies
  MaxPolicyProviders  \* OZAYN_AUTHZ_MAX_PROVIDERS

ASSUME RightsAssumption ==
  ResourceTypes # {} /\ ResourceActions # {} /\ GrantScopes # {} /\ MaxAssignments \in Nat

VARIABLES
  roleState, rolePerms,   \* per role
  assignments,            \* the table, [who, role, scope, state]
  perm,                   \* permission objects, [state, grant]
  protected,              \* the table of protected resources: [type, ref, scope]
  policy,                 \* registered providers, in order
  configured,             \* the services the decision was configured with
  given,                  \* the services it was given later
  allowed                 \* history: whom the last step allowed what

decisionVars == <<policy, configured, given>>
rightsVars == <<roleState, rolePerms, assignments, perm, protected, decisionVars, allowed>>

Deeds == [type : ResourceTypes, action : ResourceActions]
Grants == [deed : Deeds, scope : GrantScopes]
GrantStates == {"absent", "ACTIVE", "SUSPENDED", "REVOKED", "ARCHIVED"}
AssignStates == {"ACTIVE", "SUSPENDED", "REVOKED", "EXPIRED"}
Assignments == [who : Ids, role : Roles, scope : GrantScopes, state : AssignStates]
Services == {"roles", "permissions"}

RightsInit ==
  /\ roleState = [r \in Roles |-> "absent"] /\ rolePerms = [r \in Roles |-> {}]
  /\ assignments = <<>> /\ protected = <<>> /\ policy = <<>> /\ allowed = {}
  /\ configured \in SUBSET Services /\ given = {}
  /\ perm \in [PermIds -> [state : {"absent"}, grant : {CHOOSE g \in Grants : TRUE}]]
-----------------------------------------------------------------------------
(* Roles *)

RolesOnly == allowed' = {} /\ UNCHANGED <<assignments, perm, protected, decisionVars>>

CreateRole(r) ==
  /\ roleState[r] = "absent" /\ roleState' = [roleState EXCEPT ![r] = "ACTIVE"]
  /\ UNCHANGED rolePerms /\ RolesOnly

(* Shared by roles and permission objects.  Nothing brings a role back.    *)
GrantMoves ==
  {<<"ACTIVE", "SUSPENDED">>, <<"ACTIVE", "REVOKED">>, <<"ACTIVE", "ARCHIVED">>,
   <<"SUSPENDED", "ACTIVE">>, <<"SUSPENDED", "REVOKED">>, <<"SUSPENDED", "ARCHIVED">>,
   <<"REVOKED", "ARCHIVED">>}
MoveRole(r, to) ==
  /\ to # "ACTIVE" /\ <<roleState[r], to>> \in GrantMoves
  /\ roleState' = [roleState EXCEPT ![r] = to] /\ UNCHANGED rolePerms /\ RolesOnly

(* Whatever the state of the role.                                         *)
AddPermission(r, g) ==
  /\ roleState[r] # "absent" /\ g \notin rolePerms[r] /\ Cardinality(rolePerms[r]) < MaxRolePerms
  /\ rolePerms' = [rolePerms EXCEPT ![r] = @ \cup {g}] /\ UNCHANGED roleState /\ RolesOnly
RemovePermission(r, g) ==
  /\ g \in rolePerms[r] /\ rolePerms' = [rolePerms EXCEPT ![r] = @ \ {g}]
  /\ UNCHANGED roleState /\ RolesOnly
-----------------------------------------------------------------------------
(* Assignments *)

AssignmentsOnly == allowed' = {} /\ UNCHANGED <<roleState, rolePerms, perm, protected, decisionVars>>

Holds(i, r) ==
  \E k \in DOMAIN assignments :
    assignments[k].who = i /\ assignments[k].role = r /\ assignments[k].state = "ACTIVE"

(* The places of assignments that have ended are not used again.           *)
Assign(i, r, s) ==
  /\ roleState[r] = "ACTIVE" /\ identity[i] = "ACTIVE" /\ ~Holds(i, r)
  /\ Len(assignments) < MaxAssignments
  /\ assignments' = Append(assignments, [who |-> i, role |-> r, scope |-> s, state |-> "ACTIVE"])
  /\ AssignmentsOnly

(* A suspended one is not resumed either, and only an active one expires.  *)
MoveAssignment(k, to) ==
  /\ \/ assignments[k].state = "ACTIVE" /\ to \in {"SUSPENDED", "REVOKED", "EXPIRED"}
     \/ assignments[k].state = "SUSPENDED" /\ to = "REVOKED"
  /\ assignments' = [assignments EXCEPT ![k].state = to] /\ AssignmentsOnly
-----------------------------------------------------------------------------
(* Permission objects and protected resources *)

PermsOnly == allowed' = {} /\ UNCHANGED <<roleState, rolePerms, assignments, decisionVars>>

CreatePerm(p, g) ==
  /\ perm[p].state = "absent" /\ perm' = [perm EXCEPT ![p] = [state |-> "ACTIVE", grant |-> g]]
  /\ UNCHANGED protected /\ PermsOnly
MovePerm(p, to) ==
  /\ <<perm[p].state, to>> \in GrantMoves /\ perm' = [perm EXCEPT ![p].state = to]
  /\ UNCHANGED protected /\ PermsOnly

(* `ref' is empty for a whole type of resources.                           *)
Protect(type, ref, s) ==
  /\ Len(protected) < MaxProtected
  /\ protected' = Append(protected, [type |-> type, ref |-> ref, scope |-> s])
  /\ UNCHANGED perm /\ PermsOnly
-----------------------------------------------------------------------------
(* The decision *)

DecisionOnly == allowed' = {} /\ UNCHANGED <<roleState, rolePerms, assignments, perm, protected, configured>>

RegisterPolicy(v) ==
  /\ \A n \in DOMAIN policy : policy[n] # v
  /\ Len(policy) < MaxPolicyProviders /\ policy' = Append(policy, v)
  /\ UNCHANGED given /\ DecisionOnly
UnregisterPolicy(v) ==
  /\ \E n \in DOMAIN policy : policy[n] = v
  /\ policy' = SelectSeq(policy, LAMBDA w : w # v) /\ UNCHANGED given /\ DecisionOnly

(* ozayn_authz_set_rbac_service and its twin for permissions write a       *)
(* global that the decision does not read.                                 *)
SetService(service) == given' = given \cup {service} /\ UNCHANGED policy /\ DecisionOnly

(* Requests are checked against names in small letters, and the scope is   *)
(* then looked up among names in capitals.                                 *)
SpelledScopes == {"", "system", "user", "device", "module", "service", "global"}
ScopeNames == {"SYSTEM", "USER", "DEVICE", "MODULE", "SERVICE", "GLOBAL"}
Resolved(asked) == IF asked \in ScopeNames THEN asked ELSE "UNKNOWN"

Covers(scope, asked) == scope = "GLOBAL" \/ scope = asked

(* ozayn_rbac_check_permission                                             *)
RoleAllows_RoleStateIgnored(i, d, scope) ==   \* mutant: a role that was revoked still grants
  /\ identity[i] = "ACTIVE"
  /\ \E k \in DOMAIN assignments :
       /\ assignments[k].who = i /\ assignments[k].state = "ACTIVE"
       /\ Covers(assignments[k].scope, scope)
       /\ \E g \in rolePerms[assignments[k].role] : g.deed = d /\ Covers(g.scope, scope)

RoleAllows(i, d, scope) ==
  /\ identity[i] = "ACTIVE"
  /\ \E k \in DOMAIN assignments :
       /\ assignments[k].who = i /\ assignments[k].state = "ACTIVE"
       /\ Covers(assignments[k].scope, scope)
       /\ roleState[assignments[k].role] = "ACTIVE"
       /\ \E g \in rolePerms[assignments[k].role] : g.deed = d /\ Covers(g.scope, scope)

(* ozayn_perm_matches, of an object that is active.                        *)
PermAllows(d, scope) ==
  \E p \in PermIds :
    perm[p].state = "ACTIVE" /\ perm[p].grant.deed = d /\ Covers(perm[p].grant.scope, scope)

(* ozayn_authz_authorize.  Only the first provider is asked; `answer' says *)
(* whether it can be reached and allows the deed.                          *)
Authorize(i, d, asked, session, answer) ==
  /\ session => i \in Known /\ identity[i] \notin {"REVOKED", "SUSPENDED"}
  /\ allowed' =
       IF /\ asked \in SpelledScopes /\ session /\ identity[i] # "ARCHIVED"
          /\ "roles" \in configured => RoleAllows(i, d, Resolved(asked))
          /\ "permissions" \in configured => PermAllows(d, Resolved(asked))
          /\ policy # <<>> /\ answer
       THEN {[who |-> i, deed |-> d]} ELSE {}
  /\ UNCHANGED <<roleState, rolePerms, assignments, perm, protected, decisionVars>>

(* ozayn_perm_enforce.  The first entry that protects the resource decides *)
(* which scope it takes; which action is meant is not asked.               *)
Protecting(type, ref) ==
  {n \in DOMAIN protected : protected[n].type = type /\ protected[n].ref \in {"", ref}}
Enforced(p, type, ref, scope) ==
  /\ perm[p].state = "ACTIVE"
  /\ perm[p].grant.deed.type = type /\ Covers(perm[p].grant.scope, scope)
  /\ \A n \in Protecting(type, ref) :
       (\A l \in Protecting(type, ref) : n <= l) => Covers(protected[n].scope, scope)

RightsNext ==
  \/ \E r \in Roles : \/ CreateRole(r) \/ \E to \in GrantStates : MoveRole(r, to)
                      \/ \E g \in Grants : AddPermission(r, g) \/ RemovePermission(r, g)
  \/ \E i \in Ids : \/ \E r \in Roles, s \in GrantScopes : Assign(i, r, s)
                    \/ \E d \in Deeds, asked \in AskedScopes, session, answer \in BOOLEAN :
                         Authorize(i, d, asked, session, answer)
  \/ \E k \in DOMAIN assignments, to \in AssignStates : MoveAssignment(k, to)
  \/ \E p \in PermIds : \/ \E g \in Grants : CreatePerm(p, g)
                        \/ \E to \in GrantStates : MovePerm(p, to)
  \/ \E type \in ResourceTypes, ref \in ResourceRefs \cup {""}, s \in GrantScopes : Protect(type, ref, s)
  \/ \E v \in PolicyProviders : RegisterPolicy(v) \/ UnregisterPolicy(v)
  \/ \E service \in Services : SetService(service)

(* Identities change meanwhile, and nothing is asked.                      *)
Undecided ==
  allowed' = {} /\ UNCHANGED <<roleState, rolePerms, assignments, perm, protected, decisionVars>>
AroundRights == IdentityNext /\ Undecided

RightsSpec ==
  /\ IdentityInit /\ RightsInit
  /\ [][(RightsNext /\ UNCHANGED identityVars) \/ AroundRights]_<<identityVars, rightsVars>>

RightsTypeOK ==
  /\ roleState \in [Roles -> GrantStates] /\ rolePerms \in [Roles -> SUBSET Grants]
  /\ assignments \in Seq(Assignments) /\ Len(assignments) <= MaxAssignments
  /\ perm \in [PermIds -> [state : GrantStates, grant : Grants]]
  /\ configured \subseteq Services /\ given \subseteq Services
  /\ allowed \subseteq [who : Ids, deed : Deeds]

-----------------------------------------------------------------------------
(* A deed is allowed to an identity that is active now, by way of a role   *)
(* that is active and held now and has the permission now, and of an       *)
(* active object: what was suspended, revoked, archived, expired or taken  *)
(* out of a role before counts no more (authorization.c:365, rbac.c:611).  *)
AllowedIsBacked ==
  \A a \in allowed :
    /\ identity[a.who] = "ACTIVE"
    /\ "roles" \in configured =>
         \E r \in Roles : /\ Holds(a.who, r) /\ roleState[r] = "ACTIVE"
                         /\ \E g \in rolePerms[r] : g.deed = a.deed
    /\ "permissions" \in configured =>
         \E p \in PermIds : perm[p].state = "ACTIVE" /\ perm[p].grant.deed = a.deed

(* A role is held by one active assignment at most, so that revoking,      *)
(* suspending or expiring that one takes the role away (rbac.c:482).       *)
HeldByOne ==
  \A j, k \in DOMAIN assignments :
    /\ assignments[j].state = "ACTIVE" /\ assignments[k].state = "ACTIVE"
    /\ assignments[j].who = assignments[k].who /\ assignments[j].role = assignments[k].role
    => j = k

RightsSafe == RightsTypeOK /\ AllowedIsBacked /\ HeldByOne

(* The two hold for any number of identities, roles and assignments.  What *)
(* the induction needs besides is that the table holds assignments.        *)
RightsInv == assignments \in Seq(Assignments) /\ HeldByOne /\ AllowedIsBacked

(* Only Assign adds an active assignment, and only to who holds the role   *)
(* no more; nothing makes one active again (rbac.c:482, 545).              *)
LEMMA HeldByOneKept ==
  RightsInv /\ [(RightsNext /\ UNCHANGED identityVars) \/ AroundRights]_<<identityVars, rightsVars>>
    => (assignments \in Seq(Assignments) /\ HeldByOne)'
<1> SUFFICES ASSUME RightsInv,
                    [(RightsNext /\ UNCHANGED identityVars) \/ AroundRights]_<<identityVars, rightsVars>>
             PROVE (assignments \in Seq(Assignments) /\ HeldByOne)'
  OBVIOUS
<1>1. CASE UNCHANGED assignments
  BY <1>1 DEF RightsInv, HeldByOne
<1>2. ASSUME NEW i \in Ids, NEW r \in Roles, NEW s \in GrantScopes, Assign(i, r, s)
      PROVE (assignments \in Seq(Assignments) /\ HeldByOne)'
  <2> DEFINE new == [who |-> i, role |-> r, scope |-> s, state |-> "ACTIVE"]
  <2>1. assignments' = Append(assignments, new) /\ new \in Assignments /\ ~Holds(i, r)
    BY <1>2 DEF Assign, Assignments, AssignStates
  <2>2. assignments' \in Seq(Assignments)
    BY <2>1 DEF RightsInv
  <2>3. ASSUME NEW k \in DOMAIN assignments'
        PROVE \/ k \in DOMAIN assignments /\ assignments'[k] = assignments[k]
              \/ k = Len(assignments) + 1 /\ assignments'[k] = new
    BY <2>1, <2>3 DEF RightsInv
  <2>4. HeldByOne'
    BY <2>1, <2>3 DEF RightsInv, HeldByOne, Holds
  <2> QED BY <2>2, <2>4
<1>3. ASSUME NEW k \in DOMAIN assignments, NEW to \in AssignStates, MoveAssignment(k, to)
      PROVE (assignments \in Seq(Assignments) /\ HeldByOne)'
  <2>1. assignments' = [assignments EXCEPT ![k] = [@ EXCEPT !.state = to]] /\ to # "ACTIVE"
    BY <1>3 DEF MoveAssignment
  <2>2. [assignments[k] EXCEPT !.state = to] \in Assignments
    <3>1. assignments[k] \in Assignments
      BY DEF RightsInv
    <3> QED BY <3>1 DEF Assignments
  <2>3. assignments' \in Seq(Assignments)
    BY <2>1, <2>2 DEF RightsInv
  <2>4. HeldByOne'
    BY <2>1 DEF RightsInv, HeldByOne, Assignments
  <2> QED BY <2>3, <2>4
<1> QED
  BY <1>1, <1>2, <1>3 DEF RightsNext, AroundRights, Undecided, rightsVars, RolesOnly, PermsOnly, DecisionOnly,
     CreateRole, MoveRole, AddPermission, RemovePermission, CreatePerm, MovePerm, Protect,
     RegisterPolicy, UnregisterPolicy, SetService, Authorize

(* A decision reads everything it rests on itself, and nothing changes in  *)
(* the same call.                                                          *)
LEMMA DecisionIsBacked ==
  ASSUME NEW i \in Ids, NEW d \in Deeds, NEW asked, NEW session \in BOOLEAN, NEW answer \in BOOLEAN,
         assignments \in Seq(Assignments), UNCHANGED identityVars, Authorize(i, d, asked, session, answer)
  PROVE AllowedIsBacked'
<1>1. UNCHANGED <<identity, configured, assignments, roleState, rolePerms, perm>>
  BY DEF Authorize, identityVars, decisionVars
<1>2. CASE allowed' = {}
  BY <1>2 DEF AllowedIsBacked
<1>3. CASE allowed' # {}
  <2>1. /\ allowed' = {[who |-> i, deed |-> d]} /\ identity[i] = "ACTIVE"
        /\ "roles" \in configured => RoleAllows(i, d, Resolved(asked))
        /\ "permissions" \in configured => PermAllows(d, Resolved(asked))
    BY <1>3 DEF Authorize, Known, IdentityStates
  <2>2. "roles" \in configured =>
          \E r \in Roles : /\ Holds(i, r) /\ roleState[r] = "ACTIVE"
                          /\ \E g \in rolePerms[r] : g.deed = d
    <3> SUFFICES ASSUME "roles" \in configured
                 PROVE \E r \in Roles : /\ Holds(i, r) /\ roleState[r] = "ACTIVE"
                                       /\ \E g \in rolePerms[r] : g.deed = d
      OBVIOUS
    <3>1. PICK k \in DOMAIN assignments :
            /\ assignments[k].who = i /\ assignments[k].state = "ACTIVE"
            /\ roleState[assignments[k].role] = "ACTIVE"
            /\ \E g \in rolePerms[assignments[k].role] : g.deed = d
      BY <2>1 DEF RoleAllows
    <3>2. assignments[k] \in Assignments
      OBVIOUS
    <3>3. assignments[k].role \in Roles
      BY <3>2 DEF Assignments
    <3> QED BY <3>1, <3>3 DEF Holds
  <2>3. "permissions" \in configured =>
          \E p \in PermIds : perm[p].state = "ACTIVE" /\ perm[p].grant.deed = d
    BY <2>1 DEF PermAllows
  <2> QED BY <1>1, <2>1, <2>2, <2>3 DEF AllowedIsBacked, Holds
<1> QED BY <1>2, <1>3

(* Whoever is allowed something holds, at that moment, an active role      *)
(* that has the permission, and holds it once (authorization.c:331).       *)
THEOREM RightsCorrect == RightsSpec => [](AllowedIsBacked /\ HeldByOne)
<1>1. IdentityInit /\ RightsInit => RightsInv
  BY DEF RightsInit, RightsInv, HeldByOne, AllowedIsBacked
<1>2. RightsInv /\ [(RightsNext /\ UNCHANGED identityVars) \/ AroundRights]_<<identityVars, rightsVars>>
        => RightsInv'
  <2> SUFFICES ASSUME RightsInv,
                      [(RightsNext /\ UNCHANGED identityVars) \/ AroundRights]_<<identityVars, rightsVars>>
               PROVE RightsInv'
    OBVIOUS
  <2>1. (assignments \in Seq(Assignments) /\ HeldByOne)'
    BY HeldByOneKept
  <2>2. ASSUME allowed' = {} PROVE AllowedIsBacked'
    BY <2>2 DEF AllowedIsBacked
  <2>3. ASSUME UNCHANGED <<identityVars, rightsVars>> PROVE AllowedIsBacked'
    <3>1. UNCHANGED <<identity, allowed, configured, assignments, roleState, rolePerms, perm>>
      BY <2>3 DEF identityVars, rightsVars, decisionVars
    <3> QED BY <3>1 DEF RightsInv, AllowedIsBacked, Holds
  <2>4. ASSUME UNCHANGED identityVars, NEW i \in Ids, NEW d \in Deeds, NEW asked \in AskedScopes,
               NEW session \in BOOLEAN, NEW answer \in BOOLEAN, Authorize(i, d, asked, session, answer)
        PROVE AllowedIsBacked'
    BY <2>4, DecisionIsBacked DEF RightsInv
  <2>5. AllowedIsBacked'
    BY <2>2, <2>3, <2>4 DEF RightsNext, AroundRights, Undecided, RolesOnly, AssignmentsOnly, PermsOnly,
       DecisionOnly, CreateRole, MoveRole, AddPermission, RemovePermission, Assign, MoveAssignment,
       CreatePerm, MovePerm, Protect, RegisterPolicy, UnregisterPolicy, SetService
  <2> QED BY <2>1, <2>5 DEF RightsInv
<1>3. RightsInv => AllowedIsBacked /\ HeldByOne
  BY DEF RightsInv
<1> QED BY <1>1, <1>2, <1>3, PTL DEF RightsSpec
-----------------------------------------------------------------------------
(* Do not hold.  "When set, authorize() will check RBAC permissions"       *)
(* (rbac.h:348): it asks the services it was configured with, no others.   *)
GivenIsAsked ==
  "roles" \in given =>
    \A a \in allowed : \E r \in Roles : Holds(a.who, r) /\ \E g \in rolePerms[r] : g.deed = a.deed

(* What is granted for users to a user is granted when the request says    *)
(* so: the request must spell it in small letters and is then compared in  *)
(* capitals (authorization.c:409).                                         *)
ScopedIsGranted ==
  \A k \in DOMAIN assignments, d \in Deeds :
    (/\ assignments[k].state = "ACTIVE" /\ assignments[k].scope = "USER"
     /\ identity[assignments[k].who] = "ACTIVE" /\ roleState[assignments[k].role] = "ACTIVE"
     /\ [deed |-> d, scope |-> "USER"] \in rolePerms[assignments[k].role])
    => \E asked \in SpelledScopes : RoleAllows(assignments[k].who, d, Resolved(asked))

(* The first entry that protects a resource hides the others.              *)
EveryProtectionCounts ==
  \A p \in PermIds, type \in ResourceTypes, ref \in ResourceRefs, s \in GrantScopes :
    Enforced(p, type, ref, s) => \A n \in Protecting(type, ref) : Covers(protected[n].scope, s)
=============================================================================
