------------------------------- MODULE Access -------------------------------
(***************************************************************************)
(* Roles, their permissions, employees and positions (roles.service.ts,    *)
(* employees.service.ts, positions.service.ts, authorization.service.ts).  *)
(*                                                                         *)
(* A request is admitted by the permissions guard and handled later, in a  *)
(* serializable transaction that reads the actor's permissions afresh.     *)
(* Permission keys are grouped: ROLES is every key of the role operations, *)
(* EMPLOYEES every key of the employee operations, SERVE any other.  Names *)
(* and descriptions are left out, and with them updateRole.                *)
(***************************************************************************)
EXTENDS Integers, FiniteSets

CONSTANTS People, Founder, CustomRoles, Positions,
          MaxRolesEach \* bound on the roles one employee is given

Keys == {"ROLES", "EMPLOYEES", "SERVE"}
\* The seeded system roles, which no operation changes.
SystemGrants == [OWNER |-> Keys, WAITER |-> {"SERVE"}]
SystemRoles == DOMAIN SystemGrants
Roles == CustomRoles \cup SystemRoles

VARIABLES staff,    \* Employee rows with their EmployeeRole rows
          role,     \* custom Role rows with their RolePermission rows
          position, \* Position rows
          request   \* the request of each person the guard has admitted

vars == <<staff, role, position, request>>

Row == {"NONE", "LIVE", "DELETED"}
Person == [row : {"NONE", "ACTIVE", "INACTIVE", "DELETED"}, roles : SUBSET Roles,
           position : Positions]
Role == [row : Row, grants : SUBSET Keys]
FirstPosition == CHOOSE p \in Positions : TRUE
NoPerson == [row |-> "NONE", roles |-> {}, position |-> FirstPosition]

\* The seed: an owner, in a position.
Init ==
  /\ staff = [e \in People |-> IF e = Founder
                               THEN [NoPerson EXCEPT !.row = "ACTIVE", !.roles = {"OWNER"}]
                               ELSE NoPerson]
  /\ role = [r \in CustomRoles |-> [row |-> "NONE", grants |-> {}]]
  /\ position = [p \in Positions |-> IF p = FirstPosition THEN "LIVE" ELSE "NONE"]
  /\ request = [e \in People |-> "none"]

Active(e) == staff[e].row = "ACTIVE"
Exists(e) == staff[e].row \in {"ACTIVE", "INACTIVE"}
LiveRoles == SystemRoles \cup {r \in CustomRoles : role[r].row = "LIVE"}
Grants(r) == IF r \in SystemRoles THEN SystemGrants[r] ELSE role[r].grants
RoleKeys(e) == UNION {Grants(r) : r \in staff[e].roles \cap LiveRoles}
\* getFreshAuthorizationContext: an inactive employee has no context.
Permissions(e) == IF Active(e) THEN RoleKeys(e) ELSE {}
\* assertCanGrantPermissions
CanGrant(a, keys) == Active(a) /\ keys \subseteq Permissions(a)

\* PermissionsGuard.canActivate; the handler runs later.
Admit(a, key) ==
  /\ request[a] = "none" /\ CanGrant(a, {key})
  /\ request' = [request EXCEPT ![a] = key]
  /\ UNCHANGED <<staff, role, position>>
\* The handler answers, with success or by throwing.
Answer(a, key) ==
  /\ request[a] = key
  /\ request' = [request EXCEPT ![a] = "none"]
Refused(a) ==
  /\ request[a] # "none"
  /\ Answer(a, request[a])
  /\ UNCHANGED <<staff, role, position>>

-----------------------------------------------------------------------------
(* Roles                                                                   *)

\* createRole, from a template or empty; importRoles creates empty ones.
CreateRole(a, r, template) ==
  /\ Answer(a, "ROLES") /\ CanGrant(a, {"ROLES"})
  /\ role[r].row = "NONE"
  /\ template \in LiveRoles => CanGrant(a, Grants(template))
  /\ role' = [role EXCEPT ![r] =
       [row |-> "LIVE", grants |-> IF template \in LiveRoles THEN Grants(template) ELSE {}]]
  /\ UNCHANGED <<staff, position>>

\* loadManagedRole
ManagesRole(a, r) ==
  /\ role[r].row = "LIVE"
  /\ CanGrant(a, {"ROLES"} \cup role[r].grants)
  /\ r \notin staff[a].roles
ReplaceRolePermissions(a, r, keys) ==
  /\ Answer(a, "ROLES") /\ ManagesRole(a, r) /\ CanGrant(a, keys)
  /\ keys # role[r].grants
  /\ role' = [role EXCEPT ![r].grants = keys]
  /\ UNCHANGED <<staff, position>>
DeleteRole(a, r) ==
  /\ Answer(a, "ROLES") /\ ManagesRole(a, r)
  /\ \A e \in People : r \notin staff[e].roles
  /\ role' = [role EXCEPT ![r] = [row |-> "DELETED", grants |-> {}]]
  /\ UNCHANGED <<staff, position>>

-----------------------------------------------------------------------------
(* Employees                                                               *)

\* createEmployee: the guard's word is taken, and no role is given.
CreateEmployee(a, e, p) ==
  /\ Answer(a, "EMPLOYEES")
  /\ staff[e].row = "NONE" /\ position[p] = "LIVE"
  /\ staff' = [staff EXCEPT ![e] = [row |-> "ACTIVE", roles |-> {}, position |-> p]]
  /\ UNCHANGED <<role, position>>
\* signUp, with the default role and position.
SignUp(e) ==
  /\ staff[e].row = "NONE" /\ position[FirstPosition] = "LIVE"
  /\ staff' = [staff EXCEPT ![e] = [row |-> "ACTIVE", roles |-> {"WAITER"},
                                    position |-> FirstPosition]]
  /\ UNCHANGED <<role, position, request>>

\* loadManagedEmployee
ManagesEmployee(a, e) == Exists(e) /\ CanGrant(a, {"EMPLOYEES"} \cup RoleKeys(e))
IsOwner(e) == Active(e) /\ "OWNER" \in staff[e].roles
\* Mutant: the last owner may go.
AnyoneMayGo(e) == TRUE
AssertOwnerRemains(e) == IsOwner(e) => \E o \in People \ {e} : IsOwner(o)

\* updateEmployee, with isActive or a position.
Activate(a, e) ==
  /\ Answer(a, "EMPLOYEES") /\ ManagesEmployee(a, e) /\ ~Active(e)
  /\ staff' = [staff EXCEPT ![e].row = "ACTIVE"]
  /\ UNCHANGED <<role, position>>
Deactivate(a, e) ==
  /\ Answer(a, "EMPLOYEES") /\ ManagesEmployee(a, e) /\ Active(e)
  /\ e # a /\ AssertOwnerRemains(e)
  /\ staff' = [staff EXCEPT ![e].row = "INACTIVE"]
  /\ UNCHANGED <<role, position>>
Move(a, e, p) ==
  /\ Answer(a, "EMPLOYEES") /\ ManagesEmployee(a, e) /\ position[p] = "LIVE"
  /\ staff' = [staff EXCEPT ![e].position = p]
  /\ UNCHANGED <<role, position>>
DeleteEmployee(a, e) ==
  /\ Answer(a, "EMPLOYEES") /\ ManagesEmployee(a, e)
  /\ e # a /\ AssertOwnerRemains(e)
  /\ staff' = [staff EXCEPT ![e].row = "DELETED", ![e].roles = {}]
  /\ UNCHANGED <<role, position>>
ReplaceEmployeeRoles(a, e, roles) ==
  /\ Answer(a, "EMPLOYEES") /\ ManagesEmployee(a, e) /\ Active(e)
  /\ e # a /\ roles \subseteq LiveRoles /\ roles # staff[e].roles
  /\ CanGrant(a, UNION {Grants(r) : r \in roles})
  /\ "OWNER" \notin roles => AssertOwnerRemains(e)
  /\ staff' = [staff EXCEPT ![e].roles = roles]
  /\ UNCHANGED <<role, position>>

-----------------------------------------------------------------------------
(* Positions                                                               *)

CreatePosition(a, p) ==
  /\ Answer(a, "EMPLOYEES") /\ Active(a) /\ position[p] = "NONE"
  /\ position' = [position EXCEPT ![p] = "LIVE"]
  /\ UNCHANGED <<staff, role>>
DeletePosition(a, p) ==
  /\ Answer(a, "EMPLOYEES") /\ Active(a) /\ position[p] = "LIVE"
  /\ \A e \in People : Exists(e) => staff[e].position # p
  /\ position' = [position EXCEPT ![p] = "DELETED"]
  /\ UNCHANGED <<staff, role>>

RoleSets == {R \in SUBSET Roles : Cardinality(R) <= MaxRolesEach}
Next ==
  \/ \E a \in People :
       \/ \E key \in {"ROLES", "EMPLOYEES"} : Admit(a, key)
       \/ Refused(a)
       \/ \E r \in CustomRoles :
            \/ \E template \in Roles \cup {"none"} : CreateRole(a, r, template)
            \/ \E keys \in SUBSET Keys : ReplaceRolePermissions(a, r, keys)
            \/ DeleteRole(a, r)
       \/ \E e \in People :
            \/ \E p \in Positions : CreateEmployee(a, e, p) \/ Move(a, e, p)
            \/ Activate(a, e) \/ Deactivate(a, e) \/ DeleteEmployee(a, e)
            \/ \E roles \in RoleSets : ReplaceEmployeeRoles(a, e, roles)
       \/ \E p \in Positions : CreatePosition(a, p) \/ DeletePosition(a, p)
  \/ \E e \in People : SignUp(e)

Spec == Init /\ [][Next]_vars

-----------------------------------------------------------------------------
\* Whatever two administrators do to each other, an active owner remains, so
\* that the shop can be administered; whoever is not deleted has a role and a
\* position that exist, and whoever is deleted has none of the roles.
\* (assertOwnerRemains, deleteRole, deleteEmployee, deletePosition.)
AccessSound ==
  /\ staff \in [People -> Person] /\ role \in [CustomRoles -> Role]
  /\ \E e \in People : IsOwner(e)
  /\ \A e \in People :
       /\ staff[e].roles \subseteq LiveRoles
       /\ Exists(e) => position[staff[e].position] = "LIVE"
       /\ staff[e].row = "DELETED" => staff[e].roles = {}

\* What an employee may do changes only by a request of somebody else who at
\* that moment is active and has every permission that is given or taken,
\* although the guard admitted the request earlier.
\* (loadManagedEmployee, loadManagedRole, getFreshAuthorizationContext.)
AccessIsGranted ==
  \A e \in People :
    LET before == Permissions(e)
        after == Permissions(e)'
    IN before # after /\ staff[e].row # "NONE" =>
         \E a \in People \ {e} :
           /\ request[a] # "none" /\ request'[a] = "none"
           /\ (before \ after) \cup (after \ before) \subseteq Permissions(a)
=============================================================================
