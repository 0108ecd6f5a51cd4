-------------------------------- MODULE Staff --------------------------------
(***************************************************************************)
(* Who is behind a request, as middleware/auth.js leaves it in req.user    *)
(* and req.regionScope: a role and the regions its queries match.  Both    *)
(* are loaded once, when the request enters, and do not change under it.   *)
(***************************************************************************)
CONSTANTS
  User,     \* accounts that send requests
  Region,   \* region codes, VALID_REGION_CODES
  Role,     \* Role[u]: user.role
  Reach     \* Reach[u]: the regions regionScopePlugin lets u's queries match

\* Region scoping limits an account to one region or to none; administrators
\* always see both.
StaffAssumption ==
  /\ Role \in [User -> {"admin", "manager", "cashier"}]
  /\ Reach \in [User -> SUBSET Region]
  /\ \A u \in User : Role[u] = "admin" => Reach[u] = Region
  /\ \A u \in User : Reach[u] = Region \/ \E g \in Region : Reach[u] = {g}

ASSUME StaffAssumption

IsAdmin(u) == Role[u] = "admin"

\* req.user.canValidate
CanValidate(u) == Role[u] \in {"admin", "manager"}

\* What regionScopePlugin adds to a query: regionCode = scope.
InReach(u, g) == g \in Reach[u]
===============================================================================
