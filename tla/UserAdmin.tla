------------------------------- MODULE UserAdmin -------------------------------
(***************************************************************************)
(* Administrators changing accounts: routes/users.js over models/User.js.  *)
(*                                                                         *)
(* A handler loads the account, may count the other administrators, and    *)
(* saves.  Mongoose writes only the paths whose value differs from the one *)
(* it loaded, to the document as it is by then; the pre-save hook works on *)
(* the loaded copy.  Authentication, load, count and save are separate     *)
(* steps, and requests interleave between them.                            *)
(*                                                                         *)
(* Names, e-mail, history, region and module permissions are left out.     *)
(* A save that replaces the array of module permissions also checks __v:   *)
(* it may fail where the model lets it succeed or fail, see Abandon.       *)
(***************************************************************************)
EXTENDS Integers

CONSTANTS
  User,    \* accounts that ever exist; an id is never reused
  Request  \* requests to the routes, each served once

VARIABLES
  users,    \* users[u]: the document of u
  request,  \* request[r]: where request r stands, and what it loaded
  admitted, \* accounts that an administrator has let in (history)
  raced     \* has a write come between the load and the write of another
            \* request (history)?

vars == <<users, request, admitted, raced>>

-------------------------------------------------------------------------------

Role == {"admin", "staff"}
Status == {"pending", "active", "suspended", "rejected"}

Doc == [role : Role, status : Status, isActive : BOOLEAN, tokenVersion : Nat]

Absent == [role |-> "none"]
Deleted == [role |-> "deleted"]

Exists(u) == users[u] \notin {Absent, Deleted}

\* What a request asks for; a role comes with an approval and a role change.
Ask == [kind : {"reject", "suspend", "reactivate", "region", "status",
                "password", "delete"}, target : User]
       \cup [kind : {"approve", "role"}, target : User, role : Role]

Idle == [phase |-> "idle"]
Done == [phase |-> "done"]

Admitted == [phase : {"load"}, ask : Ask]
Loaded == [phase : {"count", "save"}, ask : Ask, loaded : Doc]

\* isAccountUsable
Usable(d) == d.isActive /\ d.status \notin {"pending", "rejected"}

\* isActiveAdmin, and the filter of the count
IsActiveAdmin(d) == d.role = "admin" /\ d.isActive /\ d.status = "active"

NewDoc(role, status) == [role |-> role, status |-> status,
                         isActive |-> status = "active", tokenVersion |-> 0]

\* A shop with an administrator, other accounts, old requests for an account
\* (nobody can register any more) and room for new ones.
Init ==
  /\ users \in [User -> {Absent, NewDoc("admin", "active"),
                         NewDoc("staff", "active"), NewDoc("staff", "pending")}]
  /\ \E u \in User : users[u] = NewDoc("admin", "active")
  /\ request = [r \in Request |-> Idle]
  /\ admitted = {u \in User : Exists(u) /\ users[u].status = "active"}
  /\ raced = FALSE

Finish(r) == request' = [request EXCEPT ![r] = Done]

\* A write by r while another request has loaded an account and not yet written
\* what it makes of it.
Races(r) == raced' = (raced \/ \E s \in Request \ {r} :
                                  request[s].phase \in {"count", "save"})

-------------------------------------------------------------------------------

\* A request that is refused to the account itself (isSelf).
NotForSelf == {"approve", "reject", "suspend", "role", "status", "delete"}

\* authMiddleware and requireRole("admin"), then isSelf; the own password needs
\* no role.
Authenticate(r, actor, ask) ==
  /\ request[r].phase = "idle"
  /\ Exists(actor)
  /\ Usable(users[actor])
  /\ \/ /\ users[actor].role = "admin"
        /\ ask.kind \in NotForSelf => ask.target # actor
     \/ ask.kind = "password" /\ ask.target = actor
  /\ request' = [request EXCEPT ![r] = [phase |-> "load", ask |-> ask]]
  /\ UNCHANGED <<users, admitted, raced>>

\* Mutant: the toggle without its refusal of pending and rejected accounts.
AllowedToAny(ask, d) ==
  /\ ask.kind = "approve" => d.status \in {"pending", "rejected"}
  /\ ask.kind = "suspend" => d.status = "active"
  /\ ask.kind = "reactivate" => d.status = "suspended"

\* The status that a handler insists on.
Allowed(ask, d) ==
  /\ ask.kind = "approve" => d.status \in {"pending", "rejected"}
  /\ ask.kind = "suspend" => d.status = "active"
  /\ ask.kind = "reactivate" => d.status = "suspended"
  /\ ask.kind = "status" => d.status \in {"active", "suspended"}

\* The handlers that call wouldRemoveLastActiveAdmin.
MayRemoveAdmin(ask, d) ==
  \/ ask.kind \in {"reject", "suspend", "delete"}
  \/ ask.kind = "role" /\ ask.role # "admin"
  \/ ask.kind = "status" /\ d.status = "active"

\* User.findById, and the early returns on what it finds.
Load(r) ==
  LET ask == request[r].ask
      d == users[ask.target] IN
  /\ request[r].phase = "load"
  /\ IF Exists(ask.target) /\ Allowed(ask, d)
     THEN request' = [request EXCEPT
            ![r] = [phase |-> IF MayRemoveAdmin(ask, d) /\ IsActiveAdmin(d)
                              THEN "count" ELSE "save",
                    ask |-> ask, loaded |-> d]]
     ELSE Finish(r)
  /\ UNCHANGED <<users, admitted, raced>>

\* Mutant: a count that includes the account itself.
OthersWithSelf(u) == {v \in User : Exists(v) /\ IsActiveAdmin(users[v])}

\* countDocuments of the other active administrators
Others(u) == {v \in User \ {u} : Exists(v) /\ IsActiveAdmin(users[v])}

Count(r) ==
  /\ request[r].phase = "count"
  /\ IF Others(request[r].ask.target) = {}
     THEN Finish(r)
     ELSE request' = [request EXCEPT ![r].phase = "save"]
  /\ UNCHANGED <<users, admitted, raced>>

\* Mutant: a counter that goes the wrong way.
RevokedDown(d) == [d EXCEPT !.tokenVersion = @ - 1]

\* revokeTokens
Revoked(d) == [d EXCEPT !.tokenVersion = @ + 1]

\* What the handlers make of the document they loaded.  A role change that
\* keeps the role may still change the region, and retires tokens if so; one
\* that changes nothing pushes a history entry only.
Changes(ask, d) ==
  CASE ask.kind = "approve" -> {[d EXCEPT !.role = ask.role, !.status = "active"]}
    [] ask.kind = "reject" -> {Revoked([d EXCEPT !.status = "rejected"])}
    [] ask.kind = "suspend" -> {Revoked([d EXCEPT !.status = "suspended"])}
    [] ask.kind = "reactivate" -> {[d EXCEPT !.status = "active"]}
    [] ask.kind = "status" -> {IF d.status = "active"
                               THEN Revoked([d EXCEPT !.status = "suspended"])
                               ELSE [d EXCEPT !.status = "active"]}
    [] ask.kind = "role" -> IF d.role = ask.role THEN {d, Revoked(d)}
                            ELSE {Revoked([d EXCEPT !.role = ask.role])}
    [] ask.kind \in {"region", "password"} -> {Revoked(d)}

\* Mutant: a hook that forgets what a reactivation sets back.
SyncedOneWay(new, old) ==
  IF new.status # old.status /\ new.status # "active"
  THEN [new EXCEPT !.isActive = FALSE] ELSE new

\* syncActiveWithStatus
Synced(new, old) ==
  IF new.status # old.status
  THEN [new EXCEPT !.isActive = (new.status = "active")] ELSE new

\* Mutant: a save that writes the whole document it loaded.
WrittenWhole(new, old, cur) == new

\* The update that save() sends: the paths that differ from the load.
Written(new, old, cur) ==
  [f \in DOMAIN cur |-> IF new[f] # old[f] THEN new[f] ELSE cur[f]]

\* save(), which fails when the document is gone.
Save(r) ==
  LET ask == request[r].ask
      old == request[r].loaded
      u == ask.target IN
  /\ request[r].phase = "save"
  /\ ask.kind # "delete"
  /\ Finish(r)
  /\ IF Exists(u)
     THEN /\ \E new \in Changes(ask, old) :
               users' = [users EXCEPT ![u] = Written(Synced(new, old), old, users[u])]
          /\ Races(r)
          /\ admitted' = IF ask.kind = "approve" THEN admitted \cup {u} ELSE admitted
     ELSE UNCHANGED <<users, admitted, raced>>

\* User.deleteOne
Delete(r) ==
  LET u == request[r].ask.target IN
  /\ request[r].phase = "save"
  /\ request[r].ask.kind = "delete"
  /\ Finish(r)
  /\ users' = [users EXCEPT ![u] = Deleted]
  /\ Races(r)
  /\ UNCHANGED admitted

\* A failed save, a VersionError, or the end of the process.
Abandon(r) ==
  /\ request[r].phase \in {"load", "count", "save"}
  /\ Finish(r)
  /\ UNCHANGED <<users, admitted, raced>>

\* POST /users by an administrator: active at once.
Create(r, actor, u, role) ==
  /\ request[r].phase = "idle"
  /\ Exists(actor)
  /\ Usable(users[actor])
  /\ users[actor].role = "admin"
  /\ users[u] = Absent
  /\ users' = [users EXCEPT ![u] = NewDoc(role, "active")]
  /\ admitted' = admitted \cup {u}
  /\ Finish(r)
  /\ UNCHANGED raced

-------------------------------------------------------------------------------

RequestStep(r) ==
  \/ \E actor \in User, ask \in Ask : Authenticate(r, actor, ask)
  \/ \E actor, u \in User, role \in Role : Create(r, actor, u, role)
  \/ Load(r)
  \/ Count(r)
  \/ Save(r)
  \/ Delete(r)
  \/ Abandon(r)

Next == \E r \in Request : RequestStep(r)

Spec == Init /\ [][Next]_vars

-------------------------------------------------------------------------------
(* Properties.                                                             *)

\* Every variable keeps its type.
TypeOK ==
  /\ users \in [User -> {Absent, Deleted} \cup Doc]
  /\ request \in [Request -> {Idle, Done} \cup Admitted \cup Loaded]
  /\ admitted \subseteq User
  /\ raced \in BOOLEAN

\* Nobody uses an account that no administrator ever let in, whatever requests
\* about it cross each other.
UsableWasAdmitted ==
  \A u \in User : Exists(u) /\ Usable(users[u]) => u \in admitted

\* A suspended or rejected account becomes active only through an operation that
\* is meant to lift that, carried out on an account it saw inactive: a password,
\* role or region change that loaded the account before never undoes it.
LiftedOnPurpose ==
  [][\A u \in User :
       Exists(u) /\ users[u].status \in {"suspended", "rejected"}
         /\ users'[u] # Deleted /\ users'[u].status = "active"
       => \E r \in Request :
            /\ request[r].phase = "save" /\ request'[r].phase = "done"
            /\ request[r].ask.kind \in {"approve", "reactivate", "status"}
            /\ request[r].ask.target = u
            /\ request[r].loaded.status # "active"]_vars

\* users.js:82 "The shop must always keep at least one active admin".
SomeActiveAdmin == \E u \in User : Exists(u) /\ IsActiveAdmin(users[u])

\* The count is enough as long as no write falls between the load and the write
\* of another request, even when the actor lost its role after authentication.
AdminKeptUnlessRaced == ~raced => SomeActiveAdmin

\* User.js:108 "Keep isActive and status from ever contradicting each other"
\* holds as long as no write falls between the load and the write of another.
AgreesUnlessRaced ==
  ~raced => \A u \in User : Exists(u) => users[u].isActive = (users[u].status = "active")
===============================================================================
