---------------------------- MODULE AccountProofs -----------------------------
(***************************************************************************)
(* Proofs about UserAdmin and LoginThrottle, for any number of accounts,   *)
(* requests and logins, and any limit, window and lock.  What keeps a lock *)
(* in force is a matter of time: a failure works with an instant that is   *)
(* never ahead of the clock and never further back than MaxStall (Prompt), *)
(* and MaxStall is shorter than a lock.                                    *)
(***************************************************************************)
EXTENDS UserAdmin, LoginThrottle, FiniteSetTheorems, TLAPS

-------------------------------------------------------------------------------
(* The administration of the accounts.                                     *)

\* Has the request loaded an account that it has not written yet?
Holds(r) == request[r].phase \in {"count", "save"}

\* An account that nobody let in is waiting or refused, in the database and in
\* every copy of it that a request still holds.
StrangersWait ==
  /\ \A u \in User : Exists(u) /\ u \notin admitted
                     => users[u].status \in {"pending", "rejected"}
  /\ \A r \in Request : Holds(r) /\ request[r].ask.target \notin admitted
                        => request[r].loaded.status \in {"pending", "rejected"}

\* A request holds only what its handler insisted on.
HeldWasAllowed ==
  \A r \in Request : Holds(r) => Allowed(request[r].ask, request[r].loaded)

\* Without a race, what a request holds is what the database has.
HeldIsCurrent ==
  \A r \in Request : Holds(r) => users[request[r].ask.target] = request[r].loaded

\* Without a race, a request that is about to remove an administrator leaves
\* another one.
CountStands ==
  \A r \in Request :
    /\ request[r].phase = "save"
    /\ MayRemoveAdmin(request[r].ask, request[r].loaded)
    /\ IsActiveAdmin(request[r].loaded)
    => \E v \in User \ {request[r].ask.target} : Exists(v) /\ IsActiveAdmin(users[v])

Agrees == \A u \in User : Exists(u) => users[u].isActive = (users[u].status = "active")

\* What holds as long as no write fell between the load and the write of another.
Orderly == HeldIsCurrent /\ CountStands /\ Agrees /\ SomeActiveAdmin

IInv ==
  /\ TypeOK
  /\ StrangersWait
  /\ HeldWasAllowed
  /\ ~raced => Orderly

-------------------------------------------------------------------------------

\* A document that exists has the fields of a document.
LEMMA ExistingIsDoc ==
  ASSUME TypeOK, NEW u \in User
  PROVE  /\ Exists(u) => users[u] \in Doc
         /\ users[u] \in Doc => Exists(u)
BY DEF TypeOK, Exists, Absent, Deleted, Doc, Role

\* What a request is in each phase.
LEMMA RequestShape ==
  ASSUME TypeOK, NEW r \in Request
  PROVE  /\ request[r].phase = "load" => request[r] \in Admitted
         /\ Holds(r) => request[r] \in Loaded
BY DEF TypeOK, Holds, Idle, Done, Admitted, Loaded

\* The fields of what is asked for.
LEMMA AskShape ==
  ASSUME NEW ask \in Ask
  PROVE  /\ ask.target \in User
         /\ ask.kind \in {"reject", "suspend", "reactivate", "region", "status",
                          "password", "delete", "approve", "role"}
         /\ ask.kind \in {"approve", "role"} => ask.role \in Role
BY DEF Ask

\* revokeTokens changes the counter only.
LEMMA RevokedOnly ==
  ASSUME NEW d \in Doc
  PROVE  /\ Revoked(d) \in Doc
         /\ Revoked(d).role = d.role
         /\ Revoked(d).status = d.status
         /\ Revoked(d).isActive = d.isActive
BY DEF Revoked, Doc

\* What a handler may make of the document it loaded: which operations change
\* the status and the role, and that one that does not ask for the count leaves
\* an active administrator what it is.
LEMMA ChangesShape ==
  ASSUME NEW ask \in Ask, ask.kind # "delete", NEW d \in Doc, Allowed(ask, d),
         NEW new \in Changes(ask, d)
  PROVE  /\ new \in Doc
         /\ new.isActive = d.isActive
         /\ new.status # d.status =>
              \/ /\ ask.kind \in {"approve", "reactivate", "status"}
                 /\ new.status = "active"
              \/ ask.kind = "reject" /\ new.status = "rejected"
              \/ ask.kind \in {"suspend", "status"} /\ d.status = "active"
         /\ IsActiveAdmin(d) /\ ~MayRemoveAdmin(ask, d)
              => new.role = "admin" /\ new.status = "active"
<1> DEFINE WithStatus(s) == [d EXCEPT !.status = s]
           WithRole == [d EXCEPT !.role = ask.role]
           Both == [d EXCEPT !.role = ask.role, !.status = "active"]
<1>1. \A s \in Status : /\ WithStatus(s) \in Doc
                        /\ WithStatus(s).role = d.role
                        /\ WithStatus(s).status = s
                        /\ WithStatus(s).isActive = d.isActive
  BY DEF Doc
<1>2. ASSUME ask.kind \in {"approve", "role"}
      PROVE  /\ WithRole \in Doc
             /\ WithRole.role = ask.role
             /\ WithRole.status = d.status
             /\ WithRole.isActive = d.isActive
             /\ Both \in Doc
             /\ Both.role = ask.role
             /\ Both.status = "active"
             /\ Both.isActive = d.isActive
  BY <1>2, AskShape DEF Doc, Status
<1>3. CASE ask.kind = "approve"
  <2>1. new = Both
    BY <1>3 DEF Changes
  <2> HIDE DEF Both
  <2> QED
    BY <1>2, <1>3, <2>1 DEF Allowed, IsActiveAdmin
<1>4. CASE ask.kind = "reject"
  <2>1. new = Revoked(WithStatus("rejected"))
    BY <1>4 DEF Changes
  <2>2. "rejected" \in Status
    BY DEF Status
  <2> HIDE DEF WithStatus
  <2> QED
    BY <1>1, <1>4, <2>1, <2>2, RevokedOnly DEF MayRemoveAdmin
<1>5. CASE ask.kind = "suspend"
  <2>1. new = Revoked(WithStatus("suspended"))
    BY <1>5 DEF Changes
  <2>2. "suspended" \in Status
    BY DEF Status
  <2> HIDE DEF WithStatus
  <2> QED
    BY <1>1, <1>5, <2>1, <2>2, RevokedOnly DEF MayRemoveAdmin, Allowed
<1>6. CASE ask.kind = "reactivate"
  <2>1. new = WithStatus("active")
    BY <1>6 DEF Changes
  <2>2. "active" \in Status
    BY DEF Status
  <2> HIDE DEF WithStatus
  <2> QED
    BY <1>1, <1>6, <2>1, <2>2 DEF Allowed, IsActiveAdmin
<1>7. CASE ask.kind = "status"
  <2>1. \/ d.status = "active" /\ new = Revoked(WithStatus("suspended"))
        \/ d.status # "active" /\ new = WithStatus("active")
    BY <1>7 DEF Changes
  <2>2. "active" \in Status /\ "suspended" \in Status
    BY DEF Status
  <2> HIDE DEF WithStatus
  <2> QED
    BY <1>1, <1>7, <2>1, <2>2, RevokedOnly DEF MayRemoveAdmin, IsActiveAdmin
<1>8. CASE ask.kind = "role"
  <2>1. \/ d.role = ask.role /\ (new = d \/ new = Revoked(d))
        \/ new = Revoked(WithRole)
    BY <1>8 DEF Changes
  <2> HIDE DEF WithRole
  <2> QED
    BY <1>2, <1>8, <2>1, RevokedOnly DEF MayRemoveAdmin, IsActiveAdmin
<1>9. CASE ask.kind \in {"region", "password"}
  <2>1. new = Revoked(d)
    BY <1>9 DEF Changes
  <2> QED
    BY <1>9, <2>1, RevokedOnly DEF IsActiveAdmin
<1> QED
  BY <1>3, <1>4, <1>5, <1>6, <1>7, <1>8, <1>9, AskShape

\* What save() leaves in the database: a status that was there, or one that the
\* handler changed; and exactly the handler's document when nobody wrote since.
LEMMA WrittenShape ==
  ASSUME NEW old \in Doc, NEW new \in Doc, NEW cur \in Doc,
         NEW got, got = Written(Synced(new, old), old, cur)
  PROVE  /\ got \in Doc
         /\ got.status = cur.status \/ (got.status = new.status /\ new.status # old.status)
         /\ cur = old =>
              /\ got.role = new.role
              /\ got.status = new.status
              /\ got.isActive = (IF new.status # old.status
                                 THEN new.status = "active" ELSE new.isActive)
<1> DEFINE synced == Synced(new, old)
<1>1. /\ synced \in Doc
      /\ synced.role = new.role
      /\ synced.status = new.status
      /\ synced.isActive = (IF new.status # old.status
                            THEN new.status = "active" ELSE new.isActive)
  BY DEF Synced, Doc
<1>2. got = Written(synced, old, cur)
  OBVIOUS
<1> HIDE DEF synced
<1>3. DOMAIN cur = {"role", "status", "isActive", "tokenVersion"}
  BY DEF Doc
<1>4. got = [f \in {"role", "status", "isActive", "tokenVersion"} |->
               IF synced[f] # old[f] THEN synced[f] ELSE cur[f]]
  BY <1>3, <1>2 DEF Written
<1>5. /\ got.role = (IF synced.role # old.role THEN synced.role ELSE cur.role)
      /\ got.status = (IF synced.status # old.status THEN synced.status ELSE cur.status)
      /\ got.isActive = (IF synced.isActive # old.isActive
                         THEN synced.isActive ELSE cur.isActive)
      /\ got.tokenVersion = (IF synced.tokenVersion # old.tokenVersion
                             THEN synced.tokenVersion ELSE cur.tokenVersion)
  BY <1>4
<1>6. got \in Doc
  BY <1>1, <1>4, <1>5 DEF Doc
<1>7. got.status = cur.status \/ (got.status = new.status /\ new.status # old.status)
  BY <1>1, <1>5
<1>8. cur = old => /\ got.role = new.role
                   /\ got.status = new.status
                   /\ got.isActive = (IF new.status # old.status
                                      THEN new.status = "active" ELSE new.isActive)
  BY <1>1, <1>5
<1> QED
  BY <1>6, <1>7, <1>8

-------------------------------------------------------------------------------

\* A new account is a document, usable only when it is active.
LEMMA NewDocShape ==
  ASSUME NEW role \in Role, NEW status \in Status
  PROVE  /\ NewDoc(role, status) \in Doc
         /\ NewDoc(role, status).role = role
         /\ NewDoc(role, status).status = status
         /\ NewDoc(role, status).isActive = (status = "active")
BY DEF NewDoc, Doc

\* Initially no request holds anything, and the shop has an administrator.
LEMMA InitIInv == Init => IInv
<1> SUFFICES ASSUME Init PROVE IInv
  OBVIOUS
<1>1. /\ "admin" \in Role /\ "staff" \in Role
      /\ "active" \in Status /\ "pending" \in Status
  BY DEF Role, Status
<1>2. \A u \in User : \/ users[u] = Absent
                      \/ users[u] = NewDoc("admin", "active")
                      \/ users[u] = NewDoc("staff", "active")
                      \/ users[u] = NewDoc("staff", "pending")
  BY DEF Init
<1>3. \A u \in User : users[u] \in {Absent} \cup Doc
  BY <1>1, <1>2, NewDocShape
<1>4. TypeOK
  BY <1>3 DEF Init, TypeOK, Idle
<1>5. \A r \in Request : ~Holds(r)
  BY DEF Init, Holds, Idle
<1>6. StrangersWait
  <2>1. \A u \in User : Exists(u) /\ u \notin admitted
                        => users[u].status \in {"pending", "rejected"}
    BY <1>1, <1>2, NewDocShape DEF Init, Exists
  <2> QED
    BY <1>5, <2>1 DEF StrangersWait
<1>7. Agrees
  BY <1>1, <1>2, NewDocShape DEF Agrees, Exists
<1>8. SomeActiveAdmin
  <2>1. PICK u \in User : users[u] = NewDoc("admin", "active")
    BY DEF Init
  <2>2. users[u] \in Doc /\ users[u].role = "admin" /\ users[u].status = "active"
    BY <1>1, <2>1, NewDocShape
  <2>3. Exists(u)
    BY <1>4, <2>2, ExistingIsDoc
  <2>4. users[u].isActive
    BY <1>7, <2>2, <2>3 DEF Agrees
  <2> QED
    BY <2>2, <2>3, <2>4 DEF SomeActiveAdmin, IsActiveAdmin
<1>9. HeldWasAllowed /\ HeldIsCurrent /\ CountStands
  BY <1>5 DEF HeldWasAllowed, HeldIsCurrent, CountStands, Holds
<1> QED
  BY <1>4, <1>6, <1>7, <1>8, <1>9 DEF IInv, Orderly

\* A request that ends keeps everything when the database stays what it is.
LEMMA EndKeepsIInv ==
  ASSUME IInv, NEW r \in Request, Finish(r), UNCHANGED <<users, admitted, raced>>
  PROVE  IInv'
<1>1. TypeOK'
  BY DEF IInv, TypeOK, Finish, Done
<1>2. \A q \in Request : Holds(q)' \/ (request[q].phase = "save")'
                         => request'[q] = request[q] /\ Holds(q)
  BY DEF IInv, TypeOK, Finish, Done, Holds
<1>3. StrangersWait' /\ HeldWasAllowed'
  BY <1>2 DEF IInv, StrangersWait, HeldWasAllowed, Exists
<1>4. ASSUME ~raced PROVE Orderly'
  <2>1. HeldIsCurrent' /\ CountStands'
    BY <1>2, <1>4 DEF IInv, Orderly, HeldIsCurrent, CountStands, Exists
  <2> QED
    BY <1>4, <2>1 DEF IInv, Orderly, Agrees, SomeActiveAdmin, Exists
<1> QED
  BY <1>1, <1>3, <1>4 DEF IInv

\* The middleware only remembers what is asked for.
LEMMA AuthenticateKeepsIInv ==
  ASSUME IInv, NEW r \in Request, NEW actor \in User, NEW ask \in Ask,
         Authenticate(r, actor, ask)
  PROVE  IInv'
<1>1. TypeOK'
  BY DEF IInv, TypeOK, Authenticate, Admitted
<1>2. \A q \in Request : Holds(q)' \/ (request[q].phase = "save")'
                         => request'[q] = request[q] /\ Holds(q)
  BY DEF IInv, TypeOK, Authenticate, Holds
<1>3. UNCHANGED <<users, admitted, raced>>
  BY DEF Authenticate
<1>4. StrangersWait' /\ HeldWasAllowed'
  BY <1>2, <1>3 DEF IInv, StrangersWait, HeldWasAllowed, Exists
<1>5. ASSUME ~raced PROVE Orderly'
  <2>1. HeldIsCurrent' /\ CountStands'
    BY <1>2, <1>3, <1>5 DEF IInv, Orderly, HeldIsCurrent, CountStands, Exists
  <2> QED
    BY <1>3, <1>5, <2>1 DEF IInv, Orderly, Agrees, SomeActiveAdmin, Exists
<1> QED
  BY <1>1, <1>3, <1>4, <1>5 DEF IInv

\* What is loaded is what the database has, and passed the handler's checks.
LEMMA LoadKeepsIInv ==
  ASSUME IInv, NEW r \in Request, Load(r)
  PROVE  IInv'
<1> DEFINE ask == request[r].ask
           d == users[ask.target]
           next == IF MayRemoveAdmin(ask, d) /\ IsActiveAdmin(d)
                   THEN "count" ELSE "save"
<1>1. UNCHANGED <<users, admitted, raced>> /\ request[r].phase = "load"
  BY DEF Load
<1>2. CASE Finish(r)
  BY <1>1, <1>2, EndKeepsIInv
<1>3. CASE /\ Exists(ask.target) /\ Allowed(ask, d)
           /\ request' = [request EXCEPT ![r] = [phase |-> next, ask |-> ask, loaded |-> d]]
  <2>1. ask \in Ask
    BY <1>1, RequestShape DEF IInv, Admitted
  <2>2. ask.target \in User /\ d \in Doc
    BY <1>3, <2>1, AskShape, ExistingIsDoc DEF IInv
  <2>3. /\ request'[r] = [phase |-> next, ask |-> ask, loaded |-> d]
        /\ \A q \in Request \ {r} : request'[q] = request[q]
    BY <1>3 DEF IInv, TypeOK
  <2>4. next \in {"count", "save"}
    OBVIOUS
  <2>5. next = "save" => ~(MayRemoveAdmin(ask, d) /\ IsActiveAdmin(d))
    OBVIOUS
  <2> HIDE DEF next
  <2>6. TypeOK'
    <3>1. [phase |-> next, ask |-> ask, loaded |-> d] \in Loaded
      BY <2>1, <2>2, <2>4 DEF Loaded
    <3> QED
      BY <1>1, <1>3, <3>1 DEF IInv, TypeOK
  <2>7. StrangersWait'
    BY <1>1, <1>3, <2>2, <2>3 DEF IInv, StrangersWait, Holds, Exists
  <2>8. HeldWasAllowed'
    BY <1>3, <2>3 DEF IInv, HeldWasAllowed, Holds
  <2>9. ASSUME ~raced PROVE Orderly'
    <3>1. HeldIsCurrent'
      BY <1>1, <2>3, <2>9 DEF IInv, Orderly, HeldIsCurrent, Holds
    <3>2. CountStands'
      BY <1>1, <2>3, <2>5, <2>9 DEF IInv, Orderly, CountStands, Exists
    <3> QED
      BY <1>1, <2>9, <3>1, <3>2 DEF IInv, Orderly, Agrees, SomeActiveAdmin, Exists
  <2> QED
    BY <1>1, <2>6, <2>7, <2>8, <2>9 DEF IInv
<1> QED
  BY <1>2, <1>3 DEF Load

\* A count that finds somebody else makes the claim CountStands.
LEMMA CountKeepsIInv ==
  ASSUME IInv, NEW r \in Request, Count(r)
  PROVE  IInv'
<1>1. UNCHANGED <<users, admitted, raced>> /\ request[r].phase = "count"
  BY DEF Count
<1>2. CASE Finish(r)
  BY <1>1, <1>2, EndKeepsIInv
<1>3. CASE /\ Others(request[r].ask.target) # {}
           /\ request' = [request EXCEPT ![r].phase = "save"]
  <2>1. request[r] \in Loaded
    BY <1>1, RequestShape DEF IInv, Holds
  <2>2. /\ request'[r].phase = "save"
        /\ request'[r].ask = request[r].ask
        /\ request'[r].loaded = request[r].loaded
        /\ request'[r] \in Loaded
    BY <1>3, <2>1 DEF IInv, TypeOK, Loaded
  <2>3. \A q \in Request \ {r} : request'[q] = request[q]
    BY <1>3 DEF IInv, TypeOK
  <2>4. Holds(r)
    BY <1>1 DEF Holds
  <2>5. TypeOK'
    <3>1. request' \in [Request -> {Idle} \cup {Done} \cup Admitted \cup Loaded]
      <4>1. \A q \in Request :
              request'[q] \in {Idle} \cup {Done} \cup Admitted \cup Loaded
        BY <2>2, <2>3 DEF IInv, TypeOK
      <4>2. request' = [q \in Request |-> request'[q]]
        BY <1>3 DEF IInv, TypeOK
      <4> QED
        BY <4>1, <4>2
    <3> QED
      BY <1>1, <3>1 DEF IInv, TypeOK
  <2>6. StrangersWait'
    BY <1>1, <2>2, <2>3, <2>4 DEF IInv, StrangersWait, Holds, Exists
  <2>7. HeldWasAllowed'
    BY <2>2, <2>3, <2>4 DEF IInv, HeldWasAllowed, Holds
  <2>8. ASSUME ~raced PROVE Orderly'
    <3>1. HeldIsCurrent'
      BY <1>1, <2>2, <2>3, <2>4, <2>8 DEF IInv, Orderly, HeldIsCurrent, Holds
    <3>2. CountStands'
      BY <1>1, <1>3, <2>2, <2>3, <2>8 DEF IInv, Orderly, CountStands, Others, Exists
    <3> QED
      BY <1>1, <2>8, <3>1, <3>2 DEF IInv, Orderly, Agrees, SomeActiveAdmin, Exists
  <2> QED
    BY <1>1, <2>5, <2>6, <2>7, <2>8 DEF IInv
<1> QED
  BY <1>2, <1>3 DEF Count

\* What a save that finds its account leaves there: a document whose status was
\* there before or is what the handler decided.
LEMMA SaveShape ==
  ASSUME IInv, NEW r \in Request, Save(r), Exists(request[r].ask.target)
  PROVE  \E new \in Changes(request[r].ask, request[r].loaded), got \in Doc :
           /\ users' = [users EXCEPT ![request[r].ask.target] = got]
           /\ got = Written(Synced(new, request[r].loaded), request[r].loaded,
                            users[request[r].ask.target])
           /\ new \in Doc
           /\ got.status = users[request[r].ask.target].status
              \/ (got.status = new.status /\ new.status # request[r].loaded.status)
<1> DEFINE ask == request[r].ask
           old == request[r].loaded
           u == ask.target
<1>1. Holds(r) /\ ask.kind # "delete"
  BY DEF Save, Holds
<1>2. ask \in Ask /\ old \in Doc
  BY <1>1, RequestShape DEF IInv, Loaded
<1>3. u \in User /\ users[u] \in Doc
  BY <1>2, AskShape, ExistingIsDoc DEF IInv
<1>4. Allowed(ask, old)
  BY <1>1 DEF IInv, HeldWasAllowed
<1>5. PICK new \in Changes(ask, old) :
        users' = [users EXCEPT ![u] = Written(Synced(new, old), old, users[u])]
  BY DEF Save
<1>6. PICK got : got = Written(Synced(new, old), old, users[u])
  OBVIOUS
<1>7. new \in Doc
  BY <1>1, <1>2, <1>4, ChangesShape
<1> HIDE DEF ask, old, u
<1>8. got \in Doc /\ (got.status = users[u].status
                      \/ (got.status = new.status /\ new.status # old.status))
  BY <1>2, <1>3, <1>6, <1>7, WrittenShape
<1>9. users' = [users EXCEPT ![u] = got]
  BY <1>5, <1>6
<1>10. \E n \in Changes(ask, old), g \in Doc :
         /\ users' = [users EXCEPT ![u] = g]
         /\ g = Written(Synced(n, old), old, users[u])
         /\ n \in Doc
         /\ g.status = users[u].status
            \/ (g.status = n.status /\ n.status # old.status)
  BY <1>5, <1>6, <1>7, <1>8, <1>9
<1> QED
  BY <1>10 DEF ask, old, u

\* A write while another request holds an account is a race, and nothing more
\* is claimed; without a race nobody else holds anything.
LEMMA WriterIsAlone ==
  ASSUME NEW r \in Request, Races(r), ~raced'
  PROVE  ~raced /\ \A q \in Request \ {r} : ~Holds(q)
BY DEF Races, Holds

\* A save, by any handler.
LEMMA SaveKeepsIInv ==
  ASSUME IInv, NEW r \in Request, Save(r)
  PROVE  IInv'
<1>1. CASE ~Exists(request[r].ask.target)
  <2>1. UNCHANGED <<users, admitted, raced>> /\ Finish(r)
    BY <1>1 DEF Save
  <2> QED
    BY <2>1, EndKeepsIInv
<1>2. CASE Exists(request[r].ask.target)
  <2>1. PICK ask, old, u : ask = request[r].ask /\ old = request[r].loaded /\ u = ask.target
    OBVIOUS
  <2>2. PICK new \in Changes(ask, old), got \in Doc :
          /\ users' = [users EXCEPT ![u] = got]
          /\ got = Written(Synced(new, old), old, users[u])
          /\ new \in Doc
          /\ got.status = users[u].status
             \/ (got.status = new.status /\ new.status # old.status)
    BY <1>2, <2>1, SaveShape
  <2>3. /\ Holds(r) /\ request[r].phase = "save" /\ ask.kind # "delete"
        /\ Finish(r) /\ Races(r)
        /\ admitted' = IF ask.kind = "approve" THEN admitted \cup {u} ELSE admitted
    BY <1>2, <2>1 DEF Save, Holds
  <2>4. ask \in Ask /\ old \in Doc
    BY <2>1, <2>3, RequestShape DEF IInv, Loaded
  <2>5. u \in User /\ users[u] \in Doc /\ Exists(u)
    BY <1>2, <2>1, <2>4, AskShape, ExistingIsDoc DEF IInv
  <2>6. Allowed(ask, old)
    BY <2>1, <2>3 DEF IInv, HeldWasAllowed
  <2>7. /\ new.isActive = old.isActive
        /\ new.status # old.status =>
             \/ ask.kind \in {"approve", "reactivate", "status"} /\ new.status = "active"
             \/ ask.kind = "reject" /\ new.status = "rejected"
             \/ ask.kind \in {"suspend", "status"} /\ old.status = "active"
        /\ IsActiveAdmin(old) /\ ~MayRemoveAdmin(ask, old)
             => new.role = "admin" /\ new.status = "active"
    BY <2>2, <2>3, <2>4, <2>6, ChangesShape
  <2>8. /\ users'[u] = got
        /\ \A v \in User \ {u} : users'[v] = users[v]
    BY <2>2, <2>5 DEF IInv, TypeOK
  <2>9. \A q \in Request : Holds(q)' => q # r /\ Holds(q) /\ request'[q] = request[q]
    BY <2>3 DEF IInv, TypeOK, Finish, Done, Holds
  <2>10. TypeOK'
    <3>1. users' \in [User -> {Absent, Deleted} \cup Doc]
      BY <2>2, <2>5 DEF IInv, TypeOK
    <3>2. raced' \in BOOLEAN
      BY <2>3 DEF IInv, TypeOK, Races
    <3> QED
      BY <2>3, <2>5, <3>1, <3>2 DEF IInv, TypeOK, Finish, Done
  <2>11. StrangersWait'
    <3>1. ASSUME u \notin admitted'
          PROVE  got.status \in {"pending", "rejected"}
      <4>1. u \notin admitted /\ ask.kind # "approve"
        BY <2>3, <3>1
      <4>2. users[u].status \in {"pending", "rejected"} /\ old.status \in {"pending", "rejected"}
        BY <2>1, <2>3, <2>5, <4>1 DEF IInv, StrangersWait
      <4>3. ask.kind \notin {"suspend", "reactivate", "status"}
        BY <2>6, <4>2 DEF Allowed
      <4> QED
        BY <2>2, <2>7, <4>1, <4>2, <4>3
    <3>2. admitted \subseteq admitted'
      BY <2>3
    <3>3. \A v \in User : Exists(v)' /\ v \notin admitted'
                          => users'[v].status \in {"pending", "rejected"}
      BY <2>8, <3>1, <3>2 DEF IInv, StrangersWait, Exists
    <3>4. \A q \in Request : Holds(q)' /\ request'[q].ask.target \notin admitted'
                             => request'[q].loaded.status \in {"pending", "rejected"}
      BY <2>9, <3>2 DEF IInv, StrangersWait
    <3> QED
      BY <3>3, <3>4 DEF StrangersWait
  <2>12. HeldWasAllowed'
    BY <2>9 DEF IInv, HeldWasAllowed
  <2>13. ASSUME ~raced' PROVE Orderly'
    <3>1. ~raced /\ \A q \in Request : ~Holds(q)'
      BY <2>3, <2>9, <2>13, WriterIsAlone
    <3>2. users[u] = old
      BY <2>1, <2>3, <3>1 DEF IInv, Orderly, HeldIsCurrent
    <3>3. /\ got.role = new.role
          /\ got.status = new.status
          /\ got.isActive = (IF new.status # old.status
                             THEN new.status = "active" ELSE new.isActive)
      BY <2>2, <2>4, <2>5, <3>2, WrittenShape
    <3>4. old.isActive = (old.status = "active")
      BY <2>5, <3>1, <3>2 DEF IInv, Orderly, Agrees
    <3>5. got.isActive = (got.status = "active")
      BY <2>7, <3>3, <3>4
    <3>6. Agrees'
      BY <2>8, <3>1, <3>5 DEF IInv, Orderly, Agrees, Exists
    <3>7. SomeActiveAdmin'
      <4>1. PICK v \in User : Exists(v) /\ IsActiveAdmin(users[v])
        BY <3>1 DEF IInv, Orderly, SomeActiveAdmin
      <4>2. CASE v # u
        BY <2>8, <4>1, <4>2 DEF SomeActiveAdmin, Exists
      <4>3. CASE v = u /\ MayRemoveAdmin(ask, old)
        <5>1. PICK w \in User \ {u} : Exists(w) /\ IsActiveAdmin(users[w])
          BY <2>1, <2>3, <3>1, <3>2, <4>1, <4>3 DEF IInv, Orderly, CountStands
        <5> QED
          BY <2>8, <5>1 DEF SomeActiveAdmin, Exists
      <4>4. CASE v = u /\ ~MayRemoveAdmin(ask, old)
        <5>1. got.role = "admin" /\ got.status = "active"
          BY <2>7, <3>2, <3>3, <4>1, <4>4
        <5>2. got.isActive
          BY <3>5, <5>1
        <5>3. Exists(u)'
          BY <2>2, <2>5, <2>8, <2>10, ExistingIsDoc DEF Exists, Absent, Deleted, Doc, Role
        <5>4. IsActiveAdmin(users'[u])
          BY <2>8, <5>1, <5>2 DEF IsActiveAdmin
        <5> QED
          BY <2>5, <5>3, <5>4 DEF SomeActiveAdmin
      <4> QED
        BY <4>2, <4>3, <4>4
    <3>8. HeldIsCurrent' /\ CountStands'
      BY <3>1 DEF HeldIsCurrent, CountStands, Holds
    <3> QED
      BY <3>6, <3>7, <3>8 DEF Orderly
  <2> QED
    BY <2>10, <2>11, <2>12, <2>13 DEF IInv
<1> QED
  BY <1>1, <1>2

\* A deletion takes an account away; it counted first, if that was an
\* administrator.
LEMMA DeleteKeepsIInv ==
  ASSUME IInv, NEW r \in Request, Delete(r)
  PROVE  IInv'
<1>1. PICK ask, old, u : ask = request[r].ask /\ old = request[r].loaded /\ u = ask.target
  OBVIOUS
<1>2. /\ Holds(r) /\ request[r].phase = "save" /\ ask.kind = "delete"
      /\ Finish(r) /\ Races(r) /\ UNCHANGED admitted
      /\ users' = [users EXCEPT ![u] = Deleted]
  BY <1>1 DEF Delete, Holds
<1>3. u \in User
  BY <1>1, <1>2, RequestShape, AskShape DEF IInv, Loaded
<1>4. /\ users'[u] = Deleted
      /\ \A v \in User \ {u} : users'[v] = users[v]
  BY <1>2, <1>3 DEF IInv, TypeOK
<1>5. \A q \in Request : Holds(q)' => q # r /\ Holds(q) /\ request'[q] = request[q]
  BY <1>2 DEF IInv, TypeOK, Finish, Done, Holds
<1>6. ~Exists(u)'
  BY <1>4 DEF Exists
<1>7. TypeOK'
  <2>1. users' \in [User -> {Absent, Deleted} \cup Doc]
    BY <1>2 DEF IInv, TypeOK
  <2>2. raced' \in BOOLEAN
    BY <1>2 DEF IInv, TypeOK, Races
  <2> QED
    BY <1>2, <2>1, <2>2 DEF IInv, TypeOK, Finish, Done
<1>8. StrangersWait' /\ HeldWasAllowed'
  BY <1>2, <1>4, <1>5, <1>6 DEF IInv, StrangersWait, HeldWasAllowed, Exists
<1>9. ASSUME ~raced' PROVE Orderly'
  <2>1. ~raced /\ \A q \in Request : ~Holds(q)'
    BY <1>2, <1>5, <1>9, WriterIsAlone
  <2>2. Agrees'
    BY <1>4, <1>6, <2>1 DEF IInv, Orderly, Agrees, Exists
  <2>3. SomeActiveAdmin'
    <3>1. PICK v \in User : Exists(v) /\ IsActiveAdmin(users[v])
      BY <2>1 DEF IInv, Orderly, SomeActiveAdmin
    <3>2. CASE v # u
      BY <1>4, <3>1, <3>2 DEF SomeActiveAdmin, Exists
    <3>3. CASE v = u
      <4>1. users[u] = old
        BY <1>1, <1>2, <2>1 DEF IInv, Orderly, HeldIsCurrent
      <4>2. MayRemoveAdmin(ask, old)
        BY <1>2 DEF MayRemoveAdmin
      <4>3. PICK w \in User \ {u} : Exists(w) /\ IsActiveAdmin(users[w])
        BY <1>1, <1>2, <2>1, <3>1, <3>3, <4>1, <4>2 DEF IInv, Orderly, CountStands
      <4> QED
        BY <1>4, <4>3 DEF SomeActiveAdmin, Exists
    <3> QED
      BY <3>2, <3>3
  <2>4. HeldIsCurrent' /\ CountStands'
    BY <2>1 DEF HeldIsCurrent, CountStands, Holds
  <2> QED
    BY <2>2, <2>3, <2>4 DEF Orderly
<1> QED
  BY <1>7, <1>8, <1>9 DEF IInv

\* A new account was let in by whoever created it, and nobody holds it yet.
LEMMA CreateKeepsIInv ==
  ASSUME IInv, NEW r \in Request, NEW actor \in User, NEW u \in User, NEW role \in Role,
         Create(r, actor, u, role)
  PROVE  IInv'
<1>1. PICK d : d = NewDoc(role, "active")
  OBVIOUS
<1>2. d \in Doc /\ d.status = "active" /\ d.isActive = TRUE
  BY <1>1 DEF NewDoc, Doc, Status
<1>3. /\ users'[u] = d /\ users[u] = Absent
      /\ \A v \in User \ {u} : users'[v] = users[v]
      /\ users' = [users EXCEPT ![u] = d]
  BY <1>1 DEF Create, IInv, TypeOK
<1>4. admitted' = admitted \cup {u} /\ raced' = raced /\ Finish(r)
  BY DEF Create
<1>5. \A q \in Request : Holds(q)' \/ (request[q].phase = "save")'
                         => Holds(q) /\ request'[q] = request[q]
  BY <1>4 DEF IInv, TypeOK, Finish, Done, Holds
<1>6. ~Exists(u)
  BY <1>3 DEF Exists
<1>7. \A v \in User : Exists(v) => v # u /\ users'[v] = users[v] /\ Exists(v)'
  BY <1>3, <1>6 DEF Exists
<1>8. TypeOK'
  BY <1>2, <1>3, <1>4 DEF IInv, TypeOK, Finish, Done
<1>9. StrangersWait' /\ HeldWasAllowed'
  BY <1>3, <1>4, <1>5 DEF IInv, StrangersWait, HeldWasAllowed, Exists
<1>10. ASSUME ~raced PROVE Orderly'
  <2>1. HeldIsCurrent'
    <3>1. ASSUME NEW q \in Request, Holds(q)'
          PROVE  (users[request[q].ask.target] = request[q].loaded)'
      <4>1. Holds(q) /\ request'[q] = request[q]
        BY <1>5, <3>1
      <4>2. PICK v : v = request[q].ask.target
        OBVIOUS
      <4>3. v \in User /\ request[q].loaded \in Doc
        BY <4>1, <4>2, RequestShape, AskShape DEF IInv, Loaded
      <4>4. users[v] = request[q].loaded
        BY <1>10, <4>1, <4>2 DEF IInv, Orderly, HeldIsCurrent
      <4>5. Exists(v)
        BY <4>3, <4>4, ExistingIsDoc DEF IInv
      <4> QED
        BY <1>7, <4>1, <4>2, <4>3, <4>4, <4>5
    <3> QED
      BY <3>1 DEF HeldIsCurrent
  <2>2. CountStands'
    <3>1. \A v \in User : Exists(v) /\ IsActiveAdmin(users[v])
                          => (Exists(v) /\ IsActiveAdmin(users[v]))'
      BY <1>7 DEF IsActiveAdmin
    <3> QED
      BY <1>5, <1>10, <3>1 DEF IInv, Orderly, CountStands
  <2>3. Agrees'
    <3>1. users'[u].isActive = (users'[u].status = "active")
      BY <1>2, <1>3
    <3>2. \A v \in User \ {u} : Exists(v)' => Exists(v) /\ users'[v] = users[v]
      BY <1>3 DEF Exists
    <3> QED
      BY <1>10, <3>1, <3>2 DEF IInv, Orderly, Agrees
  <2>4. SomeActiveAdmin'
    BY <1>7, <1>10 DEF IInv, Orderly, SomeActiveAdmin, IsActiveAdmin
  <2> QED
    BY <2>1, <2>2, <2>3, <2>4 DEF Orderly
<1> QED
  BY <1>4, <1>8, <1>9, <1>10 DEF IInv

-------------------------------------------------------------------------------

\* Every step keeps the invariant.
LEMMA NextKeepsIInv == IInv /\ [Next]_vars => IInv'
<1> SUFFICES ASSUME IInv, [Next]_vars PROVE IInv'
  OBVIOUS
<1>1. CASE UNCHANGED vars
  BY <1>1 DEF vars, IInv, TypeOK, StrangersWait, HeldWasAllowed, Holds, Exists,
              Orderly, HeldIsCurrent, CountStands, Agrees, SomeActiveAdmin
<1>2. ASSUME NEW r \in Request, RequestStep(r) PROVE IInv'
  <2>1. ASSUME NEW actor \in User, NEW ask \in Ask, Authenticate(r, actor, ask)
        PROVE  IInv'
    BY <2>1, AuthenticateKeepsIInv
  <2>2. ASSUME NEW actor \in User, NEW u \in User, NEW role \in Role,
               Create(r, actor, u, role)
        PROVE  IInv'
    BY <2>2, CreateKeepsIInv
  <2>3. CASE Load(r)
    BY <2>3, LoadKeepsIInv
  <2>4. CASE Count(r)
    BY <2>4, CountKeepsIInv
  <2>5. CASE Save(r)
    BY <2>5, SaveKeepsIInv
  <2>6. CASE Delete(r)
    BY <2>6, DeleteKeepsIInv
  <2>7. CASE Abandon(r)
    BY <2>7, EndKeepsIInv DEF Abandon
  <2> QED
    BY <1>2, <2>1, <2>2, <2>3, <2>4, <2>5, <2>6, <2>7 DEF RequestStep
<1> QED
  BY <1>1, <1>2 DEF Next

LEMMA InvariantHolds == Spec => []IInv
BY InitIInv, NextKeepsIInv, PTL DEF Spec

\* Documents, requests and histories keep their types, for any number of
\* accounts and of requests in flight.
THEOREM TypeCorrect == Spec => []TypeOK
<1>1. IInv => TypeOK
  BY DEF IInv
<1> QED
  BY <1>1, InvariantHolds, PTL

\* However requests cross each other, an account that no administrator let in is
\* refused by isAccountUsable.
THEOREM StrangersRefused == Spec => []UsableWasAdmitted
<1>1. IInv => UsableWasAdmitted
  BY DEF IInv, StrangersWait, UsableWasAdmitted, Usable
<1> QED
  BY <1>1, InvariantHolds, PTL

\* The shop keeps an active administrator as long as no write falls between the
\* load and the write of another request: the count is enough by itself.
THEOREM AdminKept == Spec => []AdminKeptUnlessRaced
<1>1. IInv => AdminKeptUnlessRaced
  BY DEF IInv, Orderly, AdminKeptUnlessRaced
<1> QED
  BY <1>1, InvariantHolds, PTL

\* Under the same condition isActive and status agree.
THEOREM FlagsAgree == Spec => []AgreesUnlessRaced
<1>1. IInv => AgreesUnlessRaced
  BY DEF IInv, Orderly, Agrees, AgreesUnlessRaced
<1> QED
  BY <1>1, InvariantHolds, PTL

\* The step in which a status becomes active again.
LEMMA LiftIsPurpose ==
  ASSUME IInv, [Next]_vars, NEW u \in User, Exists(u),
         users[u].status \in {"suspended", "rejected"},
         users'[u] # Deleted, users'[u].status = "active"
  PROVE  \E r \in Request :
           /\ request[r].phase = "save" /\ request'[r].phase = "done"
           /\ request[r].ask.kind \in {"approve", "reactivate", "status"}
           /\ request[r].ask.target = u
           /\ request[r].loaded.status # "active"
<1>1. users'[u] # users[u]
  OBVIOUS
<1>2. PICK r \in Request : Save(r) \/ \E actor, v \in User, role \in Role :
                                        Create(r, actor, v, role)
  <2>1. PICK r \in Request : RequestStep(r)
    BY <1>1 DEF Next, vars
  <2>2. ~Delete(r)
    BY <1>1 DEF Delete, IInv, TypeOK
  <2> QED
    BY <1>1, <2>1, <2>2 DEF RequestStep, Authenticate, Load, Count, Abandon
<1>3. ASSUME NEW actor \in User, NEW v \in User, NEW role \in Role,
             Create(r, actor, v, role)
      PROVE  FALSE
  <2>1. v = u
    BY <1>1, <1>3 DEF Create, IInv, TypeOK
  <2> QED
    BY <1>3, <2>1 DEF Create, Exists
<1>4. Save(r)
  BY <1>2, <1>3
<1>5. Exists(request[r].ask.target)
  BY <1>1, <1>4 DEF Save
<1>6. PICK ask, old : ask = request[r].ask /\ old = request[r].loaded
  OBVIOUS
<1>7. PICK new \in Changes(ask, old), got \in Doc :
        /\ users' = [users EXCEPT ![ask.target] = got]
        /\ got.status = users[ask.target].status
           \/ (got.status = new.status /\ new.status # old.status)
  BY <1>4, <1>5, <1>6, SaveShape
<1>8. ask.target = u /\ users'[u] = got
  BY <1>1, <1>7 DEF IInv, TypeOK
<1>9. new.status = "active" /\ old.status # "active"
  BY <1>7, <1>8
<1>10. /\ request[r].phase = "save" /\ ask.kind # "delete" /\ Finish(r)
       /\ Holds(r)
  BY <1>4, <1>6 DEF Save, Holds
<1>11. ask \in Ask /\ old \in Doc /\ Allowed(ask, old)
  BY <1>6, <1>10, RequestShape DEF IInv, HeldWasAllowed, Loaded
<1>12. ask.kind \in {"approve", "reactivate", "status"}
  BY <1>7, <1>9, <1>10, <1>11, ChangesShape
<1>13. request'[r].phase = "done"
  BY <1>10 DEF Finish, Done, IInv, TypeOK
<1> QED
  BY <1>6, <1>8, <1>9, <1>10, <1>12, <1>13

\* No save of a copy loaded earlier brings an account back from suspension or
\* rejection, unless bringing it back is what was asked for.
THEOREM NeverLiftedByAccident == Spec => LiftedOnPurpose
<1>1. IInv /\ [Next]_vars
      => [\A u \in User :
            Exists(u) /\ users[u].status \in {"suspended", "rejected"}
              /\ users'[u] # Deleted /\ users'[u].status = "active"
            => \E r \in Request :
                 /\ request[r].phase = "save" /\ request'[r].phase = "done"
                 /\ request[r].ask.kind \in {"approve", "reactivate", "status"}
                 /\ request[r].ask.target = u
                 /\ request[r].loaded.status # "active"]_vars
  BY LiftIsPurpose
<1> QED
  BY <1>1, InvariantHolds, PTL DEF Spec, LiftedOnPurpose

-------------------------------------------------------------------------------
(* The throttle on their logins.                                           *)

Failing(s) ==
  login[s].phase \in {"restarting", "counting", "inserting", "recounting", "locking"}

\* The instant of a failure is in the past, and not long ago.
Prompt == \A s \in Slot : Failing(s) =>
            login[s].now <= clock /\ clock <= login[s].now + MaxStall

\* A failure about to lock the count that it reached finds it there.
MineIsThere ==
  \A s \in Slot : login[s].phase = "locking" /\ login[s].mine =>
                    doc.exists /\ doc.count >= Max

ThrottleInv ==
  /\ ThrottleTypeOK
  /\ Prompt
  /\ MineIsThere
  /\ KeptWhileLocked
  /\ LockEarned
  /\ LimitLocks

-------------------------------------------------------------------------------
(* The shapes.                                                             *)

LEMMA LoginShape ==
  ASSUME ThrottleTypeOK, NEW s \in Slot
  PROVE  /\ login[s] \in {NoLogin} \cup Login
         /\ Failing(s) => login[s].now \in Time
         /\ login[s].phase = "locking" => login[s].mine \in BOOLEAN
         /\ Failing(s) \/ login[s].phase \in {"idle", "comparing"}
BY DEF ThrottleTypeOK, Login, NoLogin, Failing

LEMMA DocShape ==
  ASSUME ThrottleTypeOK, doc.exists
  PROVE  /\ doc \in AttemptDoc
         /\ doc.count \in Nat /\ doc.windowStart \in Time
         /\ doc.lockedUntil \in {NoLock} \cup Nat /\ doc.expiresAt \in Nat
         /\ doc.late \in BOOLEAN /\ doc.missed \in BOOLEAN
<1>1. doc # NoDoc
  BY DEF NoDoc
<1>2. doc \in AttemptDoc
  BY <1>1 DEF ThrottleTypeOK
<1> QED
  BY <1>2 DEF AttemptDoc

LEMMA InitKeeps == ThrottleInit => ThrottleInv
<1> SUFFICES ASSUME ThrottleInit PROVE ThrottleInv
  OBVIOUS
<1>1. ThrottleTypeOK
  <2>1. 0 \in Time /\ 0 \in 0..MaxDropped
    BY ThrottleAssumption DEF ThrottleAssumption, Time
  <2> QED
    BY <2>1 DEF ThrottleInit, ThrottleTypeOK
<1>2. \A s \in Slot : login[s].phase = "idle"
  BY DEF ThrottleInit, NoLogin
<1>3. ~doc.exists
  BY DEF ThrottleInit, NoDoc
<1> QED
  BY <1>1, <1>2, <1>3 DEF ThrottleInv, Prompt, Failing, MineIsThere,
                          KeptWhileLocked, LockEarned, LimitLocks

-------------------------------------------------------------------------------
(* Two ways of changing the counter: clearing it, and writing a document.  *)

\* What the removal of the document leaves.
LEMMA ClearingKeeps ==
  ASSUME ThrottleInv, Cleared, UNCHANGED <<clock, dropped>>,
         login' \in [Slot -> {NoLogin} \cup Login],
         \A s \in Slot : \/ login'[s] = NoLogin
                         \/ login'[s] = Forgotten(login)[s]
  PROVE  ThrottleInv'
<1>1. doc' = NoDoc /\ ~doc'.exists /\ clock' = clock
  BY DEF Cleared, NoDoc
<1>2. ThrottleTypeOK'
  BY <1>1 DEF ThrottleInv, ThrottleTypeOK
<1>3. ASSUME NEW s \in Slot
      PROVE  /\ login'[s].phase = "locking" => ~login'[s].mine
             /\ Failing(s)' => Failing(s) /\ login'[s].now = login[s].now
  <2>1. login[s] \in {NoLogin} \cup Login
    BY LoginShape DEF ThrottleInv
  <2>2. CASE login'[s] = NoLogin
    BY <2>2 DEF NoLogin, Failing
  <2>3. CASE login'[s] = Forgotten(login)[s] /\ login[s].phase = "locking"
    BY <2>1, <2>3 DEF Forgotten, Failing, Login, NoLogin
  <2>4. CASE login'[s] = Forgotten(login)[s] /\ login[s].phase # "locking"
    BY <2>4 DEF Forgotten, Failing
  <2> QED
    BY <2>2, <2>3, <2>4
<1>4. Prompt'
  BY <1>1, <1>3 DEF ThrottleInv, Prompt
<1>5. MineIsThere'
  BY <1>3 DEF MineIsThere
<1> QED
  BY <1>1, <1>2, <1>4, <1>5
     DEF ThrottleInv, KeptWhileLocked, LockEarned, LimitLocks

\* The login of s goes from one phase to another beside a document that keeps
\* its shape.
LEMMA GoingKeepsType ==
  ASSUME ThrottleTypeOK, NEW s \in Slot, NEW l \in {NoLogin} \cup Login, Goes(s, l),
         UNCHANGED <<clock, dropped>>, doc' \in {NoDoc} \cup AttemptDoc
  PROVE  /\ ThrottleTypeOK' /\ login'[s] = l
         /\ \A t \in Slot \ {s} : login'[t] = login[t]
BY DEF ThrottleTypeOK, Goes

\* A step of s alone that leaves the document: s was not about to lock.
LEMMA QuietStepKeeps ==
  ASSUME ThrottleInv, NEW s \in Slot, NEW l \in {NoLogin} \cup Login, Goes(s, l),
         UNCHANGED <<clock, doc, dropped>>,
         login[s].phase # "locking", l.phase # "locking",
         \/ l.phase \in {"idle", "comparing"}
         \/ l.now = clock
         \/ Failing(s) /\ l.now = login[s].now
  PROVE  ThrottleInv'
<1>1. /\ ThrottleTypeOK' /\ login'[s] = l
      /\ \A t \in Slot \ {s} : login'[t] = login[t]
  BY GoingKeepsType DEF ThrottleInv, ThrottleTypeOK
<1>2. clock \in Nat /\ MaxStall \in Nat
  BY ThrottleAssumption DEF ThrottleAssumption, ThrottleInv, ThrottleTypeOK, Time
<1>3. Prompt'
  BY <1>1, <1>2 DEF ThrottleInv, Prompt, Failing
<1>4. MineIsThere'
  BY <1>1 DEF ThrottleInv, MineIsThere
<1>5. LimitLocks'
  BY <1>1 DEF ThrottleInv, LimitLocks
<1> QED
  BY <1>1, <1>3, <1>4, <1>5 DEF ThrottleInv, KeptWhileLocked, LockEarned

-------------------------------------------------------------------------------
(* One lemma per access.                                                   *)

LEMMA BeginKeeps ==
  ASSUME ThrottleInv, NEW s \in Slot, Begin(s) PROVE ThrottleInv'
<1>1. PICK l : l = [phase |-> "comparing"]
  OBVIOUS
<1>2. l \in {NoLogin} \cup Login /\ l.phase = "comparing"
  BY <1>1 DEF Login
<1>3. /\ Goes(s, l) /\ login[s].phase # "locking"
      /\ UNCHANGED <<clock, doc, dropped>>
  BY <1>1 DEF Begin, NoLogin
<1> QED
  BY <1>2, <1>3, QuietStepKeeps

LEMMA SucceedKeeps ==
  ASSUME ThrottleInv, NEW s \in Slot, Succeed(s) PROVE ThrottleInv'
<1>1. \A t \in Slot : Forgotten(login)[t] \in {NoLogin} \cup Login
  BY LoginShape DEF ThrottleInv, Forgotten, Login, NoLogin
<1>2. /\ login' \in [Slot -> {NoLogin} \cup Login]
      /\ \A t \in Slot : login'[t] = NoLogin \/ login'[t] = Forgotten(login)[t]
  BY <1>1 DEF Succeed, Forgotten
<1>3. Cleared /\ UNCHANGED <<clock, dropped>>
  BY DEF Succeed
<1> QED
  BY <1>2, <1>3, ClearingKeeps

LEMMA FailKeeps ==
  ASSUME ThrottleInv, NEW s \in Slot, Fail(s) PROVE ThrottleInv'
<1>1. PICK l : l = [phase |-> "restarting", now |-> clock]
  OBVIOUS
<1>2. clock \in Time
  BY DEF ThrottleInv, ThrottleTypeOK
<1>3. l \in {NoLogin} \cup Login /\ l.phase = "restarting" /\ l.now = clock
  BY <1>1, <1>2 DEF Login
<1>4. /\ Goes(s, l) /\ login[s].phase # "locking"
      /\ UNCHANGED <<clock, doc, dropped>>
  BY <1>1 DEF Fail
<1> QED
  BY <1>3, <1>4, QuietStepKeeps

LEMMA OtherwiseKeeps ==
  ASSUME ThrottleInv, NEW s \in Slot,
         MissDocument(s) \/ LoseInsert(s) \/ FindNothing(s)
  PROVE  ThrottleInv'
<1>1. login[s] \in {NoLogin} \cup Login /\ (Failing(s) => login[s].now \in Time)
  BY LoginShape DEF ThrottleInv
<1>2. CASE MissDocument(s)
  <2>1. PICK l : l = [login[s] EXCEPT !.phase = "inserting"]
    OBVIOUS
  <2>2. /\ l \in Login /\ l.phase = "inserting" /\ l.now = login[s].now
        /\ Failing(s) /\ login[s].phase # "locking"
    BY <1>1, <1>2, <2>1 DEF MissDocument, Login, NoLogin, Failing
  <2>3. Goes(s, l) /\ UNCHANGED <<clock, doc, dropped>>
    BY <1>2, <2>1 DEF MissDocument
  <2> QED
    BY <2>2, <2>3, QuietStepKeeps
<1>3. CASE LoseInsert(s)
  <2>1. PICK l : l = [login[s] EXCEPT !.phase = "recounting"]
    OBVIOUS
  <2>2. /\ l \in Login /\ l.phase = "recounting" /\ l.now = login[s].now
        /\ Failing(s) /\ login[s].phase # "locking"
    BY <1>1, <1>3, <2>1 DEF LoseInsert, Login, NoLogin, Failing
  <2>3. Goes(s, l) /\ UNCHANGED <<clock, doc, dropped>>
    BY <1>3, <2>1 DEF LoseInsert
  <2> QED
    BY <2>2, <2>3, QuietStepKeeps
<1>4. CASE FindNothing(s)
  <2>1. NoLogin.phase = "idle"
    BY DEF NoLogin
  <2> QED
    BY <1>4, <2>1, QuietStepKeeps DEF FindNothing
<1> QED
  BY <1>2, <1>3, <1>4

LEMMA RestartWindowKeeps ==
  ASSUME ThrottleInv, NEW s \in Slot, RestartWindow(s) PROVE ThrottleInv'
<1>1. /\ login[s].phase = "restarting" /\ Failing(s)
      /\ login[s].now \in Time /\ login[s].now \in Nat
  BY LoginShape DEF ThrottleInv, RestartWindow, Failing, Time
<1>2. PICK now : now = login[s].now
  OBVIOUS
<1>3. PICK l : l = [phase |-> "counting", now |-> now]
  OBVIOUS
<1>4. /\ l \in {NoLogin} \cup Login /\ l.phase = "counting"
      /\ l.now = login[s].now
  BY <1>1, <1>2, <1>3 DEF Login
<1>5. CASE ~Elapsed(now)
  <2>1. Goes(s, l) /\ UNCHANGED <<clock, doc, dropped>>
    BY <1>2, <1>3, <1>5 DEF RestartWindow, Goes
  <2> QED
    BY <1>1, <1>4, <2>1, QuietStepKeeps
<1>6. CASE Elapsed(now)
  <2>1. /\ doc' = Restarted(now) /\ clock' = clock /\ dropped' = dropped
        /\ login' = [Forgotten(login) EXCEPT ![s] = l]
    BY <1>2, <1>3, <1>6 DEF RestartWindow
  <2>2. doc \in AttemptDoc /\ doc.exists /\ doc.expiresAt \in Nat
    BY <1>6, DocShape DEF ThrottleInv, Elapsed
  <2>3. /\ doc' \in AttemptDoc /\ doc'.count = 0 /\ doc'.lockedUntil = NoLock
        /\ doc'.expiresAt = doc.expiresAt
    BY <1>1, <1>2, <2>1, <2>2 DEF Restarted, AttemptDoc
  <2>4. ASSUME NEW t \in Slot
        PROVE  /\ login'[t] \in {NoLogin} \cup Login
               /\ login'[t].phase = "locking" => ~login'[t].mine
               /\ Failing(t)' => Failing(t) /\ login'[t].now = login[t].now
    <3>1. login[t] \in {NoLogin} \cup Login
      BY LoginShape DEF ThrottleInv
    <3>2. CASE t = s
      BY <1>1, <1>4, <2>1, <3>2 DEF Forgotten, Failing
    <3>3. CASE t # s /\ login[t].phase = "locking"
      <4>1. login[t] \in [phase : {"locking"}, now : Time, mine : BOOLEAN]
        BY <3>1, <3>3 DEF Login, NoLogin
      <4>2. PICK m : m = [login[t] EXCEPT !.mine = FALSE]
        OBVIOUS
      <4>3. /\ m \in {NoLogin} \cup Login /\ m.phase = "locking" /\ ~m.mine
            /\ m.now = login[t].now
        BY <4>1, <4>2 DEF Login
      <4>4. login'[t] = m
        BY <2>1, <3>3, <4>2 DEF Forgotten
      <4> QED
        BY <3>3, <4>3, <4>4 DEF Failing
    <3>4. CASE t # s /\ login[t].phase # "locking"
      BY <2>1, <3>1, <3>4 DEF Forgotten, Failing
    <3> QED
      BY <3>2, <3>3, <3>4
  <2>5. ThrottleTypeOK'
    BY <2>1, <2>3, <2>4 DEF ThrottleInv, ThrottleTypeOK, Forgotten
  <2>6. Prompt'
    BY <2>1, <2>4 DEF ThrottleInv, Prompt
  <2>7. MineIsThere'
    BY <2>4 DEF MineIsThere
  <2>8. KeptWhileLocked'
    BY <2>2, <2>3 DEF KeptWhileLocked, NoLock
  <2>9. LockEarned' /\ LimitLocks'
    <3>1. ~(doc'.count >= Max)
      BY <2>3, ThrottleAssumption DEF ThrottleAssumption
    <3> QED
      BY <2>3, <3>1 DEF LockEarned, LimitLocks
  <2> QED
    BY <2>5, <2>6, <2>7, <2>8, <2>9 DEF ThrottleInv
<1> QED
  BY <1>5, <1>6

\* The document d that a failure of s counted, and what s does next.
LEMMA CountingKeeps ==
  ASSUME ThrottleInv, NEW s \in Slot, NEW d \in AttemptDoc, doc' = d,
         Failing(s), login[s].phase # "locking", AfterCount(s, d, login[s].now),
         UNCHANGED <<clock, dropped>>,
         d.lockedUntil <= d.expiresAt,
         d.lockedUntil # NoLock => d.count >= Max \/ d.late,
         doc.exists => d.count >= doc.count
  PROVE  ThrottleInv'
<1>1. PICK now : now = login[s].now /\ now \in Time /\ now \in Nat
  BY LoginShape DEF ThrottleInv, Time
<1>2. PICK l : l = IF MustLock(d.count, d, now)
                   THEN [phase |-> "locking", now |-> now, mine |-> TRUE]
                   ELSE NoLogin
  OBVIOUS
<1>3. Goes(s, l)
  BY <1>1, <1>2 DEF AfterCount
<1>4. CASE MustLock(d.count, d, now)
  <2>1. /\ l \in {NoLogin} \cup Login /\ l.phase = "locking" /\ l.now = now
        /\ l.mine
    BY <1>1, <1>2, <1>4 DEF Login
  <2>2. d.exists /\ d.count >= Max
    BY <1>4 DEF MustLock, AttemptDoc
  <2>3. /\ ThrottleTypeOK' /\ login'[s] = l
        /\ \A t \in Slot \ {s} : login'[t] = login[t]
    BY <1>3, <2>1, GoingKeepsType DEF ThrottleInv
  <2>4. Prompt'
    BY <1>1, <2>1, <2>3 DEF ThrottleInv, Prompt, Failing
  <2>5. MineIsThere'
    BY <2>2, <2>3 DEF MineIsThere
  <2>6. LimitLocks'
    BY <2>1, <2>3 DEF LimitLocks
  <2> QED
    BY <2>3, <2>4, <2>5, <2>6 DEF ThrottleInv, KeptWhileLocked, LockEarned
<1>5. CASE ~MustLock(d.count, d, now)
  <2>1. /\ l \in {NoLogin} \cup Login /\ l.phase = "idle"
    BY <1>2, <1>5 DEF NoLogin
  <2>2. /\ ThrottleTypeOK' /\ login'[s] = l
        /\ \A t \in Slot \ {s} : login'[t] = login[t]
    BY <1>3, <2>1, GoingKeepsType DEF ThrottleInv
  <2>3. Prompt'
    BY <2>1, <2>2 DEF ThrottleInv, Prompt, Failing
  <2>4. MineIsThere'
    <3>1. Max \in Nat /\ d.count \in Nat /\ d.exists
      BY ThrottleAssumption DEF ThrottleAssumption, AttemptDoc
    <3>2. doc.exists => doc.count \in Nat
      BY DocShape DEF ThrottleInv
    <3> QED
      BY <2>1, <2>2, <3>1, <3>2 DEF ThrottleInv, MineIsThere
  <2>5. LimitLocks'
    <3>1. d.count >= Max => d.lockedUntil > now
      BY <1>5 DEF MustLock, Locked
    <3>2. d.count >= Max => d.lockedUntil # NoLock
      BY <1>1, <3>1 DEF NoLock
    <3> QED
      BY <3>2 DEF LimitLocks
  <2> QED
    BY <2>2, <2>3, <2>4, <2>5 DEF ThrottleInv, KeptWhileLocked, LockEarned
<1> QED
  BY <1>4, <1>5

LEMMA IncrementKeeps ==
  ASSUME ThrottleInv, NEW s \in Slot, Increment(s) PROVE ThrottleInv'
<1>1. PICK now : now = login[s].now /\ now \in Nat /\ Window \in Nat
  BY LoginShape, ThrottleAssumption
     DEF ThrottleAssumption, ThrottleInv, Increment, Failing, Time
<1>2. /\ doc \in AttemptDoc /\ doc.exists /\ doc.count \in Nat
      /\ doc.lockedUntil \in {NoLock} \cup Nat /\ doc.expiresAt \in Nat
  BY DocShape DEF ThrottleInv, Increment
<1>3. PICK e : e = Later(doc.expiresAt, now + Window)
  OBVIOUS
<1>4. e \in Nat /\ e >= doc.expiresAt
  BY <1>1, <1>2, <1>3 DEF Later
<1>5. PICK n : n = doc.count + 1 /\ n \in Nat
  BY <1>2
<1>6. PICK d : d = [doc EXCEPT !.count = n, !.expiresAt = e]
  OBVIOUS
<1>7. /\ d \in AttemptDoc /\ d.count = n /\ d.late = doc.late
      /\ d.lockedUntil = doc.lockedUntil /\ d.expiresAt = e
  BY <1>2, <1>4, <1>5, <1>6 DEF AttemptDoc
<1>8. /\ doc' = d /\ AfterCount(s, d, login[s].now)
      /\ Failing(s) /\ login[s].phase # "locking" /\ UNCHANGED <<clock, dropped>>
  BY <1>1, <1>3, <1>5, <1>6 DEF Increment, Failing
<1>9. /\ d.lockedUntil <= d.expiresAt
      /\ d.count >= doc.count
  <2>1. doc.lockedUntil \in Int /\ doc.lockedUntil <= doc.expiresAt
    BY <1>2 DEF ThrottleInv, KeptWhileLocked, NoLock
  <2> QED
    BY <1>2, <1>4, <1>5, <1>7, <2>1
<1>10. d.lockedUntil # NoLock => d.count >= Max \/ d.late
  <2>1. Max \in Nat
    BY ThrottleAssumption DEF ThrottleAssumption
  <2>2. d.lockedUntil # NoLock => doc.count >= Max \/ doc.late
    BY <1>2, <1>7 DEF ThrottleInv, LockEarned
  <2> QED
    BY <1>2, <1>5, <1>7, <2>1, <2>2
<1> QED
  BY <1>7, <1>8, <1>9, <1>10, CountingKeeps

LEMMA InsertDocumentKeeps ==
  ASSUME ThrottleInv, NEW s \in Slot, InsertDocument(s) PROVE ThrottleInv'
<1>1. PICK now : now = login[s].now /\ now \in Time /\ now \in Nat /\ Window \in Nat
  BY LoginShape, ThrottleAssumption
     DEF ThrottleAssumption, ThrottleInv, InsertDocument, Failing, Time
<1>2. PICK d : d = [exists |-> TRUE, count |-> 1, windowStart |-> now,
                    lockedUntil |-> NoLock, expiresAt |-> now + Window,
                    late |-> FALSE, missed |-> FALSE]
  OBVIOUS
<1>3. /\ d \in AttemptDoc /\ d.lockedUntil = NoLock /\ d.lockedUntil <= d.expiresAt
  BY <1>1, <1>2 DEF AttemptDoc, NoLock
<1>4. /\ doc' = d /\ AfterCount(s, d, login[s].now) /\ ~doc.exists
      /\ Failing(s) /\ login[s].phase # "locking" /\ UNCHANGED <<clock, dropped>>
  BY <1>1, <1>2 DEF InsertDocument, Failing
<1> QED
  BY <1>3, <1>4, CountingKeeps

LEMMA WriteLockKeeps ==
  ASSUME ThrottleInv, NEW s \in Slot, WriteLock(s) PROVE ThrottleInv'
<1>1. /\ login[s].phase = "locking" /\ Failing(s)
      /\ login[s].now \in Nat /\ login[s].mine \in BOOLEAN
      /\ Lock \in Nat
  BY LoginShape, ThrottleAssumption
     DEF ThrottleAssumption, ThrottleInv, WriteLock, Failing, Time
<1>2. NoLogin \in {NoLogin} \cup Login /\ NoLogin.phase = "idle"
  BY DEF NoLogin
<1>3. Goes(s, NoLogin) /\ UNCHANGED <<clock, dropped>>
  BY DEF WriteLock
<1>4. PICK q : q = login[s]
  OBVIOUS
<1>5. doc' = IF doc.exists THEN LockedFor(q) ELSE doc
  BY <1>4 DEF WriteLock
<1>6. CASE ~doc.exists
  <2>1. doc' = doc
    BY <1>5, <1>6
  <2>2. /\ ThrottleTypeOK' /\ login'[s] = NoLogin
        /\ \A t \in Slot \ {s} : login'[t] = login[t]
    BY <1>2, <1>3, <2>1, GoingKeepsType DEF ThrottleInv, ThrottleTypeOK
  <2>3. Prompt'
    BY <1>2, <1>3, <2>2 DEF ThrottleInv, Prompt, Failing
  <2>4. MineIsThere'
    BY <1>2, <2>1, <2>2 DEF ThrottleInv, MineIsThere
  <2> QED
    BY <1>6, <2>1, <2>2, <2>3, <2>4
       DEF ThrottleInv, KeptWhileLocked, LockEarned, LimitLocks
<1>7. CASE doc.exists
  <2>1. doc \in AttemptDoc /\ doc.count \in Nat
    BY <1>7, DocShape DEF ThrottleInv
  <2>2. PICK u \in Nat : u = q.now + Lock
    BY <1>1, <1>4
  <2>3. PICK d : d = [doc EXCEPT !.lockedUntil = u, !.expiresAt = u, !.late = ~q.mine]
    OBVIOUS
  <2>4. doc' = d
    BY <1>5, <1>7, <2>2, <2>3 DEF LockedFor
  <2>5. d.late = ~q.mine /\ (~q.mine) \in BOOLEAN
    BY <2>1, <2>3 DEF AttemptDoc
  <2>6. /\ d \in AttemptDoc /\ d.count = doc.count /\ d.exists
        /\ d.lockedUntil = u /\ d.expiresAt = u
    BY <2>1, <2>2, <2>3, <2>5 DEF AttemptDoc
  <2>7. /\ doc' \in AttemptDoc /\ doc'.count = doc.count /\ doc'.exists
        /\ doc'.lockedUntil \in Nat /\ doc'.expiresAt = doc'.lockedUntil
        /\ doc'.late = ~q.mine
    BY <2>2, <2>4, <2>5, <2>6
  <2>8. /\ ThrottleTypeOK' /\ login'[s] = NoLogin
        /\ \A t \in Slot \ {s} : login'[t] = login[t]
    BY <1>2, <1>3, <2>7, GoingKeepsType DEF ThrottleInv
  <2>9. Prompt'
    BY <1>2, <1>3, <2>8 DEF ThrottleInv, Prompt, Failing
  <2>10. MineIsThere'
    BY <1>2, <1>7, <2>7, <2>8 DEF ThrottleInv, MineIsThere
  <2>11. KeptWhileLocked'
    BY <2>7 DEF KeptWhileLocked
  <2>12. LockEarned'
    BY <1>1, <1>4, <2>7 DEF ThrottleInv, MineIsThere, LockEarned
  <2>13. LimitLocks'
    BY <2>7 DEF LimitLocks, NoLock
  <2> QED
    BY <2>8, <2>9, <2>10, <2>11, <2>12, <2>13 DEF ThrottleInv
<1> QED
  BY <1>6, <1>7

-------------------------------------------------------------------------------
(* The rest of the system.                                                 *)

LEMMA RemovalKeeps ==
  ASSUME ThrottleInv, Unlock \/ Purge PROVE ThrottleInv'
<1>1. /\ Cleared /\ UNCHANGED <<clock, dropped>>
      /\ login' = Forgotten(login)
  BY DEF Unlock, Purge
<1>2. \A t \in Slot : Forgotten(login)[t] \in {NoLogin} \cup Login
  BY LoginShape DEF ThrottleInv, Forgotten, Login, NoLogin
<1>3. login' \in [Slot -> {NoLogin} \cup Login]
  BY <1>1, <1>2 DEF Forgotten
<1> QED
  BY <1>1, <1>3, ClearingKeeps

\* What the logins in S leave of the document when they end where they are.
LEMMA StopShape ==
  ASSUME ThrottleInv, NEW S \in SUBSET Slot, Stop(S)
  PROVE  /\ doc' \in {NoDoc} \cup AttemptDoc
         /\ doc'.exists <=> doc.exists
         /\ doc.exists => /\ doc'.count = doc.count
                          /\ doc'.windowStart = doc.windowStart
                          /\ doc'.lockedUntil = doc.lockedUntil
                          /\ doc'.expiresAt = doc.expiresAt
                          /\ doc'.late = doc.late
                          /\ doc.missed => doc'.missed
                          /\ (\E s \in S : login[s].phase = "locking" /\ login[s].mine)
                               => doc'.missed
<1>1. CASE \E s \in S : login[s].phase = "locking" /\ login[s].mine
  <2>1. doc.exists
    BY <1>1 DEF ThrottleInv, MineIsThere
  <2>2. doc \in AttemptDoc
    BY <2>1, DocShape DEF ThrottleInv
  <2>3. doc' = [doc EXCEPT !.missed = TRUE]
    BY <1>1 DEF Stop, Missed
  <2> QED
    BY <2>1, <2>2, <2>3 DEF AttemptDoc
<1>2. CASE ~\E s \in S : login[s].phase = "locking" /\ login[s].mine
  <2>1. doc' = doc
    BY <1>2 DEF Stop, Missed
  <2> QED
    BY <1>2, <2>1 DEF ThrottleInv, ThrottleTypeOK
<1> QED
  BY <1>1, <1>2

LEMMA StopKeeps ==
  ASSUME ThrottleInv, NEW S \in SUBSET Slot, Stop(S) PROVE ThrottleInv'
<1>1. /\ clock' = clock
      /\ \A s \in S : login'[s].phase = "idle"
      /\ \A s \in Slot \ S : login'[s] = login[s]
      /\ login' \in [Slot -> {NoLogin} \cup Login]
  BY DEF ThrottleInv, ThrottleTypeOK, Stop, NoLogin
<1>2. dropped' \in 0..MaxDropped
  <2>1. /\ Cardinality(Locking \cap S) \in Nat /\ dropped \in Nat /\ MaxDropped \in Nat
    <3>1. IsFiniteSet(Locking \cap S)
      BY FS_Subset, ThrottleAssumption DEF ThrottleAssumption
    <3> QED
      BY <3>1, FS_CardinalityType, ThrottleAssumption
         DEF ThrottleAssumption, ThrottleInv, ThrottleTypeOK
  <2> QED
    BY <2>1 DEF Stop
<1>3. ThrottleTypeOK'
  BY <1>1, <1>2, StopShape DEF ThrottleInv, ThrottleTypeOK
<1>4. Prompt'
  BY <1>1 DEF ThrottleInv, Prompt, Failing
<1>5. MineIsThere'
  BY <1>1, StopShape DEF ThrottleInv, MineIsThere
<1>6. KeptWhileLocked' /\ LockEarned'
  BY StopShape DEF ThrottleInv, KeptWhileLocked, LockEarned
<1>7. LimitLocks'
  <2> SUFFICES ASSUME doc'.exists, doc'.count >= Max
               PROVE  \/ doc'.lockedUntil # NoLock
                      \/ doc'.missed
                      \/ \E s \in Slot : login'[s].phase = "locking" /\ login'[s].mine
    BY DEF LimitLocks
  <2>1. CASE doc.lockedUntil # NoLock \/ doc.missed
    BY <2>1, StopShape
  <2>2. CASE \E s \in Slot : login[s].phase = "locking" /\ login[s].mine
    BY <1>1, <2>2, StopShape
  <2> QED
    BY <2>1, <2>2, StopShape DEF ThrottleInv, LimitLocks
<1> QED
  BY <1>3, <1>4, <1>5, <1>6, <1>7 DEF ThrottleInv

LEMMA TickKeeps ==
  ASSUME ThrottleInv, Tick PROVE ThrottleInv'
<1>1. clock \in Nat /\ MaxStall \in Nat /\ MaxTime \in Nat
  BY ThrottleAssumption DEF ThrottleAssumption, ThrottleInv, ThrottleTypeOK, Time
<1>2. UNCHANGED <<doc, login, dropped>>
  BY DEF Tick
<1>3. ThrottleTypeOK'
  BY <1>1, <1>2 DEF ThrottleInv, ThrottleTypeOK, Tick, Time
<1>4. Prompt'
  <2>1. ASSUME NEW s \in Slot, Failing(s)
        PROVE  /\ login[s].now \in Nat /\ login[s].now <= clock
               /\ clock < login[s].now + MaxStall
    BY <2>1, LoginShape DEF ThrottleInv, Prompt, Tick, Failing, Time
  <2> QED
    BY <1>1, <1>2, <2>1 DEF Prompt, Failing, Tick
<1> QED
  BY <1>2, <1>3, <1>4
     DEF ThrottleInv, MineIsThere, KeptWhileLocked, LockEarned, LimitLocks

LEMMA StepKeeps == ThrottleInv /\ [ThrottleNext]_throttleVars => ThrottleInv'
<1> SUFFICES ASSUME ThrottleInv, [ThrottleNext]_throttleVars PROVE ThrottleInv'
  OBVIOUS
<1>1. ASSUME NEW s \in Slot, Begin(s) \/ Succeed(s) \/ Fail(s) PROVE ThrottleInv'
  BY <1>1, BeginKeeps, SucceedKeeps, FailKeeps
<1>2. ASSUME NEW s \in Slot, RecordFailure(s) PROVE ThrottleInv'
  BY <1>2, RestartWindowKeeps, IncrementKeeps, InsertDocumentKeeps, WriteLockKeeps,
     OtherwiseKeeps DEF RecordFailure
<1>3. CASE Unlock \/ Purge \/ Tick
  BY <1>3, RemovalKeeps, TickKeeps
<1>4. CASE Restart \/ \E s \in Slot : Break(s)
  <2>1. PICK S \in SUBSET Slot : Stop(S)
    BY <1>4 DEF Restart, Break
  <2> QED
    BY <2>1, StopKeeps
<1>5. CASE UNCHANGED throttleVars
  <2>1. UNCHANGED <<clock, doc, login, dropped>>
    BY <1>5 DEF throttleVars
  <2> QED
    BY <2>1 DEF ThrottleInv, ThrottleTypeOK, Prompt, Failing, MineIsThere, KeptWhileLocked,
                LockEarned, LimitLocks
<1> QED
  BY <1>1, <1>2, <1>3, <1>4, <1>5 DEF ThrottleNext

-------------------------------------------------------------------------------
(* A lock in force.                                                        *)

LEMMA EndedOnPurpose ==
  ThrottleInv /\ [ThrottleNext]_throttleVars =>
    (Locked(doc, clock) /\ ~Locked(doc', clock) =>
       /\ clock < doc.expiresAt
       /\ Unlock \/ \E s \in Slot : Succeed(s))
<1> SUFFICES ASSUME ThrottleInv, [ThrottleNext]_throttleVars,
                    Locked(doc, clock), ~Locked(doc', clock)
             PROVE  /\ clock < doc.expiresAt
                    /\ Unlock \/ \E s \in Slot : Succeed(s)
  OBVIOUS
<1>1. /\ clock \in Nat /\ MaxStall \in Nat /\ Lock \in Nat /\ MaxStall < Lock
      /\ Window \in Nat
  BY ThrottleAssumption DEF ThrottleAssumption, ThrottleInv, ThrottleTypeOK, Time
<1>2. /\ doc.exists /\ doc.lockedUntil > clock /\ doc \in AttemptDoc
      /\ doc.lockedUntil \in Int /\ doc.expiresAt \in Nat
  BY DocShape DEF ThrottleInv, Locked, NoLock
<1>3. clock < doc.expiresAt
  <2>1. doc.lockedUntil <= doc.expiresAt
    BY <1>2 DEF ThrottleInv, KeptWhileLocked
  <2> QED
    BY <1>1, <1>2, <2>1
<1>4. doc' # doc
  BY DEF Locked
<1>5. ASSUME NEW s \in Slot, RecordFailure(s) PROVE FALSE
  <2>1. CASE RestartWindow(s)
    <3>1. login[s].now \in Nat /\ login[s].now <= clock
      BY <2>1, LoginShape DEF ThrottleInv, Prompt, RestartWindow, Failing, Time
    <3>2. ~Elapsed(login[s].now)
      BY <1>1, <1>2, <3>1 DEF Elapsed
    <3> QED
      BY <1>4, <2>1, <3>2 DEF RestartWindow
  <2>2. CASE Increment(s)
    <3>1. doc'.exists /\ doc'.lockedUntil = doc.lockedUntil
      BY <1>2, <2>2 DEF Increment, AttemptDoc
    <3> QED
      BY <1>2, <3>1 DEF Locked
  <2>3. CASE MissDocument(s) \/ InsertDocument(s) \/ FindNothing(s)
    BY <1>2, <2>3 DEF MissDocument, InsertDocument, FindNothing
  <2>4. CASE LoseInsert(s)
    BY <1>4, <2>4 DEF LoseInsert
  <2>5. CASE WriteLock(s)
    <3>1. /\ login[s].now \in Nat
          /\ clock <= login[s].now + MaxStall
      BY <2>5, LoginShape DEF ThrottleInv, Prompt, WriteLock, Failing, Time
    <3>2. doc'.exists /\ doc'.lockedUntil = login[s].now + Lock
      BY <1>2, <2>5 DEF WriteLock, LockedFor, AttemptDoc
    <3> QED
      BY <1>1, <3>1, <3>2 DEF Locked
  <2> QED
    BY <1>5, <2>1, <2>2, <2>3, <2>4, <2>5 DEF RecordFailure
<1>6. ASSUME NEW s \in Slot, Begin(s) \/ Fail(s) PROVE FALSE
  BY <1>4, <1>6 DEF Begin, Fail
<1>7. ~Purge
  BY <1>1, <1>2, <1>3 DEF Purge
<1>8. ~Restart /\ ~\E s \in Slot : Break(s)
  <2> SUFFICES ASSUME NEW S \in SUBSET Slot, Stop(S) PROVE FALSE
    BY DEF Restart, Break
  <2>1. doc'.exists /\ doc'.lockedUntil = doc.lockedUntil /\ clock' = clock
    BY <1>2, StopShape DEF Stop
  <2> QED
    BY <1>2, <2>1 DEF Locked
<1>9. ~Tick
  BY <1>4 DEF Tick
<1>10. ~UNCHANGED throttleVars
  BY <1>4 DEF throttleVars
<1> QED
  BY <1>3, <1>5, <1>6, <1>7, <1>8, <1>9, <1>10 DEF ThrottleNext

-------------------------------------------------------------------------------
(* Theorems.                                                               *)

\* Every reachable state satisfies the inductive invariant.
THEOREM Inductive == ThrottleSpec => []ThrottleInv
<1> QED
  BY InitKeeps, StepKeeps, PTL DEF ThrottleSpec

\* The counter and the logins under way keep the shapes of their phases, so that
\* no failure counts in a document that is not there.
THEOREM ThrottleTypeCorrect == ThrottleSpec => []ThrottleTypeOK
<1>1. ThrottleInv => ThrottleTypeOK
  BY DEF ThrottleInv
<1> QED
  BY <1>1, Inductive, PTL

\* A count at the limit is locked, was locked, or is about to be locked by the
\* failure that reached it, unless that failure ended between the count and the
\* lock, in a failed access or in a restart: the two writes of recordFailure leave
\* no other gap, whatever number of failures run together.
THEOREM LimitIsLocked == ThrottleSpec => []LimitLocks
<1>1. ThrottleInv => LimitLocks
  BY DEF ThrottleInv
<1> QED
  BY <1>1, Inductive, PTL

\* A document is locked only by a failure that reached the limit, in the count
\* that is there or in one that was over when the lock was written.
THEOREM LocksAreEarned == ThrottleSpec => []LockEarned
<1>1. ThrottleInv => LockEarned
  BY DEF ThrottleInv
<1> QED
  BY <1>1, Inductive, PTL

\* A lock in force ends early only by a right password or an administrator; the
\* window that a slow failure restarts, the lock that it writes late and the TTL
\* index leave it in force.
THEOREM LockStays == ThrottleSpec => LockHolds
<1>1. ThrottleInv /\ [ThrottleNext]_throttleVars =>
        [Locked(doc, clock) /\ ~Locked(doc', clock) =>
           /\ clock < doc.expiresAt
           /\ Unlock \/ \E s \in Slot : Succeed(s)]_throttleVars
  BY EndedOnPurpose
<1> QED
  BY <1>1, Inductive, PTL DEF ThrottleSpec, LockHolds

-------------------------------------------------------------------------------
(* The number of tries.                                                    *)

\* The accesses of one failure take less than half a lock, so that no failure is
\* still about to write its lock when an earlier one has run out.  (The lock of
\* an account lasts two hours.)
StallsAreShort == 2 * MaxStall < Lock

\* The logins that may still be added to the count of a document that has been
\* locked: those that began before the lock, or during a stall.  One that fails
\* after the lock ran out restarts the window first.
CanAdd ==
  {s \in Slot : \/ login[s].phase \in {"counting", "inserting", "recounting"}
                \/ login[s].phase = "restarting" /\ login[s].now < doc.lockedUntil
                \/ login[s].phase = "comparing" /\ clock < doc.lockedUntil}

\* A lock ends after the window that it is in, after the instants of the failures
\* that passed the restart of that window, and after the stalls of those that
\* are about to lock.
Timely ==
  doc.exists =>
    /\ doc.windowStart <= clock
    /\ doc.lockedUntil # NoLock =>
         /\ doc.windowStart + Window < doc.lockedUntil
         /\ \A s \in Slot :
              /\ login[s].phase \in {"counting", "inserting", "recounting"} =>
                   login[s].now < doc.lockedUntil
              /\ login[s].phase = "locking" =>
                   login[s].now + MaxStall < doc.lockedUntil

\* What the count may have reached when nobody is about to lock.
Allowance == Max - 1 + dropped

\* Before the lock each failure above the limit is one that is about to lock;
\* after it the count can only grow by those that can still be added.
Room ==
  doc.exists =>
    /\ doc.lockedUntil = NoLock => doc.count <= Allowance + Cardinality(Locking)
    /\ doc.lockedUntil # NoLock =>
         doc.count + Cardinality(CanAdd) <= Allowance + Cardinality(Slot)

BoundInv == Timely /\ Room

\* The sizes that the bound is made of.
LEMMA Sizes ==
  ASSUME ThrottleTypeOK
  PROVE  /\ Cardinality(Slot) \in Nat /\ dropped \in Nat
         /\ Allowance \in Nat /\ Max - 1 <= Allowance
         /\ Max - 1 + Cardinality(Slot) + dropped = Allowance + Cardinality(Slot)
         /\ dropped' = dropped => Allowance' = Allowance
         /\ \A S \in SUBSET Slot : /\ IsFiniteSet(S) /\ Cardinality(S) \in Nat
                                   /\ Cardinality(S) <= Cardinality(Slot)
<1>1. Cardinality(Slot) \in Nat
  BY FS_CardinalityType, ThrottleAssumption DEF ThrottleAssumption
<1>2. dropped \in Nat /\ Max \in Nat \ {0}
  BY ThrottleAssumption DEF ThrottleTypeOK, ThrottleAssumption
<1>3. \A S \in SUBSET Slot : /\ IsFiniteSet(S) /\ Cardinality(S) \in Nat
                             /\ Cardinality(S) <= Cardinality(Slot)
  BY FS_Subset, FS_CardinalityType, ThrottleAssumption DEF ThrottleAssumption
<1> QED
  BY <1>1, <1>2, <1>3 DEF Allowance

\* Who is in Locking and CanAdd is in a slot.
LEMMA InSlots == /\ Locking \subseteq Slot /\ CanAdd \subseteq Slot
                 /\ Locking' \subseteq Slot /\ CanAdd' \subseteq Slot
BY DEF Locking, CanAdd

\* A step that leaves the document and those about to lock, and that brings
\* nobody into CanAdd, keeps the room.
LEMMA RoomWhenQuiet ==
  ASSUME ThrottleInv, Room, UNCHANGED <<doc, dropped>>,
         doc.exists => Locking' = Locking /\ CanAdd' \subseteq CanAdd
  PROVE  Room'
<1> SUFFICES ASSUME doc.exists PROVE Room'
  BY DEF Room
<1>1. Cardinality(CanAdd') <= Cardinality(CanAdd)
  <2>1. IsFiniteSet(CanAdd)
    BY Sizes, InSlots DEF ThrottleInv
  <2> QED
    BY <2>1, FS_Subset
<1>2. /\ Cardinality(CanAdd') \in Nat /\ Cardinality(CanAdd) \in Nat
      /\ Allowance' = Allowance /\ Allowance \in Nat /\ Cardinality(Slot) \in Nat
  BY Sizes, InSlots DEF ThrottleInv
<1>3. doc.count \in Nat
  BY DocShape DEF ThrottleInv
<1> QED
  BY <1>1, <1>2, <1>3 DEF Room

\* A login that begins found no lock in force, and one that fails was counted
\* among those that can be added as long as the lock lasts.
LEMMA BeginBounds ==
  ASSUME ThrottleInv, BoundInv, NEW s \in Slot, Begin(s) \/ Fail(s)
  PROVE  BoundInv'
<1>1. /\ UNCHANGED <<clock, doc, dropped>>
      /\ \A t \in Slot \ {s} : login'[t] = login[t]
      /\ login[s].phase \in {"idle", "comparing"}
      /\ login'[s].phase \in {"comparing", "restarting"}
  BY DEF Begin, Fail, Goes, ThrottleInv, ThrottleTypeOK, NoLogin
<1>2. Timely'
  BY <1>1 DEF BoundInv, Timely
<1>3. Locking' = Locking
  BY <1>1 DEF Locking
<1>4. ASSUME doc.exists, s \in CanAdd' PROVE s \in CanAdd
  <2>1. CASE Begin(s)
    <3>1. login'[s].phase = "comparing" /\ ~ (clock < doc.lockedUntil)
      <4>1. doc.lockedUntil \in Int /\ clock \in Int
        BY <1>4, DocShape DEF ThrottleInv, ThrottleTypeOK, Time, NoLock
      <4> QED
        BY <1>4, <2>1, <4>1 DEF Begin, Goes, Locked, ThrottleInv, ThrottleTypeOK
    <3> QED
      BY <1>1, <1>4, <3>1 DEF CanAdd
  <2>2. CASE Fail(s)
    BY <1>1, <1>4, <2>2 DEF Fail, Goes, CanAdd, ThrottleInv, ThrottleTypeOK
  <2> QED
    BY <2>1, <2>2
<1>5. doc.exists => CanAdd' \subseteq CanAdd
  BY <1>1, <1>4 DEF CanAdd
<1>6. Room'
  BY <1>1, <1>3, <1>5, RoomWhenQuiet DEF BoundInv
<1> QED
  BY <1>2, <1>6 DEF BoundInv

\* Where the document is gone, so is its count.
LEMMA NothingBounds == ~doc'.exists => BoundInv'
BY DEF BoundInv, Timely, Room

LEMMA LoseInsertBounds ==
  ASSUME ThrottleInv, BoundInv, NEW s \in Slot, LoseInsert(s)
  PROVE  BoundInv'
<1>1. /\ UNCHANGED <<clock, doc, dropped>> /\ doc.exists
      /\ \A t \in Slot \ {s} : login'[t] = login[t]
      /\ login[s].phase = "inserting"
  BY DEF LoseInsert, Goes, ThrottleInv, ThrottleTypeOK
<1>2. login'[s].phase = "recounting" /\ login'[s].now = login[s].now
  <2>1. login[s] \in Login
    BY <1>1, LoginShape DEF ThrottleInv, NoLogin
  <2> QED
    BY <1>1, <2>1 DEF LoseInsert, Goes, ThrottleInv, ThrottleTypeOK, Login
<1>3. Timely'
  BY <1>1, <1>2 DEF BoundInv, Timely
<1>4. Locking' = Locking /\ CanAdd' \subseteq CanAdd
  BY <1>1, <1>2 DEF Locking, CanAdd
<1> QED
  BY <1>1, <1>3, <1>4, RoomWhenQuiet DEF BoundInv

\* A window is restarted with a count of 0.  One that is not restarted has not
\* run out, and neither has its lock: it ends later.
LEMMA RestartWindowBounds ==
  ASSUME ThrottleInv, BoundInv, NEW s \in Slot, RestartWindow(s)
  PROVE  BoundInv'
<1>1. PICK now : now = login[s].now
  OBVIOUS
<1>2. /\ login[s].phase = "restarting" /\ now \in Nat /\ now <= clock
      /\ clock \in Nat /\ Window \in Nat
  BY <1>1, LoginShape, ThrottleAssumption
     DEF ThrottleInv, ThrottleAssumption, Prompt, RestartWindow, Failing, Time, ThrottleTypeOK
<1>3. UNCHANGED <<clock, dropped>>
  BY DEF RestartWindow
<1>4. CASE ~doc.exists
  BY <1>4, NothingBounds DEF RestartWindow, Elapsed
<1>5. CASE doc.exists /\ ~Elapsed(now)
  <2>1. /\ doc' = doc
        /\ \A t \in Slot \ {s} : login'[t] = login[t]
        /\ login'[s].phase = "counting" /\ login'[s].now = now
    BY <1>1, <1>5 DEF RestartWindow, ThrottleInv, ThrottleTypeOK
  <2>2. doc.lockedUntil # NoLock => now < doc.lockedUntil
    <3> SUFFICES ASSUME doc.lockedUntil # NoLock PROVE now < doc.lockedUntil
      OBVIOUS
    <3>1. doc.windowStart \in Int /\ doc.lockedUntil \in Int
      BY <1>5, DocShape DEF ThrottleInv, NoLock, Time
    <3>2. doc.windowStart + Window < doc.lockedUntil
      BY <1>5 DEF BoundInv, Timely
    <3> QED
      BY <1>2, <1>5, <3>1, <3>2 DEF Elapsed
  <2>3. Timely'
    BY <1>3, <1>5, <2>1, <2>2 DEF BoundInv, Timely
  <2>4. Locking' = Locking
    BY <1>2, <2>1 DEF Locking
  <2>5. CASE doc.lockedUntil # NoLock
    <3>1. CanAdd' \subseteq CanAdd
      BY <1>1, <1>2, <1>3, <2>1, <2>2, <2>5 DEF CanAdd
    <3> QED
      BY <1>3, <2>1, <2>3, <2>4, <3>1, RoomWhenQuiet DEF BoundInv
  <2>6. CASE doc.lockedUntil = NoLock
    <3>1. Allowance' = Allowance
      BY <1>3, Sizes DEF ThrottleInv
    <3>2. Room'
      BY <1>3, <2>1, <2>4, <2>6, <3>1 DEF BoundInv, Room
    <3> QED
      BY <2>3, <3>2 DEF BoundInv
  <2> QED
    BY <2>5, <2>6
<1>6. CASE doc.exists /\ Elapsed(now)
  <2>1. doc' = Restarted(now)
    BY <1>1, <1>6 DEF RestartWindow
  <2>2. doc \in AttemptDoc
    BY <1>6, DocShape DEF ThrottleInv
  <2>3. doc'.count = 0 /\ doc'.windowStart = now /\ doc'.lockedUntil = NoLock
    BY <2>1, <2>2 DEF Restarted, AttemptDoc
  <2>4. Timely'
    BY <1>2, <1>3, <2>3 DEF Timely
  <2>5. Allowance' \in Nat /\ Cardinality(Locking') \in Nat
    BY <1>3, Sizes, InSlots DEF ThrottleInv
  <2>6. Room'
    BY <2>3, <2>5 DEF Room
  <2> QED
    BY <2>4, <2>6 DEF BoundInv
<1> QED
  BY <1>4, <1>5, <1>6

\* A failure that counts in a document without a lock either stays below the
\* limit or goes on to lock.
LEMMA CountingBounds ==
  ASSUME ThrottleInv, BoundInv, NEW s \in Slot, NEW d \in AttemptDoc, doc' = d,
         Failing(s), login[s].phase # "locking", AfterCount(s, d, login[s].now),
         UNCHANGED <<clock, dropped>>, d.lockedUntil = NoLock,
         d.windowStart <= clock,
         d.count <= Allowance + Cardinality(Locking) + 1
  PROVE  BoundInv'
<1>1. PICK now : now = login[s].now /\ now \in Nat
  BY LoginShape DEF ThrottleInv, Time
<1>2. /\ \A t \in Slot \ {s} : login'[t] = login[t]
      /\ login'[s].phase = IF d.count >= Max THEN "locking" ELSE "idle"
  <2>1. MustLock(d.count, d, now) <=> d.count >= Max
    BY <1>1 DEF MustLock, Locked, NoLock
  <2> QED
    BY <1>1, <2>1 DEF AfterCount, Goes, ThrottleInv, ThrottleTypeOK, NoLogin
<1>3. Timely'
  BY DEF Timely
<1>4. /\ Allowance \in Nat /\ Allowance' = Allowance /\ Max - 1 <= Allowance
      /\ Max \in Nat /\ d.count \in Nat
      /\ Cardinality(Locking) \in Nat /\ Cardinality(Locking') \in Nat
  BY Sizes, InSlots, ThrottleAssumption DEF ThrottleInv, ThrottleAssumption, AttemptDoc
<1>5. d.count <= Allowance + Cardinality(Locking')
  <2>1. CASE d.count >= Max
    <3>1. Locking' = Locking \cup {s} /\ s \notin Locking
      BY <1>2, <2>1 DEF Locking
    <3>2. Cardinality(Locking') = Cardinality(Locking) + 1
      BY <3>1, Sizes, InSlots, FS_AddElement DEF ThrottleInv
    <3> QED
      BY <1>4, <3>2
  <2>2. CASE ~(d.count >= Max)
    BY <1>4, <2>2
  <2> QED
    BY <2>1, <2>2
<1>6. Room'
  BY <1>4, <1>5 DEF Room
<1> QED
  BY <1>3, <1>6 DEF BoundInv

LEMMA InsertDocumentBounds ==
  ASSUME ThrottleInv, BoundInv, NEW s \in Slot, InsertDocument(s)
  PROVE  BoundInv'
<1>1. PICK now : now = login[s].now /\ now \in Time /\ now \in Nat /\ Window \in Nat
                 /\ now <= clock
  BY LoginShape, ThrottleAssumption
     DEF ThrottleAssumption, ThrottleInv, InsertDocument, Failing, Prompt, Time
<1>2. PICK d : d = [exists |-> TRUE, count |-> 1, windowStart |-> now,
                    lockedUntil |-> NoLock, expiresAt |-> now + Window,
                    late |-> FALSE, missed |-> FALSE]
  OBVIOUS
<1>3. d \in AttemptDoc /\ d.lockedUntil = NoLock /\ d.windowStart <= clock /\ d.count = 1
  BY <1>1, <1>2 DEF AttemptDoc
<1>4. /\ doc' = d /\ AfterCount(s, d, login[s].now)
      /\ Failing(s) /\ login[s].phase # "locking" /\ UNCHANGED <<clock, dropped>>
  BY <1>1, <1>2 DEF InsertDocument, Failing
<1>5. Allowance \in Nat /\ Cardinality(Locking) \in Nat
  BY Sizes, InSlots DEF ThrottleInv
<1>6. d.count <= Allowance + Cardinality(Locking) + 1
  BY <1>3, <1>5
<1> QED
  BY <1>3, <1>4, <1>6, CountingBounds

\* In a document with a lock a failure was among those that could be added, and
\* does not lock it again.
LEMMA IncrementBounds ==
  ASSUME ThrottleInv, BoundInv, NEW s \in Slot, Increment(s)
  PROVE  BoundInv'
<1>1. PICK now : now = login[s].now /\ now \in Nat /\ Window \in Nat
  BY LoginShape, ThrottleAssumption
     DEF ThrottleAssumption, ThrottleInv, Increment, Failing, Time
<1>2. /\ doc \in AttemptDoc /\ doc.exists /\ doc.count \in Nat /\ doc.expiresAt \in Nat
      /\ doc.windowStart \in Int /\ doc.lockedUntil \in Int
  BY DocShape DEF ThrottleInv, Increment, NoLock, Time
<1>3. PICK e \in Nat : e = Later(doc.expiresAt, now + Window)
  BY <1>1, <1>2 DEF Later
<1>4. PICK n \in Nat : n = doc.count + 1
  BY <1>2
<1>5. PICK d : d = [doc EXCEPT !.count = n, !.expiresAt = e]
  OBVIOUS
<1>6. /\ d \in AttemptDoc /\ d.count = n /\ d.count = doc.count + 1
      /\ d.lockedUntil = doc.lockedUntil /\ d.windowStart = doc.windowStart /\ d.exists
  BY <1>2, <1>3, <1>4, <1>5 DEF AttemptDoc
<1>7. /\ doc' = d /\ AfterCount(s, d, login[s].now)
      /\ login[s].phase \in {"counting", "recounting"}
      /\ Failing(s) /\ login[s].phase # "locking" /\ UNCHANGED <<clock, dropped>>
  BY <1>1, <1>3, <1>4, <1>5 DEF Increment, Failing
<1>8. /\ Allowance \in Nat /\ Allowance' = Allowance /\ Cardinality(Slot) \in Nat
      /\ Cardinality(Locking) \in Nat
      /\ Cardinality(CanAdd) \in Nat /\ IsFiniteSet(CanAdd)
      /\ Cardinality(CanAdd') \in Nat
  BY <1>7, Sizes, InSlots DEF ThrottleInv
<1>9. CASE doc.lockedUntil = NoLock
  <2>1. d.count <= Allowance + Cardinality(Locking) + 1
    BY <1>2, <1>6, <1>8, <1>9 DEF BoundInv, Room
  <2>2. d.windowStart <= clock
    BY <1>2, <1>6 DEF BoundInv, Timely
  <2> QED
    BY <1>6, <1>7, <1>9, <2>1, <2>2, CountingBounds
<1>10. CASE doc.lockedUntil # NoLock
  <2>1. now < doc.lockedUntil
    BY <1>1, <1>2, <1>7, <1>10 DEF BoundInv, Timely
  <2>2. ~MustLock(d.count, d, now)
    BY <1>1, <1>2, <1>6, <2>1 DEF MustLock, Locked
  <2>3. /\ \A t \in Slot \ {s} : login'[t] = login[t]
        /\ login'[s].phase = "idle"
    BY <1>1, <1>7, <2>2 DEF AfterCount, Goes, ThrottleInv, ThrottleTypeOK, NoLogin
  <2>4. Timely'
    BY <1>2, <1>6, <1>7, <2>3 DEF BoundInv, Timely
  <2>5. CanAdd' = CanAdd \ {s} /\ s \in CanAdd
    BY <1>6, <1>7, <2>3 DEF CanAdd
  <2>6. Cardinality(CanAdd') = Cardinality(CanAdd) - 1
    BY <1>8, <2>5, FS_RemoveElement
  <2>7. doc.count + Cardinality(CanAdd) <= Allowance + Cardinality(Slot)
    BY <1>2, <1>10 DEF BoundInv, Room
  <2>8. Room'
    BY <1>2, <1>6, <1>7, <1>8, <1>10, <2>6, <2>7 DEF Room
  <2> QED
    BY <2>4, <2>8 DEF BoundInv
<1> QED
  BY <1>9, <1>10

\* Of the logins under way when the first lock is written, those that are not
\* about to lock can still be added; a lock written later finds the document
\* locked, and lets in nobody who could not be added before.
LEMMA WriteLockBounds ==
  ASSUME StallsAreShort, ThrottleInv, BoundInv, NEW s \in Slot, WriteLock(s)
  PROVE  BoundInv'
<1>1. PICK q : q = login[s]
  OBVIOUS
<1>2. /\ q.phase = "locking" /\ Failing(s) /\ q.now \in Nat
      /\ q.now <= clock /\ clock <= q.now + MaxStall
      /\ clock \in Nat /\ MaxStall \in Nat /\ Lock \in Nat /\ Window \in Nat
      /\ Window + MaxStall < Lock /\ 2 * MaxStall < Lock
  BY <1>1, LoginShape, ThrottleAssumption
     DEF ThrottleInv, ThrottleAssumption, StallsAreShort, WriteLock, Failing, Prompt,
         Time, ThrottleTypeOK
<1>3. /\ \A t \in Slot \ {s} : login'[t] = login[t]
      /\ login'[s].phase = "idle" /\ UNCHANGED <<clock, dropped>>
  BY DEF WriteLock, Goes, ThrottleInv, ThrottleTypeOK, NoLogin
<1>4. CASE ~doc.exists
  BY <1>4, NothingBounds DEF WriteLock
<1>5. CASE doc.exists
  <2>1. PICK u \in Nat : u = q.now + Lock
    BY <1>2
  <2>2. /\ doc \in AttemptDoc /\ doc.count \in Nat /\ doc.windowStart \in Int
        /\ doc.lockedUntil \in Int
    BY <1>5, DocShape DEF ThrottleInv, NoLock, Time
  <2>3. /\ doc'.exists /\ doc'.count = doc.count /\ doc'.lockedUntil = u
        /\ doc'.windowStart = doc.windowStart /\ u # NoLock
    BY <1>1, <1>5, <2>1, <2>2 DEF WriteLock, LockedFor, AttemptDoc, NoLock
  <2>4. clock + MaxStall < u /\ clock < u /\ doc.windowStart <= clock
        /\ doc.windowStart + Window < u
    BY <1>2, <1>5, <2>1, <2>2 DEF BoundInv, Timely
  <2>5. \A t \in Slot : Failing(t) => login[t].now \in Nat /\ login[t].now <= clock
    BY LoginShape DEF ThrottleInv, Prompt, Time
  <2>6. Timely'
    <3> SUFFICES ASSUME NEW t \in Slot
                 PROVE  /\ login'[t].phase \in {"counting", "inserting", "recounting"} =>
                             login'[t].now < u
                        /\ login'[t].phase = "locking" => login'[t].now + MaxStall < u
      BY <1>3, <2>3, <2>4 DEF Timely
    <3>1. CASE t = s
      BY <1>3, <3>1
    <3>2. CASE t # s
      <4>1. login'[t] = login[t]
        BY <1>3, <3>2
      <4>2. CASE Failing(t)
        BY <1>2, <2>1, <2>4, <2>5, <4>1, <4>2
      <4>3. CASE ~Failing(t)
        BY <4>1, <4>3 DEF Failing
      <4> QED
        BY <4>2, <4>3
    <3> QED
      BY <3>1, <3>2
  <2>7. /\ Allowance \in Nat /\ Allowance' = Allowance /\ Cardinality(Slot) \in Nat
        /\ Cardinality(Locking) \in Nat /\ IsFiniteSet(Locking)
        /\ Cardinality(CanAdd) \in Nat /\ IsFiniteSet(CanAdd)
        /\ Cardinality(CanAdd') \in Nat /\ IsFiniteSet(CanAdd')
    BY <1>3, Sizes, InSlots DEF ThrottleInv
  <2>8. CASE doc.lockedUntil = NoLock
    <3>1. CanAdd' \subseteq Slot \ Locking
      BY <1>3 DEF CanAdd, Locking
    <3>2. /\ IsFiniteSet(Slot \ Locking)
          /\ Cardinality(Slot \ Locking) = Cardinality(Slot) - Cardinality(Locking)
      <4>1. IsFiniteSet(Slot)
        BY ThrottleAssumption DEF ThrottleAssumption
      <4>2. Slot \cap Locking = Locking
        BY InSlots
      <4> QED
        BY <4>1, <4>2, FS_Difference
    <3>3. Cardinality(CanAdd') <= Cardinality(Slot) - Cardinality(Locking)
      BY <3>1, <3>2, FS_Subset
    <3>4. doc.count <= Allowance + Cardinality(Locking)
      BY <1>5, <2>8 DEF BoundInv, Room
    <3>5. Room'
      BY <2>2, <2>3, <2>7, <3>3, <3>4 DEF Room
    <3> QED
      BY <2>6, <3>5 DEF BoundInv
  <2>9. CASE doc.lockedUntil # NoLock
    <3>1. clock < doc.lockedUntil
      <4>1. login[s].now + MaxStall < doc.lockedUntil
        BY <1>1, <1>2, <1>5, <2>9 DEF BoundInv, Timely
      <4> QED
        BY <1>1, <1>2, <2>2, <4>1
    <3>2. \A t \in Slot : login[t].phase = "restarting" => login[t].now < doc.lockedUntil
      <4> SUFFICES ASSUME NEW t \in Slot, login[t].phase = "restarting"
                   PROVE  login[t].now < doc.lockedUntil
        OBVIOUS
      <4>1. login[t].now \in Nat /\ login[t].now <= clock
        BY <2>5 DEF Failing
      <4> QED
        BY <1>2, <2>2, <3>1, <4>1
    <3>3. CanAdd' \subseteq CanAdd
      BY <1>3, <3>1, <3>2 DEF CanAdd
    <3>4. Cardinality(CanAdd') <= Cardinality(CanAdd)
      BY <2>7, <3>3, FS_Subset
    <3>5. doc.count + Cardinality(CanAdd) <= Allowance + Cardinality(Slot)
      BY <1>5, <2>9 DEF BoundInv, Room
    <3>6. Room'
      BY <2>2, <2>3, <2>7, <3>4, <3>5 DEF Room
    <3> QED
      BY <2>6, <3>6 DEF BoundInv
  <2> QED
    BY <2>8, <2>9
<1> QED
  BY <1>4, <1>5

\* Logins that end where they are leave the count.  A lock that one of them was
\* about to write is dropped, which the allowance counts.
LEMMA StopBounds ==
  ASSUME ThrottleInv, BoundInv, NEW S \in SUBSET Slot, Stop(S)
  PROVE  BoundInv'
<1> SUFFICES ASSUME doc'.exists PROVE BoundInv'
  BY NothingBounds
<1>1. /\ clock' = clock /\ dropped' = dropped + Cardinality(Locking \cap S)
      /\ \A t \in S : login'[t].phase = "idle"
      /\ \A t \in Slot \ S : login'[t] = login[t]
  BY DEF Stop, NoLogin
<1>2. /\ doc.exists /\ doc'.count = doc.count /\ doc'.windowStart = doc.windowStart
      /\ doc'.lockedUntil = doc.lockedUntil
  BY StopShape
<1>3. Timely'
  BY <1>1, <1>2 DEF BoundInv, Timely
<1>4. /\ Locking' = Locking \ S /\ CanAdd' \subseteq CanAdd
  BY <1>1, <1>2 DEF Locking, CanAdd
<1>5. /\ Allowance \in Nat /\ Cardinality(Slot) \in Nat /\ doc.count \in Nat
      /\ dropped \in Nat /\ Max \in Nat
      /\ IsFiniteSet(Locking) /\ Cardinality(Locking) \in Nat
      /\ IsFiniteSet(CanAdd) /\ Cardinality(CanAdd) \in Nat
      /\ Cardinality(CanAdd') \in Nat /\ Cardinality(Locking') \in Nat
  BY <1>2, Sizes, InSlots, DocShape, ThrottleAssumption DEF ThrottleInv, ThrottleAssumption
<1>6. PICK k \in Nat : k = Cardinality(Locking \cap S)
  BY Sizes, InSlots DEF ThrottleInv
<1>7. Cardinality(Locking') = Cardinality(Locking) - k
  BY <1>4, <1>5, <1>6, FS_Difference
<1>8. Allowance' = Allowance + k
  BY <1>1, <1>5, <1>6 DEF Allowance
<1>9. Cardinality(CanAdd') <= Cardinality(CanAdd)
  BY <1>4, <1>5, FS_Subset
<1>10. Room'
  BY <1>2, <1>5, <1>7, <1>8, <1>9 DEF BoundInv, Room
<1> QED
  BY <1>3, <1>10 DEF BoundInv

\* Time takes logins out of CanAdd.
LEMMA TickBounds ==
  ASSUME ThrottleInv, BoundInv, Tick
  PROVE  BoundInv'
<1>1. UNCHANGED <<doc, login, dropped>> /\ clock' = clock + 1 /\ clock \in Nat
  BY DEF Tick, ThrottleInv, ThrottleTypeOK, Time
<1>2. doc.exists => doc.windowStart \in Int /\ doc.lockedUntil \in Int
  BY DocShape DEF ThrottleInv, NoLock, Time
<1>3. Timely'
  BY <1>1, <1>2 DEF BoundInv, Timely
<1>4. Locking' = Locking
  BY <1>1 DEF Locking
<1>5. doc.exists => CanAdd' \subseteq CanAdd
  BY <1>1, <1>2 DEF CanAdd
<1> QED
  BY <1>1, <1>3, <1>4, <1>5, RoomWhenQuiet DEF BoundInv

LEMMA StepBounds ==
  StallsAreShort /\ ThrottleInv /\ BoundInv /\ [ThrottleNext]_throttleVars => BoundInv'
<1> SUFFICES ASSUME StallsAreShort, ThrottleInv, BoundInv, [ThrottleNext]_throttleVars
             PROVE  BoundInv'
  OBVIOUS
<1>1. ASSUME NEW s \in Slot, RecordFailure(s) PROVE BoundInv'
  <2>1. MissDocument(s) \/ FindNothing(s) => ~doc'.exists
    BY DEF MissDocument, FindNothing
  <2> QED
    BY <1>1, <2>1, NothingBounds, RestartWindowBounds, IncrementBounds,
       InsertDocumentBounds, LoseInsertBounds, WriteLockBounds DEF RecordFailure
<1>2. ASSUME NEW s \in Slot, Begin(s) \/ Succeed(s) \/ Fail(s) PROVE BoundInv'
  <2>1. Succeed(s) => ~doc'.exists
    BY DEF Succeed, Cleared, NoDoc
  <2> QED
    BY <1>2, <2>1, NothingBounds, BeginBounds
<1>3. Unlock \/ Purge => ~doc'.exists
  BY DEF Unlock, Purge, Cleared, NoDoc
<1>4. CASE Restart \/ \E s \in Slot : Break(s)
  <2>1. PICK S \in SUBSET Slot : Stop(S)
    BY <1>4 DEF Restart, Break
  <2> QED
    BY <2>1, StopBounds
<1>5. CASE UNCHANGED throttleVars
  <2>1. UNCHANGED <<clock, doc, login, dropped>>
    BY <1>5 DEF throttleVars
  <2> QED
    BY <2>1 DEF BoundInv, Timely, Room, Allowance, Locking, CanAdd
<1> QED
  BY <1>1, <1>2, <1>3, <1>4, <1>5, NothingBounds, TickBounds DEF ThrottleNext

\* The passwords tried in one window stay bounded: the limit, one more for each
\* login that can be under way, and one more for each lock that was due and never
\* written, because its access failed or the process restarted.  A login that
\* passed isBlocked before the lock was written is counted after it, and a lock
\* that ran out restarts the window before anything is counted again.
THEOREM TriesAreBounded == StallsAreShort => (ThrottleSpec => []TriesBounded)
<1> SUFFICES ASSUME StallsAreShort PROVE ThrottleSpec => []TriesBounded
  OBVIOUS
<1>1. ThrottleInit => BoundInv
  BY DEF ThrottleInit, NoDoc, BoundInv, Timely, Room
<1>2. ThrottleInv /\ BoundInv /\ [ThrottleNext]_throttleVars => BoundInv'
  BY StepBounds
<1>3. ThrottleInv /\ BoundInv => TriesBounded
  <2> SUFFICES ASSUME ThrottleInv, BoundInv, doc.exists
               PROVE  doc.count <= Max - 1 + Cardinality(Slot) + dropped
    BY DEF TriesBounded
  <2>1. /\ Max - 1 + Cardinality(Slot) + dropped = Allowance + Cardinality(Slot)
        /\ Allowance \in Nat /\ Cardinality(Slot) \in Nat
        /\ Cardinality(Locking) \in Nat /\ Cardinality(Locking) <= Cardinality(Slot)
        /\ Cardinality(CanAdd) \in Nat /\ doc.count \in Nat
    BY Sizes, InSlots, DocShape DEF ThrottleInv
  <2>2. doc.count <= Allowance + Cardinality(Slot)
    BY <2>1 DEF BoundInv, Room
  <2> QED
    BY <2>1, <2>2
<1> QED
  BY <1>1, <1>2, <1>3, Inductive, PTL DEF ThrottleSpec
===============================================================================
