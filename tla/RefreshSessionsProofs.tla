------------------------ MODULE RefreshSessionsProofs ------------------------
(***************************************************************************)
(* Proofs about RefreshSessions, for any number of logins, tokens and      *)
(* concurrent requests, and any durations.                                 *)
(***************************************************************************)
EXTENDS RefreshSessions, TLAPS

HandlerType == {Idle} \cup Finding \cup Rotating \cup Revoking \cup Answering
RowType == {Unissued, Purged} \cup Row
LoginType == [phase : {"none"}] \cup [phase : {"read"}, version : Nat]
              \cup [phase : {"started"}, version : Nat, sessionEnd : Nat]

-------------------------------------------------------------------------------
(* Types.                                                                  *)

\* A phase tells the shape of a request.
LEMMA HandlerShapes ==
  ASSUME TypeOK, NEW h \in Handler
  PROVE  /\ handler[h].phase = "find" => handler[h] \in Finding
         /\ handler[h].phase \in {"load", "claim", "create"}
              => handler[h] \in Rotating
         /\ handler[h].phase = "revoke" => handler[h] \in Revoking
         /\ handler[h].phase = "answer" => handler[h] \in Answering
BY DEF TypeOK, Idle, Finding, Rotating, Revoking, Answering

LEMMA RowShape ==
  ASSUME TypeOK, NEW t \in Token, rows[t].state = "stored"
  PROVE  rows[t] \in Row
BY DEF TypeOK, Unissued, Purged

LEMMA LoginTypeOK ==
  ASSUME TypeOK, NEW f \in Family,
         ReadUser(f) \/ \E t \in Token : StartSession(f, t)
  PROVE  TypeOK'
<1>1. CASE ReadUser(f)
  BY <1>1 DEF ReadUser, TypeOK
<1>2. ASSUME NEW t \in Token, StartSession(f, t) PROVE TypeOK'
  <2>1. login[f].version \in Nat
    BY <1>2 DEF StartSession, TypeOK
  <2>2. now + SessionMax \in Nat /\ now + IdleMax \in Nat
    BY SessionAssumption DEF SessionAssumption, TypeOK
  <2>3. [state |-> "stored", family |-> f, version |-> login[f].version,
         sessionEnd |-> now + SessionMax, idleEnd |-> now + IdleMax,
         rotatedAt |-> Never, revoked |-> "no"] \in Row
    BY <2>1, <2>2 DEF Row
  <2> QED
    BY <1>2, <2>1, <2>2, <2>3 DEF StartSession, TypeOK
<1> QED
  BY <1>1, <1>2

LEMMA HandlerTypeOK ==
  ASSUME TypeOK, NEW h \in Handler, HandlerStep(h)
  PROVE  TypeOK'
<1> USE DEF HandlerType, RowType
<1>1. ASSUME NEW f \in Family, NEW kind \in {"rotate", "logout"},
             Present(h, f, kind)
      PROVE  TypeOK'
  <2>1. [phase |-> "find", kind |-> kind, token |-> holds[f], at |-> now]
          \in Finding
    BY <1>1 DEF Present, TypeOK, Finding
  <2> QED
    BY <1>1, <2>1 DEF Present, TypeOK
<1>2. ASSUME NEW t \in Token, PresentCopy(h, t) PROVE TypeOK'
  <2>1. [phase |-> "find", kind |-> "rotate", token |-> t, at |-> now] \in Finding
    BY DEF TypeOK, Finding
  <2>2. rows[t].family \in Family
    BY <1>2, RowShape DEF PresentCopy, Row
  <2> QED
    BY <1>2, <2>1, <2>2 DEF PresentCopy, TypeOK
<1>3. ASSUME NEW f \in Family, NEW reason \in Reasons, Revokes(h, f, reason),
             UNCHANGED <<now, account, rows, login, holds, copied>>
      PROVE  TypeOK'
  <2>1. [phase |-> "revoke", family |-> f, reason |-> reason] \in Revoking
    BY DEF Revoking
  <2> QED
    BY <1>3, <2>1 DEF Revokes, TypeOK
<1>4. ASSUME handler' = [handler EXCEPT ![h] = Idle],
             UNCHANGED <<now, account, rows, login, holds, copied>>
      PROVE  TypeOK'
  BY <1>4 DEF TypeOK
<1>5. CASE FindForLogout(h)
  <2>1. handler[h].token \in Token
    BY <1>5, HandlerShapes DEF FindForLogout, Finding
  <2>2. rows[handler[h].token].state = "stored"
          => rows[handler[h].token].family \in Family
    BY <2>1, RowShape DEF Row
  <2> QED
    BY <1>3, <1>4, <1>5, <2>2 DEF FindForLogout, Reasons
<1>6. CASE FindForRotation(h)
  <2> DEFINE t == handler[h].token
             next == [phase |-> "load", token |-> t, at |-> handler[h].at,
                      family |-> rows[t].family, version |-> rows[t].version,
                      sessionEnd |-> rows[t].sessionEnd]
  <2>1. t \in Token /\ handler[h].at \in Nat
    BY <1>6, HandlerShapes DEF FindForRotation, Finding
  <2>2. CASE Usable(t)
    <3>1. rows[t] \in Row
      BY <2>1, <2>2, RowShape DEF Usable
    <3>2. rows[t].family \in Family /\ next \in Rotating
      BY <2>1, <3>1 DEF Row, Rotating
    <3>3. CASE handler' = [handler EXCEPT ![h] = next]
      BY <1>6, <3>2, <3>3 DEF FindForRotation, TypeOK
    <3> QED
      BY <1>3, <1>4, <1>6, <2>2, <3>2, <3>3 DEF FindForRotation, Reasons
  <2>3. CASE ~Usable(t)
    BY <1>4, <1>6, <2>3 DEF FindForRotation
  <2> QED
    BY <2>2, <2>3
<1>7. CASE LoadUser(h)
  <2>1. handler[h] \in Rotating
    BY <1>7, HandlerShapes DEF LoadUser
  <2>2. [handler[h] EXCEPT !.phase = "claim"] \in Rotating
    BY <2>1 DEF Rotating
  <2>3. handler[h].family \in Family
    BY <2>1 DEF Rotating
  <2>4. CASE handler' = [handler EXCEPT ![h].phase = "claim"]
    BY <1>7, <2>2, <2>4 DEF LoadUser, TypeOK
  <2> QED
    BY <1>3, <1>7, <2>3, <2>4 DEF LoadUser, Reasons
<1>8. CASE Revoke(h)
  <2>1. handler[h].reason \in Reasons
    BY <1>8, HandlerShapes DEF Revoke, Revoking
  <2>2. \A t \in Token : rows[t].state = "stored" =>
          [rows[t] EXCEPT !.revoked = handler[h].reason] \in Row
    BY <2>1, RowShape DEF Row
  <2>3. rows' \in [Token -> RowType]
    BY <1>8, <2>2 DEF Revoke, TypeOK
  <2> QED
    BY <1>8, <2>3 DEF Revoke, TypeOK
<1>9. CASE Claim(h)
  <2> DEFINE t == handler[h].token
  <2>1. handler[h] \in Rotating
    BY <1>9, HandlerShapes DEF Claim
  <2>2. t \in Token /\ handler[h].at \in Nat
    BY <2>1 DEF Rotating
  <2>3. [handler[h] EXCEPT !.phase = "create"] \in Rotating
    BY <2>1 DEF Rotating
  <2>4. CASE Claimable(t)
    <3>1. [rows[t] EXCEPT !.rotatedAt = handler[h].at] \in Row
      BY <2>2, <2>4, RowShape DEF Claimable, Live, Usable, Row
    <3>2. rows' \in [Token -> RowType]
      BY <1>9, <2>4, <3>1 DEF Claim, TypeOK
    <3>3. handler' \in [Handler -> HandlerType]
      BY <1>9, <2>3, <2>4 DEF Claim, TypeOK
    <3> QED
      BY <1>9, <3>2, <3>3 DEF Claim, TypeOK
  <2>5. CASE ~Claimable(t)
    BY <1>4, <1>9, <2>5 DEF Claim
  <2> QED
    BY <2>4, <2>5
<1>10. ASSUME NEW t \in Token, Create(h, t) PROVE TypeOK'
  <2>1. handler[h] \in Rotating
    BY <1>10, HandlerShapes DEF Create
  <2>2. handler[h].at + IdleMax \in Nat
    BY <2>1, SessionAssumption DEF SessionAssumption, Rotating
  <2>3. Successor(h) \in Row
    BY <2>1, <2>2 DEF Successor, Smaller, Rotating, Row
  <2>4. [phase |-> "answer", family |-> handler[h].family, token |-> t]
          \in Answering
    BY <2>1 DEF Rotating, Answering
  <2> QED
    BY <1>10, <2>3, <2>4 DEF Create, TypeOK
<1>11. CASE Deliver(h)
  <2>1. handler[h].family \in Family /\ handler[h].token \in Token
    BY <1>11, HandlerShapes DEF Deliver, Answering
  <2> QED
    BY <1>11, <2>1 DEF Deliver, TypeOK
<1>12. CASE Lose(h)
  BY <1>4, <1>12 DEF Lose
<1> QED
  BY <1>1, <1>2, <1>5, <1>6, <1>7, <1>8, <1>9, <1>10, <1>11, <1>12 DEF HandlerStep

\* What is neither a login nor a request.
Surroundings ==
  \/ \E usable \in BOOLEAN : ChangeAccount(usable)
  \/ Reactivate
  \/ Tick
  \/ \E t \in Token : Purge(t)

LEMMA SurroundingsTypeOK == TypeOK /\ Surroundings => TypeOK'
<1> SUFFICES ASSUME TypeOK, Surroundings PROVE TypeOK'
  OBVIOUS
<1>1. ASSUME NEW usable \in BOOLEAN, ChangeAccount(usable) PROVE TypeOK'
  <2>1. account.version + 1 \in Nat
    BY DEF TypeOK
  <2> QED
    BY <1>1, <2>1 DEF ChangeAccount, TypeOK
<1>2. CASE Reactivate
  BY <1>2 DEF Reactivate, TypeOK
<1>3. CASE Tick
  BY <1>3 DEF Tick, TypeOK
<1>4. ASSUME NEW t \in Token, Purge(t) PROVE TypeOK'
  BY <1>4 DEF Purge, TypeOK
<1> QED
  BY <1>1, <1>2, <1>3, <1>4 DEF Surroundings

LEMMA NextTypeOK == TypeOK /\ [Next]_vars => TypeOK'
<1> SUFFICES ASSUME TypeOK, [Next]_vars PROVE TypeOK'
  OBVIOUS
<1>1. CASE UNCHANGED vars
  BY <1>1 DEF vars, TypeOK
<1> QED
  BY <1>1, LoginTypeOK, HandlerTypeOK, SurroundingsTypeOK DEF Next, Surroundings

LEMMA InitTypeOK == Init => TypeOK
BY DEF Init, TypeOK

\* Rows, clients and requests keep the shapes of their phases, however many there
\* are and whatever is lost, purged or revoked.
THEOREM TypeCorrect == Spec => []TypeOK
BY InitTypeOK, NextTypeOK, PTL DEF Spec

-------------------------------------------------------------------------------
(* The inductive invariant.                                                *)

Alive(f, t) == Live(t) /\ rows[t].family = f
Creating(f, h) == handler[h].phase = "create" /\ handler[h].family = f

\* OneHeir, element by element.
HeirsApart ==
  /\ \A f \in Family, t, u \in Token : Alive(f, t) /\ Alive(f, u) => t = u
  /\ \A f \in Family, g, h \in Handler : Creating(f, g) /\ Creating(f, h) => g = h
  /\ \A f \in Family, t \in Token, h \in Handler : ~ (Alive(f, t) /\ Creating(f, h))

\* A token that somebody has is never issued again.
TokensIssued ==
  /\ \A f \in Family : holds[f] # NoToken => ~Fresh(holds[f])
  /\ \A h \in Handler :
       handler[h].phase \in {"find", "load", "claim", "create", "answer"}
         => ~Fresh(handler[h].token)

\* A rotation carries what it read of its row, and a row never changes family.
RotationsMatch ==
  \A h \in Handler : handler[h].phase \in {"load", "claim", "create"} =>
    LET start == login[handler[h].family] IN
    /\ start.phase = "started"
    /\ handler[h].version = start.version
    /\ handler[h].sessionEnd = start.sessionEnd
    /\ rows[handler[h].token].state = "stored"
         => rows[handler[h].token].family = handler[h].family

IInv ==
  /\ TypeOK
  /\ HeirsApart
  /\ TokensIssued
  /\ RotationsMatch
  /\ RenewalKeepsLogin

LEMMA HeirsShape == HeirsApart <=> OneHeir
<1>1. ASSUME HeirsApart PROVE OneHeir
  <2> SUFFICES ASSUME NEW f \in Family, NEW x \in Heirs(f), NEW y \in Heirs(f)
               PROVE  x = y
    BY DEF OneHeir
  <2>1. \/ \E t \in Token : x = <<"row", t>> /\ Alive(f, t)
        \/ \E h \in Handler : x = <<"rotation", h>> /\ Creating(f, h)
    BY DEF Heirs, Alive, Creating
  <2>2. \/ \E t \in Token : y = <<"row", t>> /\ Alive(f, t)
        \/ \E h \in Handler : y = <<"rotation", h>> /\ Creating(f, h)
    BY DEF Heirs, Alive, Creating
  <2> QED
    BY <1>1, <2>1, <2>2 DEF HeirsApart
<1>2. ASSUME OneHeir PROVE HeirsApart
  <2>1. \A f \in Family, t \in Token : Alive(f, t) => <<"row", t>> \in Heirs(f)
    BY DEF Heirs, Alive
  <2>2. \A f \in Family, h \in Handler :
          Creating(f, h) => <<"rotation", h>> \in Heirs(f)
    BY DEF Heirs, Creating
  <2>3. \A t \in Token, h \in Handler : <<"row", t>> # <<"rotation", h>>
    OBVIOUS
  <2>4. ASSUME NEW f \in Family, NEW t \in Token, NEW u \in Token,
               Alive(f, t), Alive(f, u)
        PROVE  t = u
    <3>1. <<"row", t>> = <<"row", u>>
      BY <1>2, <2>1, <2>4 DEF OneHeir
    <3> QED
      BY <3>1
  <2>5. ASSUME NEW f \in Family, NEW g \in Handler, NEW h \in Handler,
               Creating(f, g), Creating(f, h)
        PROVE  g = h
    <3>1. <<"rotation", g>> = <<"rotation", h>>
      BY <1>2, <2>2, <2>5 DEF OneHeir
    <3> QED
      BY <3>1
  <2>6. ASSUME NEW f \in Family, NEW t \in Token, NEW h \in Handler,
               Alive(f, t), Creating(f, h)
        PROVE  FALSE
    BY <1>2, <2>1, <2>2, <2>3, <2>6 DEF OneHeir
  <2> QED
    BY <2>4, <2>5, <2>6 DEF HeirsApart
<1> QED
  BY <1>1, <1>2

LEMMA NoHeirShape ==
  ASSUME NEW f \in Family
  PROVE  Heirs(f) = {} <=> /\ \A t \in Token : ~Alive(f, t)
                           /\ \A h \in Handler : ~Creating(f, h)
<1>1. \A t \in Token : Alive(f, t) => <<"row", t>> \in Heirs(f)
  BY DEF Heirs, Alive
<1>2. \A h \in Handler : Creating(f, h) => <<"rotation", h>> \in Heirs(f)
  BY DEF Heirs, Creating
<1>3. \A x \in Heirs(f) : \/ \E t \in Token : Alive(f, t)
                          \/ \E h \in Handler : Creating(f, h)
  BY DEF Heirs, Alive, Creating
<1> QED
  BY <1>1, <1>2, <1>3

\* What a step may do to the heirs of a session: take some away, pass the one
\* from a row to the rotation that claims it or from there to a new row, or
\* give one to a login that has none.
Shrinks == \A f \in Family :
  /\ \A t \in Token : Alive(f, t)' => Alive(f, t)
  /\ \A h \in Handler : Creating(f, h)' => Creating(f, h)

Passes(f) ==
  \/ \E t \in Token, h \in Handler :
       /\ Alive(f, t)
       /\ \A u \in Token : Alive(f, u)' => Alive(f, u) /\ u # t
       /\ \A g \in Handler : Creating(f, g)' => Creating(f, g) \/ g = h
  \/ \E t \in Token, h \in Handler :
       /\ Creating(f, h)
       /\ \A u \in Token : Alive(f, u)' => Alive(f, u) \/ u = t
       /\ \A g \in Handler : Creating(f, g)' => Creating(f, g) /\ g # h

Starts(f) ==
  /\ login[f].phase # "started"
  /\ \E t \in Token : \A u \in Token : Alive(f, u)' => Alive(f, u) \/ u = t
  /\ \A g \in Handler : Creating(f, g)' => Creating(f, g)

HeirStep ==
  \/ Shrinks
  \/ \E f \in Family :
       /\ Passes(f) \/ Starts(f)
       /\ \A e \in Family \ {f} : /\ \A t \in Token : Alive(e, t)' => Alive(e, t)
                                  /\ \A h \in Handler :
                                       Creating(e, h)' => Creating(e, h)

\* Before its login is complete a session has no heir.
LEMMA NoHeirBeforeLogin ==
  ASSUME IInv, NEW f \in Family, login[f].phase # "started"
  PROVE  /\ \A t \in Token : ~Alive(f, t)
         /\ \A h \in Handler : ~Creating(f, h)
BY DEF IInv, RenewalKeepsLogin, RotationsMatch, Alive, Creating, Live, Usable

LEMMA HeirStepKeepsApart ==
  ASSUME IInv, HeirStep
  PROVE  HeirsApart'
<1>1. CASE Shrinks
  BY <1>1 DEF IInv, HeirsApart, Shrinks
<1>2. ASSUME NEW f \in Family, Passes(f) \/ Starts(f),
             \A e \in Family \ {f} : /\ \A t \in Token : Alive(e, t)' => Alive(e, t)
                                     /\ \A h \in Handler :
                                          Creating(e, h)' => Creating(e, h)
      PROVE  HeirsApart'
  <2> DEFINE ApartIn(e) ==
        /\ \A t, u \in Token : Alive(e, t)' /\ Alive(e, u)' => t = u
        /\ \A g, h \in Handler : Creating(e, g)' /\ Creating(e, h)' => g = h
        /\ \A t \in Token, h \in Handler : ~ (Alive(e, t)' /\ Creating(e, h)')
  <2>1. ASSUME NEW e \in Family \ {f} PROVE ApartIn(e)
    BY <1>2, <2>1 DEF IInv, HeirsApart
  <2>2. CASE Passes(f)
    <3>1. ApartIn(f)
      BY <2>2 DEF IInv, HeirsApart, Passes
    <3> QED
      BY <2>1, <3>1 DEF HeirsApart
  <2>3. CASE Starts(f)
    <3>1. ApartIn(f)
      BY <2>3, NoHeirBeforeLogin DEF Starts
    <3> QED
      BY <2>1, <3>1 DEF HeirsApart
  <2> QED
    BY <1>2, <2>2, <2>3
<1> QED
  BY <1>1, <1>2 DEF HeirStep

LEMMA UnseenByHeirs ==
  ASSUME UNCHANGED rows,
         \A h \in Handler : handler'[h].phase = "create" => handler'[h] = handler[h]
  PROVE  Shrinks
BY DEF Shrinks, Alive, Creating, Live, Usable

\* Every step does to heirs what HeirStep allows.
LEMMA NextHeirStep ==
  ASSUME IInv, [Next]_vars
  PROVE  HeirStep
<1> USE DEF IInv
<1>1. CASE UNCHANGED vars
  BY <1>1, UnseenByHeirs DEF vars, HeirStep
<1>2. ASSUME NEW f \in Family, ReadUser(f) PROVE HeirStep
  BY <1>2, UnseenByHeirs DEF ReadUser, HeirStep
<1>3. ASSUME NEW f \in Family, NEW t \in Token, StartSession(f, t) PROVE HeirStep
  <2>1. \A u \in Token : u # t => rows'[u] = rows[u]
    BY <1>3 DEF StartSession, TypeOK
  <2>2. rows'[t].family = f /\ handler' = handler /\ login[f].phase # "started"
    BY <1>3 DEF StartSession, TypeOK
  <2>3. Starts(f)
    BY <2>1, <2>2 DEF Starts, Alive, Creating, Live, Usable
  <2>4. \A e \in Family \ {f} : /\ \A u \in Token : Alive(e, u)' => Alive(e, u)
                                /\ \A h \in Handler :
                                     Creating(e, h)' => Creating(e, h)
    BY <2>1, <2>2 DEF Alive, Creating, Live, Usable
  <2> QED
    BY <2>3, <2>4 DEF HeirStep
<1>4. ASSUME NEW h \in Handler,
             \/ \E f \in Family, kind \in {"rotate", "logout"} : Present(h, f, kind)
             \/ \E t \in Token : PresentCopy(h, t)
             \/ FindForLogout(h) \/ FindForRotation(h) \/ LoadUser(h)
             \/ Deliver(h) \/ Lose(h)
      PROVE  HeirStep
  <2>1. UNCHANGED rows
    BY <1>4 DEF Present, PresentCopy, FindForLogout, FindForRotation, LoadUser,
                Deliver, Lose
  <2>2. \A g \in Handler : g # h => handler'[g] = handler[g]
    BY <1>4 DEF Present, PresentCopy, FindForLogout, FindForRotation, LoadUser,
                Deliver, Lose, Revokes, TypeOK
  <2>3. CASE LoadUser(h)
    <3>1. handler[h] \in Rotating
      BY <2>3, HandlerShapes DEF LoadUser
    <3>2. handler'[h].phase # "create"
      BY <2>3, <3>1 DEF LoadUser, Revokes, TypeOK, Rotating
    <3> QED
      BY <2>1, <2>2, <3>2, UnseenByHeirs DEF HeirStep
  <2>4. CASE ~LoadUser(h)
    <3>1. handler'[h].phase # "create"
      BY <1>4, <2>4 DEF Present, PresentCopy, FindForLogout, FindForRotation,
                        Deliver, Lose, Revokes, TypeOK, Idle
    <3> QED
      BY <2>1, <2>2, <3>1, UnseenByHeirs DEF HeirStep
  <2> QED
    BY <2>3, <2>4
<1>5. ASSUME NEW h \in Handler, Revoke(h) PROVE HeirStep
  <2>1. \A t \in Token : rows'[t] = rows[t] \/ rows'[t].revoked # "no"
    <3>1. handler[h].reason # "no"
      BY <1>5, HandlerShapes DEF Revoke, Revoking, Reasons
    <3>2. \A t \in Token : rows[t].state = "stored" =>
            [rows[t] EXCEPT !.revoked = handler[h].reason].revoked
              = handler[h].reason
      BY RowShape DEF Row
    <3> QED
      BY <1>5, <3>1, <3>2 DEF Revoke, TypeOK
  <2>2. \A g \in Handler : handler'[g].phase = "create" => handler'[g] = handler[g]
    BY <1>5 DEF Revoke, TypeOK, Idle
  <2> QED
    BY <2>1, <2>2 DEF HeirStep, Shrinks, Alive, Creating, Live, Usable
<1>6. ASSUME NEW h \in Handler, Claim(h) PROVE HeirStep
  <2>0. handler[h] \in Rotating
    BY <1>6, HandlerShapes DEF Claim
  <2> PICK t \in Token, f \in Family : t = handler[h].token /\ f = handler[h].family
    BY <2>0 DEF Rotating
  <2>1. /\ handler[h] \in Rotating
        /\ t = handler[h].token /\ f = handler[h].family
    BY <2>0
  <2>2. CASE Claimable(t)
    <3>1. Alive(f, t)
      BY <1>6, <2>1, <2>2
         DEF Claim, Claimable, Alive, RotationsMatch, Live, Usable
    <3>2. rows[t] \in Row
      BY <2>1, <2>2, RowShape DEF Claimable, Live, Usable
    <3>3. /\ rows'[t].rotatedAt = handler[h].at /\ rows'[t].family = rows[t].family
          /\ \A u \in Token : u # t => rows'[u] = rows[u]
      BY <1>6, <2>1, <2>2, <3>2 DEF Claim, TypeOK, Row
    <3>4. rows'[t].rotatedAt # Never
      BY <2>1, <3>3 DEF Rotating, Never
    <3>5. /\ handler'[h].family = f
          /\ \A g \in Handler : g # h => handler'[g] = handler[g]
      BY <1>6, <2>1, <2>2 DEF Claim, TypeOK, Rotating
    <3>6. Passes(f)
      <4>1. \A u \in Token : Alive(f, u)' => Alive(f, u) /\ u # t
        BY <3>3, <3>4 DEF Alive, Live, Usable
      <4>2. \A g \in Handler : Creating(f, g)' => Creating(f, g) \/ g = h
        BY <3>5 DEF Creating
      <4> QED
        BY <2>1, <3>1, <4>1, <4>2 DEF Passes
    <3>7. \A e \in Family \ {f} : /\ \A u \in Token : Alive(e, u)' => Alive(e, u)
                                  /\ \A g \in Handler :
                                       Creating(e, g)' => Creating(e, g)
      BY <3>3, <3>4, <3>5 DEF Alive, Creating, Live, Usable
    <3> QED
      BY <2>1, <3>6, <3>7 DEF HeirStep
  <2>3. CASE ~Claimable(t)
    <3>1. \A g \in Handler : handler'[g].phase = "create" => handler'[g] = handler[g]
      BY <1>6, <2>3 DEF Claim, TypeOK, Idle
    <3> QED
      BY <1>6, <2>3, <3>1, UnseenByHeirs DEF Claim, HeirStep
  <2> QED
    BY <2>2, <2>3
<1>7. ASSUME NEW h \in Handler, NEW t \in Token, Create(h, t) PROVE HeirStep
  <2>0. handler[h] \in Rotating
    BY <1>7, HandlerShapes DEF Create
  <2> PICK f \in Family : f = handler[h].family
    BY <2>0 DEF Rotating
  <2>1. handler[h] \in Rotating /\ f = handler[h].family
    BY <2>0
  <2>2. Creating(f, h)
    BY <1>7 DEF Create, Creating
  <2>3. /\ rows'[t].family = f
        /\ \A u \in Token : u # t => rows'[u] = rows[u]
    BY <1>7 DEF Create, Successor, TypeOK
  <2>4. /\ handler'[h].phase = "answer"
        /\ \A g \in Handler : g # h => handler'[g] = handler[g]
    BY <1>7 DEF Create, TypeOK
  <2>5. Passes(f)
    <3>1. \A u \in Token : Alive(f, u)' => Alive(f, u) \/ u = t
      BY <2>3 DEF Alive, Live, Usable
    <3>2. \A g \in Handler : Creating(f, g)' => Creating(f, g) /\ g # h
      BY <2>4 DEF Creating
    <3> QED
      BY <2>2, <3>1, <3>2 DEF Passes
  <2>6. \A e \in Family \ {f} : /\ \A u \in Token : Alive(e, u)' => Alive(e, u)
                                /\ \A g \in Handler :
                                     Creating(e, g)' => Creating(e, g)
    BY <2>3, <2>4 DEF Alive, Creating, Live, Usable
  <2> QED
    BY <2>1, <2>5, <2>6 DEF HeirStep
<1>8. CASE Surroundings
  <2>1. ASSUME NEW t \in Token, Purge(t) PROVE HeirStep
    <3>1. \A u \in Token : rows'[u] = rows[u] \/ rows'[u].state # "stored"
      BY <2>1 DEF Purge, TypeOK, Purged
    <3> QED
      BY <2>1, <3>1 DEF Purge, HeirStep, Shrinks, Alive, Creating, Live, Usable
  <2> QED
    BY <1>8, <2>1, UnseenByHeirs
       DEF Surroundings, ChangeAccount, Reactivate, Tick, HeirStep
<1> QED
  BY <1>1, <1>2, <1>3, <1>4, <1>5, <1>6, <1>7, <1>8
     DEF Next, HandlerStep, Surroundings

-------------------------------------------------------------------------------
(* The rest of the invariant.                                              *)

\* What every step keeps of a row: once issued it stays issued, and while it is
\* stored it keeps its family, its end and its version.
RowsKept == \A t \in Token :
  /\ ~Fresh(t) => ~Fresh(t)'
  /\ ~Fresh(t) /\ rows'[t].state = "stored" =>
       /\ rows[t].state = "stored"
       /\ rows'[t].family = rows[t].family
       /\ rows'[t].sessionEnd = rows[t].sessionEnd
       /\ rows'[t].idleEnd = rows[t].idleEnd
       /\ rows'[t].version = rows[t].version

LEMMA NextRowsKept ==
  ASSUME TypeOK, [Next]_vars
  PROVE  RowsKept
<1>1. CASE UNCHANGED rows
  BY <1>1 DEF RowsKept, Fresh
<1>2. ASSUME NEW t \in Token, NEW row, row.state = "stored", Fresh(t),
             rows' = [rows EXCEPT ![t] = row]
      PROVE  RowsKept
  BY <1>2 DEF RowsKept, Fresh, TypeOK, Unissued
<1>3. ASSUME NEW f \in Family, NEW t \in Token, StartSession(f, t) PROVE RowsKept
  BY <1>2, <1>3 DEF StartSession
<1>4. ASSUME NEW h \in Handler, NEW t \in Token, Create(h, t) PROVE RowsKept
  <2>1. Successor(h).state = "stored"
    BY DEF Successor
  <2> QED
    BY <1>2, <1>4, <2>1 DEF Create
<1>5. ASSUME NEW h \in Handler, Revoke(h) PROVE RowsKept
  <2>1. \A t \in Token : rows[t].state = "stored" =>
          LET row == [rows[t] EXCEPT !.revoked = handler[h].reason] IN
          /\ row.state = "stored" /\ row.family = rows[t].family
          /\ row.sessionEnd = rows[t].sessionEnd /\ row.idleEnd = rows[t].idleEnd
          /\ row.version = rows[t].version
    BY RowShape DEF Row
  <2> QED
    BY <1>5, <2>1 DEF Revoke, RowsKept, Fresh, Unissued
<1>6. ASSUME NEW h \in Handler, Claim(h), Claimable(handler[h].token)
      PROVE  RowsKept
  <2>0. handler[h].token \in Token
    BY <1>6, HandlerShapes DEF Claim, Rotating
  <2> PICK t \in Token : t = handler[h].token
    BY <2>0
  <2>1. PICK row : row = [rows[t] EXCEPT !.rotatedAt = handler[h].at]
    OBVIOUS
  <2>2. /\ rows[t].state = "stored"
        /\ row.state = "stored" /\ row.family = rows[t].family
        /\ row.sessionEnd = rows[t].sessionEnd /\ row.idleEnd = rows[t].idleEnd
        /\ row.version = rows[t].version
    BY <1>6, <2>1, RowShape DEF Claimable, Live, Usable, Row
  <2>3. rows' = [rows EXCEPT ![t] = row]
    BY <1>6, <2>1 DEF Claim
  <2> QED
    BY <2>2, <2>3 DEF RowsKept, Fresh, Unissued, TypeOK
<1>7. ASSUME NEW t \in Token, Purge(t) PROVE RowsKept
  BY <1>7 DEF Purge, RowsKept, Fresh, Purged, Unissued, TypeOK
<1> QED
  BY <1>1, <1>3, <1>4, <1>5, <1>6, <1>7
     DEF Next, HandlerStep, ReadUser, Present, PresentCopy, FindForLogout,
         FindForRotation, LoadUser, Claim, Deliver, Lose, ChangeAccount,
         Reactivate, Tick, vars

\* A login that has started its session keeps what it fixed.
LEMMA LoginsKept ==
  ASSUME TypeOK, [Next]_vars, NEW f \in Family, login[f].phase = "started"
  PROVE  login'[f] = login[f]
BY DEF Next, HandlerStep, ReadUser, StartSession, Present, PresentCopy,
       FindForLogout, FindForRotation, LoadUser, Revoke, Claim, Create, Deliver,
       Lose, ChangeAccount, Reactivate, Tick, Purge, vars, TypeOK

\* Where the token of a request comes from.
LEMMA RequestTokens ==
  ASSUME TypeOK, [Next]_vars, NEW h \in Handler,
         handler'[h].phase \in {"find", "load", "claim", "create", "answer"}
  PROVE  \/ handler'[h] = handler[h]
         \/ /\ handler[h].phase \in {"find", "load", "claim"}
            /\ handler'[h].token = handler[h].token
         \/ \E f \in Family : holds[f] # NoToken /\ handler'[h].token = holds[f]
         \/ rows'[handler'[h].token] # Unissued
<1> DEFINE Goal ==
         \/ handler'[h] = handler[h]
         \/ /\ handler[h].phase \in {"find", "load", "claim"}
            /\ handler'[h].token = handler[h].token
         \/ \E f \in Family : holds[f] # NoToken /\ handler'[h].token = holds[f]
         \/ rows'[handler'[h].token] # Unissued
<1>1. CASE UNCHANGED handler
  BY <1>1
<1>2. ASSUME NEW g \in Handler, HandlerStep(g), g # h PROVE Goal
  <2>1. handler'[h] = handler[h]
    BY <1>2 DEF HandlerStep, Present, PresentCopy, FindForLogout, FindForRotation,
                LoadUser, Revoke, Claim, Create, Deliver, Lose, Revokes, TypeOK
  <2> QED
    BY <2>1
<1>3. ASSUME NEW f \in Family, NEW kind \in {"rotate", "logout"},
             Present(h, f, kind)
      PROVE  Goal
  <2>1. holds[f] # NoToken /\ handler'[h].token = holds[f]
    BY <1>3 DEF Present, TypeOK
  <2> QED
    BY <2>1
<1>4. ASSUME NEW t \in Token, PresentCopy(h, t) PROVE Goal
  <2>1. handler'[h].token = t /\ rows' = rows /\ rows[t].state = "stored"
    BY <1>4 DEF PresentCopy, TypeOK
  <2> QED
    BY <2>1 DEF Unissued
<1>5. ASSUME NEW t \in Token, Create(h, t) PROVE Goal
  <2>1. handler'[h].token = t
    BY <1>5 DEF Create, TypeOK
  <2>2. rows'[t].state = "stored"
    BY <1>5 DEF Create, Successor, TypeOK
  <2> QED
    BY <2>1, <2>2 DEF Unissued
<1>6. CASE FindForRotation(h)
  BY <1>6 DEF FindForRotation, Revokes, TypeOK, Idle
<1>7. CASE LoadUser(h) \/ Claim(h)
  <2>1. handler[h] \in Rotating
    BY <1>7, HandlerShapes DEF LoadUser, Claim
  <2> QED
    BY <1>7, <2>1 DEF LoadUser, Claim, Revokes, TypeOK, Idle, Rotating
<1>8. CASE FindForLogout(h) \/ Revoke(h) \/ Deliver(h) \/ Lose(h)
  BY <1>8 DEF FindForLogout, Revoke, Deliver, Lose, Revokes, TypeOK, Idle
<1> QED
  BY <1>1, <1>2, <1>3, <1>4, <1>5, <1>6, <1>7, <1>8
     DEF Next, HandlerStep, ReadUser, StartSession, ChangeAccount, Reactivate,
         Tick, Purge, vars

LEMMA NextTokensIssued ==
  ASSUME IInv, [Next]_vars
  PROVE  TokensIssued'
<1> USE DEF IInv
<1>1. RowsKept /\ TypeOK'
  BY NextRowsKept, NextTypeOK
<1>2. ASSUME NEW h \in Handler,
             handler'[h].phase \in {"find", "load", "claim", "create", "answer"}
      PROVE  rows'[handler'[h].token] # Unissued
  <2>1. handler'[h].token \in Token
    <3>1. handler'[h] \in Finding \cup Rotating \cup Answering
      BY <1>1, <1>2 DEF TypeOK, Idle, Revoking
    <3> QED
      BY <3>1 DEF Finding, Rotating, Answering
  <2> QED
    BY <1>1, <1>2, <2>1, RequestTokens DEF TokensIssued, RowsKept, Fresh
<1>3. ASSUME NEW f \in Family, holds'[f] # NoToken PROVE rows'[holds'[f]] # Unissued
  <2>1. CASE holds'[f] = holds[f]
    BY <1>1, <1>3, <2>1 DEF TokensIssued, RowsKept, Fresh, TypeOK
  <2>2. ASSUME NEW e \in Family, NEW t \in Token, StartSession(e, t)
        PROVE  rows'[holds'[f]] # Unissued
    <3>1. CASE e = f
      <4>1. holds'[f] = t /\ rows'[t].state = "stored"
        BY <2>2, <3>1 DEF StartSession, TypeOK
      <4> QED
        BY <4>1 DEF Fresh, Unissued
    <3>2. CASE e # f
      BY <2>1, <2>2, <3>2 DEF StartSession, TypeOK
    <3> QED
      BY <3>1, <3>2
  <2>3. ASSUME NEW h \in Handler, Deliver(h) PROVE rows'[holds'[f]] # Unissued
    <3>1. CASE handler[h].family = f
      <4>1. holds'[f] = handler[h].token /\ rows' = rows
        BY <2>3, <3>1 DEF Deliver, TypeOK
      <4> QED
        BY <2>3, <4>1 DEF Deliver, TokensIssued, Fresh
    <3>2. CASE handler[h].family # f
      BY <2>1, <2>3, <3>2 DEF Deliver, TypeOK
    <3> QED
      BY <3>1, <3>2
  <2> QED
    BY <2>1, <2>2, <2>3
       DEF Next, HandlerStep, ReadUser, Present, PresentCopy, FindForLogout,
           FindForRotation, LoadUser, Revoke, Claim, Create, Lose, ChangeAccount,
           Reactivate, Tick, Purge, vars
<1> QED
  BY <1>2, <1>3 DEF TokensIssued, Fresh

\* A rotation is the rotation it was, or has just read a usable row.
LEMMA RotationsKept ==
  ASSUME TypeOK, [Next]_vars, NEW h \in Handler,
         handler'[h].phase \in {"load", "claim", "create"}
  PROVE  \/ /\ handler[h].phase \in {"load", "claim", "create"}
            /\ handler'[h].token = handler[h].token
            /\ handler'[h].family = handler[h].family
            /\ handler'[h].version = handler[h].version
            /\ handler'[h].sessionEnd = handler[h].sessionEnd
         \/ /\ UNCHANGED <<rows, login>>
            /\ handler'[h].token \in Token
            /\ rows[handler'[h].token].state = "stored"
            /\ handler'[h].family = rows[handler'[h].token].family
            /\ handler'[h].version = rows[handler'[h].token].version
            /\ handler'[h].sessionEnd = rows[handler'[h].token].sessionEnd
<1>1. CASE handler'[h] = handler[h]
  BY <1>1
<1>2. ASSUME NEW g \in Handler, HandlerStep(g), g # h
      PROVE  handler'[h] = handler[h]
  BY <1>2 DEF HandlerStep, Present, PresentCopy, FindForLogout, FindForRotation,
              LoadUser, Revoke, Claim, Create, Deliver, Lose, Revokes, TypeOK
<1>3. CASE FindForRotation(h)
  <2>1. handler[h].token \in Token
    BY <1>3, HandlerShapes DEF FindForRotation, Finding
  <2> QED
    BY <1>3, <2>1 DEF FindForRotation, Revokes, TypeOK, Idle, Usable
<1>4. CASE LoadUser(h) \/ Claim(h)
  <2>1. handler[h] \in Rotating
    BY <1>4, HandlerShapes DEF LoadUser, Claim
  <2> QED
    BY <1>4, <2>1 DEF LoadUser, Claim, Revokes, TypeOK, Idle, Rotating
<1>5. ASSUME \/ \E f \in Family, kind \in {"rotate", "logout"} : Present(h, f, kind)
             \/ \E t \in Token : PresentCopy(h, t) \/ Create(h, t)
             \/ FindForLogout(h) \/ Revoke(h) \/ Deliver(h) \/ Lose(h)
      PROVE  handler'[h].phase \notin {"load", "claim", "create"}
  BY <1>5 DEF Present, PresentCopy, Create, FindForLogout, Revoke, Deliver, Lose,
              Revokes, TypeOK, Idle
<1>6. CASE UNCHANGED handler
  BY <1>1, <1>6
<1> QED
  BY <1>1, <1>2, <1>3, <1>4, <1>5, <1>6
     DEF Next, HandlerStep, ReadUser, StartSession, ChangeAccount, Reactivate,
         Tick, Purge, vars

LEMMA NextRotationsMatch ==
  ASSUME IInv, [Next]_vars
  PROVE  RotationsMatch'
<1> USE DEF IInv
<1> SUFFICES ASSUME NEW h \in Handler,
                    handler'[h].phase \in {"load", "claim", "create"}
             PROVE  LET start == login'[handler'[h].family] IN
                    /\ start.phase = "started"
                    /\ handler'[h].version = start.version
                    /\ handler'[h].sessionEnd = start.sessionEnd
                    /\ rows'[handler'[h].token].state = "stored"
                         => rows'[handler'[h].token].family = handler'[h].family
  BY DEF RotationsMatch
<1>1. RowsKept
  BY NextRowsKept
<1>2. CASE /\ handler[h].phase \in {"load", "claim", "create"}
           /\ handler'[h].token = handler[h].token
           /\ handler'[h].family = handler[h].family
           /\ handler'[h].version = handler[h].version
           /\ handler'[h].sessionEnd = handler[h].sessionEnd
  <2>1. handler[h].family \in Family /\ handler[h].token \in Token
    BY <1>2, HandlerShapes DEF Rotating
  <2>2. login'[handler[h].family] = login[handler[h].family]
    BY <1>2, <2>1, LoginsKept DEF RotationsMatch
  <2>3. ~Fresh(handler[h].token)
    BY <1>2 DEF TokensIssued
  <2> QED
    BY <1>1, <1>2, <2>1, <2>2, <2>3 DEF RotationsMatch, RowsKept
<1>3. CASE /\ UNCHANGED <<rows, login>>
           /\ handler'[h].token \in Token
           /\ rows[handler'[h].token].state = "stored"
           /\ handler'[h].family = rows[handler'[h].token].family
           /\ handler'[h].version = rows[handler'[h].token].version
           /\ handler'[h].sessionEnd = rows[handler'[h].token].sessionEnd
  BY <1>3 DEF RenewalKeepsLogin
<1> QED
  BY <1>2, <1>3, RotationsKept

LEMMA NextRenewalKeepsLogin ==
  ASSUME IInv, [Next]_vars
  PROVE  RenewalKeepsLogin'
<1> USE DEF IInv
<1> SUFFICES ASSUME NEW t \in Token, rows'[t].state = "stored"
             PROVE  LET start == login'[rows'[t].family] IN
                    /\ start.phase = "started"
                    /\ rows'[t].sessionEnd = start.sessionEnd
                    /\ rows'[t].version = start.version
                    /\ rows'[t].idleEnd <= start.sessionEnd
  BY DEF RenewalKeepsLogin
<1>1. RowsKept
  BY NextRowsKept
<1>2. CASE ~Fresh(t)
  <2>1. /\ rows[t].state = "stored"
        /\ rows'[t].family = rows[t].family
        /\ rows'[t].sessionEnd = rows[t].sessionEnd
        /\ rows'[t].idleEnd = rows[t].idleEnd
        /\ rows'[t].version = rows[t].version
    BY <1>1, <1>2 DEF RowsKept
  <2>2. rows[t].family \in Family
    BY <2>1, RowShape DEF Row
  <2>3. login[rows[t].family].phase = "started"
    BY <2>1 DEF RenewalKeepsLogin
  <2>4. login'[rows[t].family] = login[rows[t].family]
    BY <2>2, <2>3, LoginsKept
  <2> QED
    BY <2>1, <2>4 DEF RenewalKeepsLogin
<1>3. ASSUME Fresh(t), NEW f \in Family, StartSession(f, t)
      PROVE  LET start == login'[rows'[t].family] IN
             /\ start.phase = "started"
             /\ rows'[t].sessionEnd = start.sessionEnd
             /\ rows'[t].version = start.version
             /\ rows'[t].idleEnd <= start.sessionEnd
  <2>1. now + IdleMax <= now + SessionMax
    BY SessionAssumption DEF SessionAssumption, TypeOK
  <2> QED
    BY <1>3, <2>1 DEF StartSession, TypeOK
<1>4. ASSUME Fresh(t), NEW h \in Handler, Create(h, t)
      PROVE  LET start == login'[rows'[t].family] IN
             /\ start.phase = "started"
             /\ rows'[t].sessionEnd = start.sessionEnd
             /\ rows'[t].version = start.version
             /\ rows'[t].idleEnd <= start.sessionEnd
  <2>1. handler[h] \in Rotating
    BY <1>4, HandlerShapes DEF Create
  <2>2. rows'[t] = Successor(h) /\ login' = login
    BY <1>4 DEF Create, TypeOK
  <2>3. handler[h].at + IdleMax \in Nat /\ handler[h].sessionEnd \in Nat
    BY <2>1, SessionAssumption DEF SessionAssumption, Rotating
  <2>4. Smaller(handler[h].at + IdleMax, handler[h].sessionEnd)
          <= handler[h].sessionEnd
    BY <2>3 DEF Smaller
  <2> QED
    BY <1>4, <2>2, <2>4 DEF Create, Successor, RotationsMatch
<1>5. ASSUME Fresh(t)
      PROVE  \/ \E f \in Family : StartSession(f, t)
             \/ \E h \in Handler : Create(h, t)
  <2>1. rows'[t] # rows[t]
    BY <1>5 DEF Fresh, Unissued
  <2>2. ASSUME NEW f \in Family, NEW u \in Token, StartSession(f, u) PROVE u = t
    BY <2>1, <2>2 DEF StartSession, TypeOK
  <2>3. ASSUME NEW h \in Handler, NEW u \in Token, Create(h, u) PROVE u = t
    BY <2>1, <2>3 DEF Create, TypeOK
  <2>4. ASSUME NEW h \in Handler, Revoke(h) PROVE FALSE
    BY <1>5, <2>1, <2>4 DEF Revoke, Fresh, Unissued, TypeOK
  <2>5. ASSUME NEW h \in Handler, Claim(h) PROVE FALSE
    BY <1>5, <2>1, <2>5
       DEF Claim, Claimable, Live, Usable, Fresh, Unissued, TypeOK
  <2>6. ASSUME NEW u \in Token, Purge(u) PROVE FALSE
    BY <1>5, <2>1, <2>6 DEF Purge, Fresh, Unissued, TypeOK
  <2> QED
    BY <2>1, <2>2, <2>3, <2>4, <2>5, <2>6
       DEF Next, HandlerStep, ReadUser, Present, PresentCopy, FindForLogout,
           FindForRotation, LoadUser, Deliver, Lose, ChangeAccount, Reactivate,
           Tick, vars
<1> QED
  BY <1>2, <1>3, <1>4, <1>5

LEMMA InitIInv == Init => IInv
<1> SUFFICES ASSUME Init PROVE IInv
  OBVIOUS
<1>1. TypeOK
  BY InitTypeOK
<1>2. HeirsApart
  BY DEF Init, HeirsApart, Alive, Creating, Live, Usable, Unissued, Idle
<1>3. TokensIssued /\ RotationsMatch /\ RenewalKeepsLogin
  BY DEF Init, TokensIssued, RotationsMatch, RenewalKeepsLogin, Unissued, Idle
<1> QED
  BY <1>1, <1>2, <1>3 DEF IInv

LEMMA NextIInv == IInv /\ [Next]_vars => IInv'
<1> SUFFICES ASSUME IInv, [Next]_vars PROVE IInv'
  OBVIOUS
<1>1. TypeOK'
  BY NextTypeOK DEF IInv
<1>2. HeirsApart'
  BY NextHeirStep, HeirStepKeepsApart
<1> QED
  BY <1>1, <1>2, NextTokensIssued, NextRotationsMatch, NextRenewalKeepsLogin
     DEF IInv

\* What the refresh handlers keep true between any two database calls, from which
\* the properties of a session follow.
THEOREM Invariance == Spec => []IInv
BY InitIInv, NextIInv, PTL DEF Spec

-------------------------------------------------------------------------------
(* What follows from it.                                                   *)

\* However many tabs, retries and copies refresh at once, a session has one
\* token that can be renewed, or one rotation under way that will make it.
THEOREM NeverTwoHeirs == Spec => []OneHeir
<1>1. IInv => OneHeir
  BY HeirsShape DEF IInv
<1> QED
  BY <1>1, Invariance, PTL

\* No renewal moves the end of a session or renews its tokenVersion.
THEOREM NeverProlonged == Spec => []RenewalKeepsLogin
<1>1. IInv => RenewalKeepsLogin
  BY DEF IInv
<1> QED
  BY <1>1, Invariance, PTL

\* Once no row of a session is live and no rotation of it is between its claim and
\* the creation of the successor, the session is over for good.  (A rotation that is
\* there is what LogoutEndsSession is about.)
THEOREM NeverRevived == Spec => EndedStaysEnded
<1>1. IInv /\ [Next]_vars =>
        [\A f \in Family : login[f].phase = "started" /\ Heirs(f) = {}
           => Heirs(f)' = {}]_vars
  <2> SUFFICES ASSUME IInv, [Next]_vars,
                      NEW f \in Family, login[f].phase = "started", Heirs(f) = {}
               PROVE  Heirs(f)' = {}
    OBVIOUS
  <2>1. (\A t \in Token : ~Alive(f, t)) /\ (\A h \in Handler : ~Creating(f, h))
    BY NoHeirShape
  <2>2. (\A t \in Token : ~Alive(f, t)') /\ (\A h \in Handler : ~Creating(f, h)')
    BY <2>1, NextHeirStep DEF HeirStep, Shrinks, Passes, Starts
  <2>3. Heirs(f)' = {}
    BY <2>2 DEF Heirs, Alive, Creating
  <2> QED
    BY <2>3
<1> QED
  BY <1>1, Invariance, PTL DEF Spec, EndedStaysEnded
===============================================================================
