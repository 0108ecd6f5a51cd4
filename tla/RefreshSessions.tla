--------------------------- MODULE RefreshSessions ---------------------------
(***************************************************************************)
(* Rotating refresh tokens: login, refresh and logout of routes/auth.js    *)
(* over startSession, rotateSession, endSession and revokeFamily.          *)
(*                                                                         *)
(* One user account, whose sessions (families) each have a client.  Every  *)
(* issued token is a row.  rotateSession takes its clock reading once, when*)
(* it is called, and then reads and writes the rows and the account in     *)
(* separate database calls: each call is a step, requests interleave       *)
(* between calls, a process may die between two of them and an answer may  *)
(* never arrive.                                                           *)
(***************************************************************************)
EXTENDS Integers

CONSTANTS
  Family,      \* logins
  Token,       \* refresh tokens; random, so each is issued once
  Handler,     \* requests served at one time
  IdleMax,     \* REFRESH_IDLE_MS
  SessionMax,  \* SESSION_MAX_MS
  Grace,       \* ROTATION_GRACE_MS
  MaxTime,     \* bound: the clock stops here
  MaxVersion,  \* bound: tokenVersion of the account
  NoToken      \* no token yet

SessionAssumption ==
  /\ IdleMax \in Nat \ {0}
  /\ SessionMax \in Nat \ {0}
  /\ IdleMax <= SessionMax
  /\ Grace \in Nat
  /\ MaxTime \in Nat
  /\ MaxVersion \in Nat
  /\ NoToken \notin Token

ASSUME SessionAssumption

VARIABLES
  now,      \* the clock
  account,  \* the user: tokenVersion, and whether isAccountUsable
  rows,     \* rows[t]: the RefreshSession document of token t
  handler,  \* handler[h]: where request h stands
  login,    \* login[f]: where the login that makes family f stands
  holds,    \* holds[f]: the token that the client of f received last
  copied    \* families of which somebody used a token the client had replaced

vars == <<now, account, rows, handler, login, holds, copied>>

-------------------------------------------------------------------------------

Never == -1

Reasons == {"logout", "reuse_detected", "expired", "account_changed"}

Unissued == [state |-> "unissued"]
Purged == [state |-> "purged"]
Row == [state : {"stored"}, family : Family, version : Nat, sessionEnd : Nat,
        idleEnd : Nat, rotatedAt : Nat \cup {Never}, revoked : Reasons \cup {"no"}]

Idle == [phase |-> "idle"]

\* A request that has not read its row yet; at is its clock reading.
Finding == [phase : {"find"}, kind : {"rotate", "logout"}, token : Token,
            at : Nat]

\* A rotation with the row it read.
Rotating == [phase : {"load", "claim", "create"}, token : Token, at : Nat,
             family : Family, version : Nat, sessionEnd : Nat]

Revoking == [phase : {"revoke"}, family : Family, reason : Reasons]

Answering == [phase : {"answer"}, family : Family, token : Token]

Usable(t) == rows[t].state = "stored" /\ rows[t].revoked = "no"

Live(t) == Usable(t) /\ rows[t].rotatedAt = Never

Fresh(t) == rows[t] = Unissued

Init ==
  /\ now = 0
  /\ account = [version |-> 0, usable |-> TRUE]
  /\ rows = [t \in Token |-> Unissued]
  /\ handler = [h \in Handler |-> Idle]
  /\ login = [f \in Family |-> [phase |-> "none"]]
  /\ holds = [f \in Family |-> NoToken]
  /\ copied = {}

Smaller(a, b) == IF a <= b THEN a ELSE b

-------------------------------------------------------------------------------
(* Login.                                                                  *)

\* User.findOne; the password comparison that follows is slow.
ReadUser(f) ==
  /\ login[f].phase = "none"
  /\ account.usable
  /\ login' = [login EXCEPT ![f] = [phase |-> "read", version |-> account.version]]
  /\ UNCHANGED <<now, account, rows, handler, holds, copied>>

\* startSession, with the tokenVersion of the user as it was read.
StartSession(f, t) ==
  /\ login[f].phase = "read"
  /\ Fresh(t)
  /\ rows' = [rows EXCEPT ![t] = [state |-> "stored", family |-> f,
                                  version |-> login[f].version,
                                  sessionEnd |-> now + SessionMax,
                                  idleEnd |-> now + IdleMax,
                                  rotatedAt |-> Never, revoked |-> "no"]]
  /\ login' = [login EXCEPT ![f] = [phase |-> "started",
                                    version |-> login[f].version,
                                    sessionEnd |-> now + SessionMax]]
  /\ holds' = [holds EXCEPT ![f] = t]
  /\ UNCHANGED <<now, account, handler, copied>>

-------------------------------------------------------------------------------
(* Requests.                                                               *)

\* POST /refresh or /logout with the token the client holds: from one tab, from
\* two at once, or again because no answer came.
Present(h, f, kind) ==
  /\ handler[h].phase = "idle"
  /\ holds[f] # NoToken
  /\ handler' = [handler EXCEPT ![h] = [phase |-> "find", kind |-> kind,
                                        token |-> holds[f], at |-> now]]
  /\ UNCHANGED <<now, account, rows, login, holds, copied>>

\* POST /refresh from whoever kept a token that the client has replaced.
PresentCopy(h, t) ==
  /\ handler[h].phase = "idle"
  /\ rows[t].state = "stored"
  /\ holds[rows[t].family] # t
  /\ handler' = [handler EXCEPT ![h] = [phase |-> "find", kind |-> "rotate",
                                        token |-> t, at |-> now]]
  /\ copied' = copied \cup {rows[t].family}
  /\ UNCHANGED <<now, account, rows, login, holds>>

Revokes(h, f, reason) ==
  handler' = [handler EXCEPT ![h] = [phase |-> "revoke", family |-> f,
                                     reason |-> reason]]

\* endSession: Model.findOne, then the whole family, whatever the row says.
FindForLogout(h) ==
  LET row == rows[handler[h].token] IN
  /\ handler[h].phase = "find"
  /\ handler[h].kind = "logout"
  /\ IF row.state = "stored" THEN Revokes(h, row.family, "logout")
                             ELSE handler' = [handler EXCEPT ![h] = Idle]
  /\ UNCHANGED <<now, account, rows, login, holds, copied>>

\* rotateSession up to the first revokeFamily or loadUser: unknown or revoked,
\* already rotated (a moment ago or not), expired, or worth a look at the user.
FindForRotation(h) ==
  LET row == rows[handler[h].token]
      at == handler[h].at IN
  /\ handler[h].phase = "find"
  /\ handler[h].kind = "rotate"
  /\ \/ /\ ~Usable(handler[h].token)
        /\ handler' = [handler EXCEPT ![h] = Idle]
     \/ /\ Usable(handler[h].token)
        /\ row.rotatedAt # Never
        /\ IF at - row.rotatedAt <= Grace
           THEN handler' = [handler EXCEPT ![h] = Idle]
           ELSE Revokes(h, row.family, "reuse_detected")
     \/ /\ Usable(handler[h].token)
        /\ row.rotatedAt = Never
        /\ IF row.sessionEnd <= at \/ row.idleEnd <= at
           THEN Revokes(h, row.family, "expired")
           ELSE handler' = [handler EXCEPT
                  ![h] = [phase |-> "load", token |-> handler[h].token, at |-> at,
                          family |-> row.family, version |-> row.version,
                          sessionEnd |-> row.sessionEnd]]
  /\ UNCHANGED <<now, account, rows, login, holds, copied>>

\* loadUser, isUsable and the comparison of the two tokenVersions.
LoadUser(h) ==
  /\ handler[h].phase = "load"
  /\ IF account.usable /\ account.version = handler[h].version
     THEN handler' = [handler EXCEPT ![h].phase = "claim"]
     ELSE Revokes(h, handler[h].family, "account_changed")
  /\ UNCHANGED <<now, account, rows, login, holds, copied>>

\* revokeFamily: updateMany on what is not revoked yet.
Revoke(h) ==
  /\ handler[h].phase = "revoke"
  /\ rows' = [t \in Token |->
                IF /\ rows[t].state = "stored"
                   /\ rows[t].family = handler[h].family
                   /\ rows[t].revoked = "no"
                THEN [rows[t] EXCEPT !.revoked = handler[h].reason]
                ELSE rows[t]]
  /\ handler' = [handler EXCEPT ![h] = Idle]
  /\ UNCHANGED <<now, account, login, holds, copied>>

\* Mutant: the claim without its rotatedAt: null.
ClaimableTwice(t) == Usable(t)

\* Mutant: the claim without its revokedAt: null.
ClaimableRevoked(t) == rows[t].state = "stored" /\ rows[t].rotatedAt = Never

\* { _id, rotatedAt: null, revokedAt: null }
Claimable(t) == Live(t)

\* findOneAndUpdate: one of several concurrent rotations gets the row.
Claim(h) ==
  LET t == handler[h].token IN
  /\ handler[h].phase = "claim"
  /\ IF Claimable(t)
     THEN /\ rows' = [rows EXCEPT ![t] = [rows[t] EXCEPT
                                            !.rotatedAt = handler[h].at]]
          /\ handler' = [handler EXCEPT ![h].phase = "create"]
     ELSE /\ handler' = [handler EXCEPT ![h] = Idle]
          /\ UNCHANGED rows
  /\ UNCHANGED <<now, account, login, holds, copied>>

\* Mutant: a successor that starts a new session of full length.
SuccessorRenewed(h) == [state |-> "stored", family |-> handler[h].family,
                        version |-> handler[h].version,
                        sessionEnd |-> handler[h].at + SessionMax,
                        idleEnd |-> handler[h].at + IdleMax,
                        rotatedAt |-> Never, revoked |-> "no"]

\* Mutant: a successor without its idleExpiresAt.
SuccessorWithoutIdle(h) == [state |-> "stored", family |-> handler[h].family,
                            version |-> handler[h].version,
                            sessionEnd |-> handler[h].sessionEnd,
                            rotatedAt |-> Never, revoked |-> "no"]

\* Model.create of the successor, from the row read at the start.
Successor(h) == [state |-> "stored", family |-> handler[h].family,
                 version |-> handler[h].version,
                 sessionEnd |-> handler[h].sessionEnd,
                 idleEnd |-> Smaller(handler[h].at + IdleMax,
                                     handler[h].sessionEnd),
                 rotatedAt |-> Never, revoked |-> "no"]

Create(h, t) ==
  /\ handler[h].phase = "create"
  /\ Fresh(t)
  /\ rows' = [rows EXCEPT ![t] = Successor(h)]
  /\ handler' = [handler EXCEPT ![h] = [phase |-> "answer",
                                        family |-> handler[h].family,
                                        token |-> t]]
  /\ UNCHANGED <<now, account, login, holds, copied>>

Deliver(h) ==
  /\ handler[h].phase = "answer"
  /\ holds' = [holds EXCEPT ![handler[h].family] = handler[h].token]
  /\ handler' = [handler EXCEPT ![h] = Idle]
  /\ UNCHANGED <<now, account, rows, login, copied>>

\* The process dies, a database call fails, or the answer is lost.
Lose(h) ==
  /\ handler[h].phase # "idle"
  /\ handler' = [handler EXCEPT ![h] = Idle]
  /\ UNCHANGED <<now, account, rows, login, holds, copied>>

-------------------------------------------------------------------------------
(* The account, the clock and the TTL index.                               *)

\* A password, role, region or status change: revokeTokens, and save.
ChangeAccount(usable) ==
  /\ account.version < MaxVersion
  /\ account' = [version |-> account.version + 1, usable |-> usable]
  /\ UNCHANGED <<now, rows, handler, login, holds, copied>>

\* A suspension is lifted or a request approved: no tokenVersion changes.
Reactivate ==
  /\ ~account.usable
  /\ account' = [account EXCEPT !.usable = TRUE]
  /\ UNCHANGED <<now, rows, handler, login, holds, copied>>

Tick ==
  /\ now < MaxTime
  /\ now' = now + 1
  /\ UNCHANGED <<account, rows, handler, login, holds, copied>>

Purge(t) ==
  /\ rows[t].state = "stored"
  /\ rows[t].sessionEnd <= now
  /\ rows' = [rows EXCEPT ![t] = Purged]
  /\ UNCHANGED <<now, account, handler, login, holds, copied>>

-------------------------------------------------------------------------------

HandlerStep(h) ==
  \/ \E f \in Family, kind \in {"rotate", "logout"} : Present(h, f, kind)
  \/ \E t \in Token : PresentCopy(h, t) \/ Create(h, t)
  \/ FindForLogout(h)
  \/ FindForRotation(h)
  \/ LoadUser(h)
  \/ Revoke(h)
  \/ Claim(h)
  \/ Deliver(h)
  \/ Lose(h)

Next ==
  \/ \E f \in Family : ReadUser(f) \/ \E t \in Token : StartSession(f, t)
  \/ \E h \in Handler : HandlerStep(h)
  \/ \E usable \in BOOLEAN : ChangeAccount(usable)
  \/ Reactivate
  \/ Tick
  \/ \E t \in Token : Purge(t)

Spec == Init /\ [][Next]_vars

-------------------------------------------------------------------------------
(* Properties.                                                             *)

\* Every variable keeps its type.
TypeOK ==
  /\ now \in Nat
  /\ account \in [version : Nat, usable : BOOLEAN]
  /\ rows \in [Token -> {Unissued, Purged} \cup Row]
  /\ handler \in [Handler -> {Idle} \cup Finding \cup Rotating \cup Revoking
                                    \cup Answering]
  /\ login \in [Family -> [phase : {"none"}]
                           \cup [phase : {"read"}, version : Nat]
                           \cup [phase : {"started"}, version : Nat,
                                 sessionEnd : Nat]]
  /\ holds \in [Family -> Token \cup {NoToken}]
  /\ copied \subseteq Family

\* What can still renew session f: a live row, or a rotation that has claimed
\* its row and not created the next one.
Heirs(f) ==
  {<<"row", t>> : t \in {u \in Token : Live(u) /\ rows[u].family = f}}
    \cup {<<"rotation", h>> : h \in {g \in Handler :
            handler[g].phase = "create" /\ handler[g].family = f}}

\* A session has one heir at most: concurrent tabs, retries and copies never
\* split it into two lines of tokens that renew independently.
OneHeir == \A f \in Family : \A x, y \in Heirs(f) : x = y

\* A session without an heir, that is without a live row and without a rotation
\* under way (logged out, revoked, expired, or lost with the process that rotated
\* it), never gets one again.
EndedStaysEnded ==
  [][\A f \in Family : login[f].phase = "started" /\ Heirs(f) = {}
       => Heirs(f)' = {}]_vars

\* Rotation carries over what the login fixed: the absolute end of the session
\* and the tokenVersion, so that neither renews itself.
RenewalKeepsLogin ==
  \A t \in Token : rows[t].state = "stored" =>
    LET start == login[rows[t].family] IN
    /\ start.phase = "started"
    /\ rows[t].sessionEnd = start.sessionEnd
    /\ rows[t].version = start.version
    /\ rows[t].idleEnd <= start.sessionEnd

-------------------------------------------------------------------------------
(* Claims of the source that the code does not keep: TLC violates both, see *)
(* the README.                                                              *)

\* routes/auth.js:122 "it can only mean the token was copied": a family is
\* revoked for reuse only when somebody used a token its client had replaced.
ReuseMeansCopied ==
  \A t \in Token : rows[t].state = "stored" /\ rows[t].revoked = "reuse_detected"
                     => rows[t].family \in copied

\* routes/auth.js:145 "the session can't be renewed anymore": no row of a family
\* that was logged out is live.
LogoutEndsSession ==
  \A t, u \in Token :
    /\ rows[t].state = "stored" /\ rows[t].revoked = "logout"
    /\ Live(u)
    => rows[u].family # rows[t].family
===============================================================================
