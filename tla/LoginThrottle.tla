----------------------------- MODULE LoginThrottle -----------------------------
(***************************************************************************)
(* middleware/loginThrottle.js as POST /api/auth/login uses it: one        *)
(* counter of failed attempts, kept in one MongoDB document.  A login asks *)
(* isBlocked, compares the password, and then records a success, which     *)
(* deletes the document, or a failure, which takes up to five accesses:    *)
(* restart an elapsed window, count with an upsert (and once more when two *)
(* upserts met on the unique key), and lock.  Each access is atomic on the *)
(* document; logins interleave between them, and each failure works with   *)
(* the instant at which it began.  Any access can fail, which the handler  *)
(* answers 500 without the accesses that were still to come.               *)
(*                                                                         *)
(* The counter is that of an account and an address.  The address's own    *)
(* counter, which runs through the same steps beside it, which no success  *)
(* clears and whose window is as long as its lock, is left out, and so are *)
(* the audit entries.                                                      *)
(***************************************************************************)
EXTENDS Integers, FiniteSets

CONSTANTS
  Slot,      \* logins that can be under way at the same time
  Max,       \* ACCOUNT_LIMIT.max
  Window,    \* ACCOUNT_LIMIT.windowMs
  Lock,      \* ACCOUNT_LIMIT.lockMs
  MaxStall,  \* how long the accesses of one failure may take
  MaxTime,   \* bound on the clock
  MaxDropped \* bound on the locks that are due and never written

ThrottleAssumption ==
  /\ Max \in Nat \ {0}
  /\ Window \in Nat \ {0}
  /\ Lock \in Nat \ {0}
  /\ MaxStall \in Nat
  /\ Window + MaxStall < Lock
  /\ MaxTime \in Nat
  /\ MaxDropped \in Nat
  /\ IsFiniteSet(Slot)

ASSUME ThrottleAssumption

VARIABLES
  clock,     \* Date.now()
  doc,       \* the LoginAttempt document
  login,     \* login[s]: the login under way in slot s
  dropped    \* history: locks that were due and were never written

throttleVars == <<clock, doc, login, dropped>>

-------------------------------------------------------------------------------

Time == 0..MaxTime

NoLock == -1    \* lockedUntil: null, which is before every instant

NoDoc == [exists |-> FALSE]

\* History in the document: was its lock written by a failure counted in an
\* earlier document or window (late), was a lock due in it never written (missed)?
AttemptDoc == [exists : {TRUE}, count : Nat, windowStart : Time,
        lockedUntil : {NoLock} \cup Nat, expiresAt : Nat,
        late : BOOLEAN, missed : BOOLEAN]

NoLogin == [phase |-> "idle"]

Login == [phase : {"comparing"}]
         \cup [phase : {"restarting", "counting", "inserting", "recounting"},
               now : Time]
         \cup [phase : {"locking"}, now : Time, mine : BOOLEAN]

Locked(d, now) == d.exists /\ d.lockedUntil > now

ThrottleInit ==
  /\ clock = 0
  /\ doc = NoDoc
  /\ login = [s \in Slot |-> NoLogin]
  /\ dropped = 0

-------------------------------------------------------------------------------
(* The login.                                                              *)

\* mine: is the count still the one this failure was added to?
Forgotten(l) == [s \in Slot |-> IF l[s].phase = "locking"
                               THEN [l[s] EXCEPT !.mine = FALSE] ELSE l[s]]

Goes(s, l) == login' = [login EXCEPT ![s] = l]

\* isBlocked; a blocked login is answered 429 and changes nothing.
Begin(s) ==
  /\ login[s] = NoLogin
  /\ ~Locked(doc, clock)
  /\ Goes(s, [phase |-> "comparing"])
  /\ UNCHANGED <<clock, doc, dropped>>

\* deleteOne and deleteMany
Cleared == doc' = NoDoc

\* The password is right: recordSuccess.
Succeed(s) ==
  /\ login[s].phase = "comparing"
  /\ Cleared
  /\ login' = [Forgotten(login) EXCEPT ![s] = NoLogin]
  /\ UNCHANGED <<clock, dropped>>

\* The password is wrong: recordFailure fixes its instant.
Fail(s) ==
  /\ login[s].phase = "comparing"
  /\ Goes(s, [phase |-> "restarting", now |-> clock])
  /\ UNCHANGED <<clock, doc, dropped>>

\* Mutant: no window is ever restarted.
ElapsedNever(now) == now > MaxTime

\* The filter of the conditional update.
Elapsed(now) ==
  /\ doc.exists
  /\ doc.windowStart < now - Window
  /\ doc.lockedUntil <= now

\* $set: { count: 0, windowStart, lockedUntil: null }
Restarted(now) == [doc EXCEPT !.count = 0, !.windowStart = now,
                              !.lockedUntil = NoLock, !.late = FALSE,
                              !.missed = FALSE]

RestartWindow(s) ==
  LET now == login[s].now IN
  /\ login[s].phase = "restarting"
  /\ doc' = IF Elapsed(now) THEN Restarted(now) ELSE doc
  /\ login' = [(IF Elapsed(now) THEN Forgotten(login) ELSE login)
                  EXCEPT ![s] = [phase |-> "counting", now |-> now]]
  /\ UNCHANGED <<clock, dropped>>

Later(a, b) == IF a >= b THEN a ELSE b

\* Mutant: the lock waits for one failure more.
MustLockLate(n, d, now) == n > Max /\ ~Locked(d, now)

\* doc.count >= limit.max && !isLocked(doc, now)
MustLock(n, d, now) == n >= Max /\ ~Locked(d, now)

\* After the count: the lock, or the answer.
AfterCount(s, d, now) ==
  IF MustLock(d.count, d, now)
  THEN Goes(s, [phase |-> "locking", now |-> now, mine |-> TRUE])
  ELSE Goes(s, NoLogin)

\* findOneAndUpdate finds the document.
Increment(s) ==
  LET now == login[s].now
      d == [doc EXCEPT !.count = @ + 1,
                       !.expiresAt = Later(@, now + Window)]
  IN
  /\ login[s].phase \in {"counting", "recounting"}
  /\ doc.exists
  /\ doc' = d
  /\ AfterCount(s, d, now)
  /\ UNCHANGED <<clock, dropped>>

\* It finds none: the upsert goes on to insert.
MissDocument(s) ==
  /\ login[s].phase = "counting"
  /\ ~doc.exists
  /\ Goes(s, [login[s] EXCEPT !.phase = "inserting"])
  /\ UNCHANGED <<clock, doc, dropped>>

InsertDocument(s) ==
  LET now == login[s].now
      d == [exists |-> TRUE, count |-> 1, windowStart |-> now,
            lockedUntil |-> NoLock, expiresAt |-> now + Window,
            late |-> FALSE, missed |-> FALSE]
  IN
  /\ login[s].phase = "inserting"
  /\ ~doc.exists
  /\ doc' = d
  /\ AfterCount(s, d, now)
  /\ UNCHANGED <<clock, dropped>>

\* E11000: another failure inserted it first; count again without upsert.
LoseInsert(s) ==
  /\ login[s].phase = "inserting"
  /\ doc.exists
  /\ Goes(s, [login[s] EXCEPT !.phase = "recounting"])
  /\ UNCHANGED <<clock, doc, dropped>>

\* And it was deleted meanwhile: the failure is not counted.
FindNothing(s) ==
  /\ login[s].phase = "recounting"
  /\ ~doc.exists
  /\ Goes(s, NoLogin)
  /\ UNCHANGED <<clock, doc, dropped>>

\* Mutant: expiresAt stays at the end of the window.
LockedForShort(q) == [doc EXCEPT !.lockedUntil = q.now + Lock,
                                 !.late = ~q.mine]

\* Mutant: the lock is counted back from the failure.
LockedBackwards(q) == [doc EXCEPT !.lockedUntil = q.now - Lock,
                                  !.expiresAt = q.now + Lock, !.late = ~q.mine]

\* $set: { lockedUntil, expiresAt: lockedUntil }
LockedFor(q) == [doc EXCEPT !.lockedUntil = q.now + Lock,
                            !.expiresAt = q.now + Lock,
                            !.late = ~q.mine]

\* updateOne by key: whatever document there is now, and none is made.
WriteLock(s) ==
  LET q == login[s] IN
  /\ q.phase = "locking"
  /\ doc' = IF doc.exists THEN LockedFor(q) ELSE doc
  /\ Goes(s, NoLogin)
  /\ UNCHANGED <<clock, dropped>>

(* The rest of the system.                                                 *)

\* unlockEmail: an unlock or a password reset by an administrator.
Unlock ==
  /\ doc.exists
  /\ Cleared
  /\ login' = Forgotten(login)
  /\ UNCHANGED <<clock, dropped>>

\* The TTL index on expiresAt; its monitor may be late.
Purge ==
  /\ doc.exists
  /\ doc.expiresAt <= clock
  /\ Cleared
  /\ login' = Forgotten(login)
  /\ UNCHANGED <<clock, dropped>>

\* The logins about to write a lock.
Locking == {s \in Slot : login[s].phase = "locking"}

\* The document when the logins in S write no lock after all.
Missed(S) == IF \E s \in S : login[s].phase = "locking" /\ login[s].mine
             THEN [doc EXCEPT !.missed = TRUE] ELSE doc

\* The logins in S end where they are: what they had still to do is never done.
Stop(S) ==
  /\ dropped' = dropped + Cardinality(Locking \cap S)
  /\ dropped' <= MaxDropped
  /\ doc' = Missed(S)
  /\ login' = [s \in Slot |-> IF s \in S THEN NoLogin ELSE login[s]]
  /\ UNCHANGED clock

\* The next access fails, and the handler answers 500.  An access that was made
\* and whose answer was lost is that access and then this.
Break(s) == login[s] # NoLogin /\ Stop({s})

\* The process restarts: the logins under way are gone, the document is not.
Restart == Stop(Slot)

Tick ==
  /\ clock < MaxTime
  /\ \A s \in Slot :
       login[s].phase \notin {"idle", "comparing"} =>
         clock < login[s].now + MaxStall
  /\ clock' = clock + 1
  /\ UNCHANGED <<doc, login, dropped>>

RecordFailure(s) ==
  \/ RestartWindow(s)
  \/ Increment(s)
  \/ MissDocument(s)
  \/ InsertDocument(s)
  \/ LoseInsert(s)
  \/ FindNothing(s)
  \/ WriteLock(s)

ThrottleNext ==
  \/ \E s \in Slot :
       Begin(s) \/ Succeed(s) \/ Fail(s) \/ RecordFailure(s) \/ Break(s)
  \/ Unlock
  \/ Purge
  \/ Restart
  \/ Tick

ThrottleSpec == ThrottleInit /\ [][ThrottleNext]_throttleVars

-------------------------------------------------------------------------------
(* Properties.                                                             *)

\* The document and the logins have the shapes of their phases.
ThrottleTypeOK ==
  /\ clock \in Time
  /\ doc \in {NoDoc} \cup AttemptDoc
  /\ login \in [Slot -> {NoLogin} \cup Login]
  /\ dropped \in 0..MaxDropped

\* A document is locked only when its count reached the limit, or by a failure
\* that had reached it in a document or a window that was over when it wrote: a
\* success, an unlock, the TTL index or the next window came between.
LockEarned ==
  doc.exists /\ doc.lockedUntil # NoLock => doc.count >= Max \/ doc.late

\* A count at the limit is locked, or was, or the failure that reached it is about
\* to lock it; it stays open only when the lock that was due was never written: its
\* access, or an answer before it, failed, or the process restarted.  The next
\* failure then counts, and locks.
LimitLocks ==
  doc.exists /\ doc.count >= Max =>
    \/ doc.lockedUntil # NoLock
    \/ doc.missed
    \/ \E s \in Slot : login[s].phase = "locking" /\ login[s].mine

\* Logins that passed isBlocked before the lock can still fail after it, but no
\* more of them than run at the same time: the passwords tried in one window stay
\* bounded, and each lock that was due and never written, in a failed access or
\* in a restart, lets in one more.
TriesBounded ==
  doc.exists => doc.count <= Max - 1 + Cardinality(Slot) + dropped

\* "The TTL index removes each document once it no longer matters": never while
\* its lock lasts.
KeptWhileLocked == doc.exists => doc.lockedUntil <= doc.expiresAt

\* A lock in force ends early only by a right password or an administrator: not
\* by a restart, the TTL index, a new window or another failure, though a lock
\* that was late may set the end back.  Until then the document has not expired,
\* so that what deletes it is not the TTL index.
LockHolds ==
  [][Locked(doc, clock) /\ ~Locked(doc', clock) =>
       /\ clock < doc.expiresAt
       /\ Unlock \/ \E s \in Slot : Succeed(s)
    ]_throttleVars
===============================================================================
