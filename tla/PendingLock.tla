---------------------------- MODULE PendingLock ----------------------------
(***************************************************************************)
(* The Redis lease of welcomesecurity/utils_/pending_user_lock.py for one  *)
(* (group, user) pair.  Joins, leaves, captchas and the expiry sweep run   *)
(* inside it.                                                              *)
(*                                                                         *)
(* SET NX PX takes the key for Lease; a task renews it every Interval for  *)
(* as long as the body runs.  Nothing bounds the body.  The release and    *)
(* the renewal look at the key's owner and write in one WATCH transaction, *)
(* which fails when the key has changed hands in between.                  *)
(*                                                                         *)
(* Nothing in the code bounds how long Redis or the event loop may delay   *)
(* the renewal: Lag is the delay the lease is assumed to cover.            *)
(***************************************************************************)
EXTENDS Integers, FiniteSets

CONSTANTS
    Workers,     \* the coroutines that want the lease
    Nobody,      \* no key, no worker
    Lease,       \* WELCOME_SECURITY_PENDING_LOCK_TIMEOUT_SECONDS: 30
    Interval,    \* renewal_interval: 30 / 3
    Lag,         \* bound on the delay of a renewal, and of SET's answer
    MaxTime,     \* bound on the clock
    MaxTokens    \* bound on the number of acquisitions

ASSUME WorkersAssumption == Nobody \notin Workers

ASSUME TimesAssumption ==
    /\ Lease \in Nat
    /\ Interval \in Nat
    /\ Lag \in Nat
    /\ MaxTime \in Nat
    /\ MaxTokens \in Nat

ASSUME LagAssumption == Interval + 2 * Lag < Lease

VARIABLES
    now,       \* the clock
    issued,    \* number of owners (uuid4) drawn so far
    lock,      \* the Redis key, or Nobody
    orphans,   \* owners of cancelled SETs that Redis has not served yet
    pc,        \* where each worker is
    token,     \* the owner string of each worker's acquisition
    until,     \* its deadline; when it was granted; when its renewal wakes up
    renewal    \* the renewal task of each worker

vars == <<now, issued, lock, orphans, pc, token, until, renewal>>

Tokens == 1 .. MaxTokens
Keys == [owner : Tokens, expires : Nat]

ASSUME NobodyAssumption == Nobody \notin Keys

TypeOK ==
    /\ now \in 0 .. MaxTime
    /\ issued \in 0 .. MaxTokens
    /\ lock \in {Nobody} \cup Keys
    /\ orphans \in SUBSET Tokens
    /\ pc \in [Workers -> {"idle", "asking", "refused", "granted", "body", "leaving", "freeing"}]
    /\ token \in [Workers -> 0 .. MaxTokens]
    /\ until \in [Workers -> Nat]
    /\ renewal \in [Workers -> {"none", "asleep", "looked", "ended"}]

Init ==
    /\ now = 0
    /\ issued = 0
    /\ lock = Nobody
    /\ orphans = {}
    /\ pc = [w \in Workers |-> "idle"]
    /\ token = [w \in Workers |-> 0]
    /\ until = [w \in Workers |-> 0]
    /\ renewal = [w \in Workers |-> "none"]

---------------------------------------------------------------------------

\* Redis lets a key go the moment its PX runs out.
Free == lock = Nobody \/ (lock # Nobody /\ lock.expires <= now)

Holds(w) == lock # Nobody /\ lock.owner = token[w] /\ now < lock.expires

\* Mutant: SET without PX.
KeyForever(t) == [owner |-> t, expires |-> Nobody]

Key(t) == [owner |-> t, expires |-> now + Lease]

To(w, s) == pc' = [pc EXCEPT ![w] = s]

\* pending_user_lock draws its owner and its deadline.
Enter(w) ==
    /\ pc[w] = "idle"
    /\ issued < MaxTokens
    /\ issued' = issued + 1
    /\ token' = [token EXCEPT ![w] = issued + 1]
    /\ until' = [until EXCEPT ![w] = now + Lease]
    /\ To(w, "asking")
    /\ UNCHANGED <<now, lock, orphans, renewal>>

\* SET NX PX, served by Redis.
Set(w) ==
    /\ pc[w] = "asking"
    /\ \/ /\ Free
          /\ lock' = Key(token[w])
          /\ To(w, "granted")
          /\ until' = [until EXCEPT ![w] = now]
       \/ ~ Free /\ To(w, "refused") /\ UNCHANGED <<lock, until>>
    /\ UNCHANGED <<now, issued, orphans, token, renewal>>

\* Time is left: sleep and ask again.
Retry(w) ==
    /\ pc[w] = "refused" /\ now < until[w]
    /\ To(w, "asking")
    /\ UNCHANGED <<now, issued, lock, orphans, token, until, renewal>>

\* TimeoutError
GiveUp(w) ==
    /\ pc[w] = "refused" /\ until[w] <= now
    /\ To(w, "idle")
    /\ UNCHANGED <<now, issued, lock, orphans, token, until, renewal>>

\* SET's answer arrives: the renewal task starts, and the body.
Start(w) ==
    /\ pc[w] = "granted"
    /\ To(w, "body")
    /\ renewal' = [renewal EXCEPT ![w] = "asleep"]
    /\ until' = [until EXCEPT ![w] = now + Interval]
    /\ UNCHANGED <<now, issued, lock, orphans, token>>

\* The renewal wakes up, WATCHes the key and GETs it.
Look(w) ==
    /\ renewal[w] = "asleep" /\ until[w] <= now
    /\ renewal' = [renewal EXCEPT ![w] = IF Holds(w) THEN "looked" ELSE "ended"]
    /\ UNCHANGED <<now, issued, lock, orphans, pc, token, until>>

\* EXEC of PEXPIRE; WatchError when the key is another's by now.
Renew(w) ==
    /\ renewal[w] = "looked"
    /\ renewal' = [renewal EXCEPT ![w] = "asleep"]
    /\ until' = [until EXCEPT ![w] = now + Interval]
    /\ IF Holds(w) THEN lock' = Key(token[w]) ELSE UNCHANGED lock
    /\ UNCHANGED <<now, issued, orphans, pc, token>>

\* Any other Redis error ends the renewal task; the body does not learn of it.
Falter(w) ==
    /\ renewal[w] \in {"asleep", "looked"} /\ until[w] <= now
    /\ renewal' = [renewal EXCEPT ![w] = "ended"]
    /\ UNCHANGED <<now, issued, lock, orphans, pc, token, until>>

\* The body ends or is cancelled: the renewal is cancelled first.
Finish(w) ==
    /\ pc[w] = "body"
    /\ To(w, "leaving")
    /\ renewal' = [renewal EXCEPT ![w] = "none"]
    /\ UNCHANGED <<now, issued, lock, orphans, token, until>>

\* Mutant: whoever owns the key, it is deleted.
ReleaseAny(w) ==
    /\ pc[w] = "leaving"
    /\ To(w, "idle")
    /\ lock' = Nobody
    /\ UNCHANGED <<now, issued, orphans, token, until, renewal>>

\* _release_pending_user_lock: WATCH and GET ...
Release(w) ==
    /\ pc[w] = "leaving"
    /\ To(w, IF Holds(w) THEN "freeing" ELSE "idle")
    /\ UNCHANGED <<now, issued, lock, orphans, token, until, renewal>>

\* ... and EXEC of DELETE.  WatchError when the key is another's by now, or
\* when a cancelled renewal reaches Redis in between; any error leaves the key
\* to its PX.
Delete(w) ==
    /\ pc[w] = "freeing"
    /\ To(w, "idle")
    /\ \/ Holds(w) /\ lock' = Nobody
       \/ UNCHANGED lock
    /\ UNCHANGED <<now, issued, orphans, token, until, renewal>>

\* The process dies, or the waiting update is cancelled: a SET on the wire
\* may still be served.
Crash(w) ==
    /\ pc[w] # "idle"
    /\ To(w, "idle")
    /\ renewal' = [renewal EXCEPT ![w] = "none"]
    /\ orphans' = IF pc[w] = "asking" THEN orphans \cup {token[w]} ELSE orphans
    /\ UNCHANGED <<now, issued, lock, token, until>>

ServeOrphan(t) ==
    /\ t \in orphans
    /\ orphans' = orphans \ {t}
    /\ IF Free THEN lock' = Key(t) ELSE UNCHANGED lock
    /\ UNCHANGED <<now, issued, pc, token, until, renewal>>

\* SET's answer takes at most Lag, and a renewal comes at most Lag late.
Prompt(w) ==
    pc[w] = "granted" \/ renewal[w] \in {"asleep", "looked"} => now < until[w] + Lag

Tick ==
    /\ now < MaxTime
    /\ \A w \in Workers : Prompt(w)
    /\ now' = now + 1
    /\ UNCHANGED <<issued, lock, orphans, pc, token, until, renewal>>

Step(w) ==
    \/ Enter(w) \/ Set(w) \/ Retry(w) \/ GiveUp(w) \/ Start(w) \/ Look(w) \/ Renew(w)
    \/ Falter(w) \/ Finish(w) \/ Release(w) \/ Delete(w) \/ Crash(w)

Next ==
    \/ \E w \in Workers : Step(w)
    \/ \E t \in Tokens : ServeOrphan(t)
    \/ Tick

Spec == Init /\ [][Next]_vars

---------------------------------------------------------------------------

\* The body runs and its renewal task is alive.
Protected(w) == pc[w] = "body" /\ renewal[w] # "ended"

\* No two coroutines are in the body of pending_user_lock for one user at a
\* time, except behind the back of one whose renewal task has ended.
PendingExclusion ==
    \A w, v \in Workers : Protected(w) /\ Protected(v) => w = v

Holder == IF \E w \in Workers : Protected(w)
          THEN CHOOSE w \in Workers : Protected(w)
          ELSE Nobody

Mutex == INSTANCE LeaseMutex WITH holder <- Holder

\* The Redis lease implements the abstract mutex; a coroutine whose renewal
\* task ends has lost it, whether it knows or not.
ImplementsMutex == Mutex!Spec
===========================================================================
