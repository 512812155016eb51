----------------------------- MODULE MuteLock -----------------------------
(***************************************************************************)
(* The MongoDB lease of restrictions/utils/restrictions.py (_mute_lock)    *)
(* for one (chat, user) pair.  Every moderation write of the bot and of    *)
(* the scheduler process runs inside it.                                   *)
(*                                                                         *)
(* A worker reads the clock, sends a find_one_and_update that takes the    *)
(* lease when it is absent or its lock_until is not after that reading,    *)
(* and sleeps and retries when MongoDB answers DuplicateKeyError.  The     *)
(* command and its answer travel separately, so a cancelled attempt may    *)
(* still take the lease later.  The whole acquisition is bounded by        *)
(* AcquireTimeout, the body by BodyTimeout, and the lease lasts Lease.     *)
(* MongoDB's TTL monitor may delete a document whose lock_until has passed *)
(* at any time.  A crash forgets the worker but not its lease.             *)
(***************************************************************************)
EXTENDS Integers, FiniteSets

CONSTANTS
    Workers,          \* the coroutines that want the lease
    Nobody,           \* no lease document, no worker
    AcquireTimeout,   \* asyncio.timeout(10) around the acquisition loop
    BodyTimeout,      \* asyncio.timeout(45) around the body
    Lease,            \* timedelta(seconds=60) of the lease
    MaxTime,          \* bound on the clock
    MaxTokens         \* bound on the number of acquisitions

ASSUME WorkersAssumption == Nobody \notin Workers

ASSUME TimesAssumption ==
    /\ AcquireTimeout \in Nat
    /\ BodyTimeout \in Nat
    /\ Lease \in Nat
    /\ MaxTime \in Nat
    /\ MaxTokens \in Nat

\* "Bound the operation below the lease duration": 10 + 45 < 60.
ASSUME LeaseAssumption == AcquireTimeout + BodyTimeout < Lease

VARIABLES
    now,       \* the clock the workers and MongoDB share
    issued,    \* number of tokens (uuid4) drawn so far
    lock,      \* the lease document, or Nobody
    wire,      \* find_one_and_update commands MongoDB has not served yet
    granted,   \* awaited tokens MongoDB answered with the document
    refused,   \* awaited tokens MongoDB answered with DuplicateKeyError
    pc,        \* where each worker is
    token,     \* the token of each worker's current acquisition
    timeout    \* when the asyncio.timeout the worker is in fires

vars == <<now, issued, lock, wire, granted, refused, pc, token, timeout>>

Tokens == 1 .. MaxTokens
Commands == [token : Tokens, at : 0 .. MaxTime]
Documents == [token : Tokens, until : Nat]

ASSUME NobodyAssumption == Nobody \notin Documents

TypeOK ==
    /\ now \in 0 .. MaxTime
    /\ issued \in 0 .. MaxTokens
    /\ lock \in {Nobody} \cup Documents
    /\ wire \in SUBSET Commands
    /\ granted \in SUBSET Tokens
    /\ refused \in SUBSET Tokens
    /\ pc \in [Workers -> {"idle", "trying", "sent", "body", "leaving"}]
    /\ token \in [Workers -> 0 .. MaxTokens]
    /\ timeout \in [Workers -> Nat]

Init ==
    /\ now = 0
    /\ issued = 0
    /\ lock = Nobody
    /\ wire = {}
    /\ granted = {}
    /\ refused = {}
    /\ pc = [w \in Workers |-> "idle"]
    /\ token = [w \in Workers |-> 0]
    /\ timeout = [w \in Workers |-> 0]

---------------------------------------------------------------------------

\* execute_restriction enters _mute_lock with a token of its own.
Enter(w) ==
    /\ pc[w] = "idle"
    /\ issued < MaxTokens
    /\ issued' = issued + 1
    /\ token' = [token EXCEPT ![w] = issued + 1]
    /\ timeout' = [timeout EXCEPT ![w] = now + AcquireTimeout]
    /\ pc' = [pc EXCEPT ![w] = "trying"]
    /\ UNCHANGED <<now, lock, wire, granted, refused>>

\* One turn of the loop: read the clock and send the command.
Send(w) ==
    /\ pc[w] = "trying"
    /\ pc' = [pc EXCEPT ![w] = "sent"]
    /\ wire' = wire \cup {[token |-> token[w], at |-> now]}
    /\ UNCHANGED <<now, issued, lock, granted, refused, token, timeout>>

\* Mutant: the lease is taken over while its holder's body still runs.
TakesEarly(c) == lock = Nobody \/ (lock # Nobody /\ lock.until <= c.at + BodyTimeout)

\* The filter {"_id": lock_id, "lock_until": {"$lte": now}} with upsert=True.
Takes(c) == lock = Nobody \/ (lock # Nobody /\ lock.until <= c.at)

\* A worker still waits for the answer to this command.
Awaited(c) == \E w \in Workers : pc[w] = "sent" /\ token[w] = c.token

\* MongoDB serves a command; the _id index arbitrates.  The answer to a
\* cancelled command is dropped, its effect is not.
Serve(c) ==
    /\ c \in wire
    /\ wire' = wire \ {c}
    /\ \/ /\ Takes(c)
          /\ lock' = [token |-> c.token, until |-> c.at + Lease]
          /\ granted' = IF Awaited(c) THEN granted \cup {c.token} ELSE granted
          /\ UNCHANGED refused
       \/ /\ ~ Takes(c)
          /\ refused' = IF Awaited(c) THEN refused \cup {c.token} ELSE refused
          /\ UNCHANGED <<lock, granted>>
    /\ UNCHANGED <<now, issued, pc, token, timeout>>

\* Mutant: the body is bounded by the lease instead of by BodyTimeout.
StartUnbounded(w) ==
    /\ pc[w] = "sent"
    /\ token[w] \in granted
    /\ granted' = granted \ {token[w]}
    /\ pc' = [pc EXCEPT ![w] = "body"]
    /\ timeout' = [timeout EXCEPT ![w] = now + Lease]
    /\ UNCHANGED <<now, issued, lock, wire, refused, token>>

\* The answer is the document: leave the loop and start the body's timeout.
Start(w) ==
    /\ pc[w] = "sent"
    /\ token[w] \in granted
    /\ granted' = granted \ {token[w]}
    /\ pc' = [pc EXCEPT ![w] = "body"]
    /\ timeout' = [timeout EXCEPT ![w] = now + BodyTimeout]
    /\ UNCHANGED <<now, issued, lock, wire, refused, token>>

\* The answer is DuplicateKeyError: sleep and try again.
Retry(w) ==
    /\ pc[w] = "sent"
    /\ token[w] \in refused
    /\ refused' = refused \ {token[w]}
    /\ pc' = [pc EXCEPT ![w] = "trying"]
    /\ UNCHANGED <<now, issued, lock, wire, granted, token, timeout>>

\* The worker no longer listens.
Forget(w) ==
    /\ pc' = [pc EXCEPT ![w] = "idle"]
    /\ granted' = granted \ {token[w]}
    /\ refused' = refused \ {token[w]}

\* asyncio.timeout(10) fires before the lease is held: nothing releases a
\* lease that the cancelled command takes, or has taken.
GiveUp(w) ==
    /\ pc[w] \in {"trying", "sent"}
    /\ now = timeout[w]
    /\ Forget(w)
    /\ UNCHANGED <<now, issued, lock, wire, token, timeout>>

\* The body returns or raises.
Finish(w) ==
    /\ pc[w] = "body"
    /\ pc' = [pc EXCEPT ![w] = "leaving"]
    /\ UNCHANGED <<now, issued, lock, wire, granted, refused, token, timeout>>

\* Mutant: delete_one({"_id": lock_id}), whoever holds the lease.
ReleaseAny(w) ==
    /\ pc[w] = "leaving"
    /\ pc' = [pc EXCEPT ![w] = "idle"]
    /\ lock' = Nobody
    /\ UNCHANGED <<now, issued, wire, granted, refused, token, timeout>>

\* finally: delete_one({"_id": lock_id, "lock_token": token}).
Release(w) ==
    /\ pc[w] = "leaving"
    /\ pc' = [pc EXCEPT ![w] = "idle"]
    /\ lock' = IF lock # Nobody /\ lock.token = token[w] THEN Nobody ELSE lock
    /\ UNCHANGED <<now, issued, wire, granted, refused, token, timeout>>

\* The process dies, or the delete fails: the lease stays.
Crash(w) ==
    /\ pc[w] # "idle"
    /\ Forget(w)
    /\ UNCHANGED <<now, issued, lock, wire, token, timeout>>

\* The TTL index on lock_until, expireAfterSeconds=0.
Expire ==
    /\ lock # Nobody
    /\ lock.until <= now
    /\ lock' = Nobody
    /\ UNCHANGED <<now, issued, wire, granted, refused, pc, token, timeout>>

\* Time passes, but not past a timeout that has to fire: asyncio cancels the
\* coroutine at the deadline (the event loop is not stalled).
Waiting(w) == pc[w] \in {"trying", "sent", "body"}

Tick ==
    /\ now < MaxTime
    /\ \A w \in Workers : Waiting(w) => now < timeout[w]
    /\ now' = now + 1
    /\ UNCHANGED <<issued, lock, wire, granted, refused, pc, token, timeout>>

Step(w) ==
    Enter(w) \/ Send(w) \/ Start(w) \/ Retry(w) \/ GiveUp(w)
             \/ Finish(w) \/ Release(w) \/ Crash(w)

Next ==
    \/ \E w \in Workers : Step(w)
    \/ \E c \in wire : Serve(c)
    \/ Expire
    \/ Tick

Spec == Init /\ [][Next]_vars

---------------------------------------------------------------------------

\* At most one worker runs the body, whatever the order in which commands,
\* answers, timeouts, crashes and TTL deletions happen: "a stalled worker
\* cannot continue issuing requests after another worker acquires the expired
\* lease" (_mute_lock).
MutualExclusion ==
    \A v, w \in Workers : pc[v] = "body" /\ pc[w] = "body" => v = w

\* The lease document of a worker in the body is its own and outlives the
\* body's timeout: no TTL deletion, takeover or late finally clause of an
\* earlier holder removes it before the body is over.
LeaseOutlivesBody ==
    \A w \in Workers : pc[w] = "body" =>
        /\ lock # Nobody
        /\ lock.token = token[w]
        /\ now <= timeout[w]
        /\ timeout[w] < lock.until

\* The worker in the body, as the abstract mutex sees it.
Holder ==
    IF \E w \in Workers : pc[w] = "body"
    THEN CHOOSE w \in Workers : pc[w] = "body"
    ELSE Nobody

Mutex == INSTANCE LeaseMutex WITH holder <- Holder

\* The lease implements the mutex: the body passes from one worker to another
\* only by being left and then entered.
ImplementsMutex == Mutex!Spec
===========================================================================
