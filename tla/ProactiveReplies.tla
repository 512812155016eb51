-------------------------- MODULE ProactiveReplies --------------------------
(***************************************************************************)
(* The replies nobody asked for in a group (modules/ai/utils/              *)
(* proactive_replies.py, proactive_tracking.py).  Every message is cached  *)
(* and tracked by its own update; the one that makes the tracked messages  *)
(* a batch takes a lock, shows the model the latest cached messages, acts  *)
(* on those the model picks and stops tracking the batch.  The lock is a   *)
(* key with a lifetime that whoever held it deletes.                       *)
(***************************************************************************)
EXTENDS Integers, FiniteSets

CONSTANTS
    LastMessage,    \* the messages are 1 .. LastMessage, in the order of their dates
    Batch,          \* messages a batch takes, which is also what starts one
    MaxActs,        \* answers and reactions of a batch
    MaxLive,        \* bound on the updates at once, those a later one overtakes included
    MaxAged,        \* bound on the messages that age
    None

Messages == 1 .. LastMessage

VARIABLES
    cache,      \* the cached messages of the chat
    tracked,    \* the sorted set of eligible messages
    aged,       \* messages up to this one are older than the window
    lock,       \* the update whose lock is in Redis
    job,        \* the update of every message
    served,     \* history: the batches that acted on every message
    done,       \* history: messages of batches that acted to the end
    lapsed,     \* history: a lock ran out before its batch
    alone,      \* history: updates in order, no batch broken off or overtaken
    vanished    \* history: messages whose sorted set ran out

vars == <<cache, tracked, aged, lock, job, served, done, lapsed, alone, vanished>>

history == <<served, done, lapsed, alone, vanished>>

NewJob == [pc |-> "new", batch |-> {}, acts |-> 0]

TypeOK ==
    /\ cache \subseteq Messages /\ tracked \subseteq Messages /\ done \subseteq Messages
    /\ aged \in Messages \cup {0}
    /\ lock \in Messages \cup {None}
    /\ \A m \in Messages :
        /\ job[m].pc \in {"new", "track", "lock", "load", "act", "unlock", "done"}
        /\ job[m].batch \subseteq Messages /\ job[m].acts \in 0 .. MaxActs
        /\ served[m] \subseteq Messages
    /\ lapsed \in BOOLEAN /\ alone \in BOOLEAN /\ vanished \subseteq Messages

Init ==
    /\ cache = {} /\ tracked = {}
    /\ aged = 0
    /\ lock = None
    /\ job = [m \in Messages |-> NewJob]
    /\ served = [m \in Messages |-> {}]
    /\ done = {}
    /\ lapsed = FALSE /\ alone = TRUE /\ vanished = {}

Go(m, pc) == job' = [job EXCEPT ![m] = [NewJob EXCEPT !.pc = pc]]

Recent == {m \in Messages : m > aged}

InBatch(m) == job[m].pc \in {"load", "act"}

\* The last messages of a set.
Latest(S, n) == {m \in S : Cardinality({k \in S : k > m}) < n}

---------------------------------------------------------------------------
(* CacheUserMessagesMiddleware and maybe_run_proactive_reply *)

\* The message's handlers are through; they may be in any order.
Cache(m) ==
    /\ job[m].pc = "new"
    /\ Cardinality({k \in Messages : job[k].pc \notin (IF k < m THEN {"done"} ELSE {"new", "done"})}) < MaxLive
    /\ cache' = cache \cup {m}
    /\ Go(m, "track")
    /\ alone' = (alone /\ \A k \in Messages : job[k].pc = IF k < m THEN "done" ELSE "new")
    /\ UNCHANGED <<tracked, aged, lock, served, done, lapsed, vanished>>

\* The chat has no quota left.
Skip(m) ==
    /\ job[m].pc = "track"
    /\ Go(m, "done")
    /\ UNCHANGED <<cache, tracked, aged, lock, served, done, lapsed, vanished>>
    /\ alone' = FALSE

Track(m) ==
    /\ job[m].pc = "track"
    /\ tracked' = (tracked \cup {m}) \cap Recent
    /\ Go(m, IF Cardinality(tracked') < Batch THEN "done" ELSE "lock")
    /\ UNCHANGED <<cache, aged, lock, history>>

Lock(m) ==
    /\ job[m].pc = "lock"
    /\ IF lock = None THEN lock' = m /\ Go(m, "load") ELSE UNCHANGED lock /\ Go(m, "done")
    /\ UNCHANGED <<cache, tracked, aged, history>>

\* get_recent_candidates: what is cached, not what is tracked.
Load(m) ==
    /\ job[m].pc = "load"
    /\ LET batch == Latest(cache \cap Recent, Batch) IN
       IF Cardinality(batch) < Batch THEN Go(m, "unlock")
       ELSE job' = [job EXCEPT ![m] = [pc |-> "act", batch |-> batch, acts |-> 0]]
    /\ UNCHANGED <<cache, tracked, aged, lock, history>>

\* One of the actions of the decision, which may pick a message again.
Act(m, target) ==
    /\ job[m].pc = "act" /\ job[m].acts < MaxActs
    /\ target \in job[m].batch
    /\ served' = [served EXCEPT ![target] = @ \cup {m}]
    /\ job' = [job EXCEPT ![m].acts = @ + 1]
    /\ UNCHANGED <<cache, tracked, aged, lock, done, lapsed, alone, vanished>>

\* clear_tracked_messages.
Clear(m) ==
    /\ job[m].pc = "act"
    /\ tracked' = tracked \ job[m].batch
    /\ done' = done \cup job[m].batch
    /\ Go(m, "unlock")
    /\ UNCHANGED <<cache, aged, lock, served, lapsed, alone, vanished>>

\* Mutant: a batch that fails is not tracked any more.
FailForgets(m) ==
    /\ InBatch(m)
    /\ tracked' = tracked \ job[m].batch
    /\ Go(m, "unlock")
    /\ alone' = FALSE
    /\ UNCHANGED <<cache, aged, lock, served, done, lapsed, vanished>>

\* The model or Telegram fails.
Fail(m) ==
    /\ InBatch(m)
    /\ Go(m, "unlock")
    /\ alone' = FALSE
    /\ UNCHANGED <<cache, tracked, aged, lock, served, done, lapsed, vanished>>

\* release_lock deletes the key, whoever set it.
Unlock(m) ==
    /\ job[m].pc = "unlock"
    /\ lock' = None
    /\ Go(m, "done")
    /\ UNCHANGED <<cache, tracked, aged, history>>

---------------------------------------------------------------------------

Age ==
    /\ aged < MaxAged
    /\ aged' = aged + 1
    /\ UNCHANGED <<cache, tracked, lock, job, history>>

\* The lock lives for two minutes.  It runs out under one batch.
Lapse ==
    /\ lock # None
    /\ job[lock].pc = "done" \/ ~lapsed
    /\ lock' = None
    /\ lapsed' = (lapsed \/ job[lock].pc # "done")
    /\ UNCHANGED <<cache, tracked, aged, job, served, done, alone, vanished>>

\* The sorted set lives for a day from its first message on: EXPIRE with
\* lt=True does not renew it, and what it holds by then goes with it.  Once.
Vanish ==
    /\ tracked # {} /\ vanished = {}
    /\ tracked' = {}
    /\ vanished' = vanished \cup tracked
    /\ UNCHANGED <<cache, aged, lock, job, served, done, lapsed, alone>>

\* The process of an update dies.
Die(m) ==
    /\ job[m].pc \notin {"new", "done"}
    /\ Go(m, "done")
    /\ alone' = FALSE
    /\ UNCHANGED <<cache, tracked, aged, lock, served, done, lapsed, vanished>>

Next ==
    \/ Age \/ Lapse \/ Vanish
    \/ \E m \in Messages :
        \/ Cache(m) \/ Skip(m) \/ Track(m) \/ Lock(m) \/ Load(m)
        \/ \E target \in Messages : Act(m, target)
        \/ Clear(m) \/ Fail(m) \/ Unlock(m) \/ Die(m)

Spec == Init /\ [][Next]_vars

---------------------------------------------------------------------------

\* Two batches of a chat run at once only when the lock of one ran out.
\* (acquire_lock, release_lock)
BatchesApart == lapsed \/ \A m, k \in Messages : InBatch(m) /\ InBatch(k) => m = k

\* A message that takes the lock was tracked, and while it is recent it stays
\* so until a batch with it has acted to the end, or its sorted set runs out:
\* a batch that fails or dies is tried again with the next message.
\* (track_eligible_message, clear_tracked_messages)
TrackedKept == \A m \in Messages :
    job[m].pc \in {"lock", "load", "act", "unlock"} => m \in tracked \cup done \cup vanished \/ m <= aged

\* When updates come one after the other, a message is acted on in one batch.
ServedOnce == alone /\ ~lapsed => \A m \in Messages : Cardinality(served[m]) <= 1

BatchesHold == BatchesApart /\ TrackedKept /\ ServedOnce
=============================================================================
