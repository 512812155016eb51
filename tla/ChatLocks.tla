----------------------------- MODULE ChatLocks -----------------------------
(***************************************************************************)
(* The message types a group locks (modules/locks): documents of MongoDB   *)
(* that commands and the REST API write, their copy in Redis, and the      *)
(* middlewares that delete what is locked.  A document is read, changed    *)
(* and saved whole; the copy is deleted after a write and filled by the    *)
(* next message.  Of a message only the types it is of are kept: which of  *)
(* LOCK_TYPE_CHECKS hold is a choice made when it arrives.                 *)
(***************************************************************************)
EXTENDS Integers, Sequences, FiniteSets, SequencesExt

CONSTANTS
    Calls,       \* commands and requests that change the locks
    Messages,    \* messages, and reactions of strangers
    Types,
    Filtered,    \* the types a filter of the group enforces
    Everything,  \* LockType.ALL
    Lower,       \* the type that /lock and /unlock make of their argument
    Kinds,       \* what messages may be: sets of types
    Payloads,    \* what the API may be asked to store
    MaxCalls,    \* bound on the changes
    MaxFaults,   \* bound on failing Redis calls and crashes
    None

VARIABLES
    docs,      \* the LocksModel documents of the group, oldest first
    cache,     \* the copy in Redis, or None
    call,
    message,
    calls,     \* changes begun
    faults,
    wanted,    \* history: what the changes have asked for, one after the other
    overlapped,\* history: two changes ran at once, or one was lost
    excused    \* history: the copy may be old

vars == <<docs, cache, call, message, calls, faults, wanted, overlapped, excused>>

NoCall == [pc |-> "idle"]

NoMessage == [pc |-> "new", kind |-> {}, locked |-> {}, held |-> {}, ever |-> {}, blurred |-> FALSE]

\* find_one gives the oldest document.
Stored == IF docs = <<>> THEN {} ELSE Head(docs)

TypeOK ==
    /\ \A i \in DOMAIN docs : docs[i] \subseteq Types
    /\ cache = None \/ cache \subseteq Types
    /\ \A k \in Calls : call[k].pc \in {"idle", "read", "save", "upsert", "insert", "drop"}
    /\ \A m \in Messages : message[m].pc \in {"new", "get", "find", "fill", "passed", "exempt", "removed"}
    /\ calls \in 0 .. MaxCalls /\ faults \in 0 .. MaxFaults
    /\ wanted \subseteq Types /\ overlapped \in BOOLEAN /\ excused \in BOOLEAN

Init ==
    /\ docs = <<>> /\ cache = None
    /\ call = [k \in Calls |-> NoCall]
    /\ message = [m \in Messages |-> NoMessage]
    /\ calls = 0 /\ faults = 0
    /\ wanted = {} /\ overlapped = FALSE /\ excused = FALSE

Busy == {k \in Calls : call[k].pc # "idle"}

Handled == {m \in Messages : message[m].pc \in {"get", "find", "fill"}}

\* What messages see of the locks while they are handled.
Watch(new, blurs) ==
    message' = [m \in Messages |->
        IF m \notin Handled THEN message[m]
        ELSE [message[m] EXCEPT !.held = @ \cap new, !.ever = @ \cup new, !.blurred = @ \/ blurs]]

---------------------------------------------------------------------------
(* The changes *)

\* What a change makes of the types it has read.
After(change, types) ==
    CASE change.op = "lock" -> types \cup {change.type}
      [] change.op = "unlock" -> types \ {change.type}
      [] change.op = "unlock_all" -> {}
      [] change.op = "put" -> change.types

Begin(k, change, pc) ==
    /\ call[k].pc = "idle"
    /\ calls < MaxCalls /\ calls' = calls + 1
    /\ call' = [call EXCEPT ![k] = [pc |-> pc, change |-> change, types |-> {}, new |-> FALSE]]
    /\ overlapped' = (overlapped \/ Busy # {})
    /\ UNCHANGED <<docs, cache, message, faults, wanted, excused>>

\* /lock and /unlock refuse what a filter enforces, unless it is locked, too.
Command(k, op, argument) ==
    /\ Lower[argument] \notin Filtered \/ Lower[argument] \in Stored
    /\ Begin(k, [op |-> op, type |-> Lower[argument]], "read")

\* /lock_sticker locks the pack under its own name.
LockSticker(k, type) == Begin(k, [op |-> "lock", type |-> type], "read")

\* The button of /unlock_all.
UnlockAll(k) == Begin(k, [op |-> "unlock_all"], "read")

Put(k, types) == Begin(k, [op |-> "put", types |-> types], "upsert")

\* get_by_chat_iid, and what needs no save.
Read(k) ==
    /\ call[k].pc = "read"
    /\ LET types == After(call[k].change, Stored) IN
       call' = [call EXCEPT ![k] =
           IF types # Stored THEN [@ EXCEPT !.pc = "save", !.types = types, !.new = docs = <<>>]
           ELSE IF @.change.op = "unlock_all" THEN NoCall
           ELSE [@ EXCEPT !.pc = "drop"]]
    /\ wanted' = After(call[k].change, wanted)
    /\ UNCHANGED <<docs, cache, message, calls, faults, overlapped, excused>>

Write(k, new) ==
    /\ docs' = new
    /\ call' = [call EXCEPT ![k].pc = "drop"]
    /\ Watch(Head(new), TRUE)

Save(k) ==
    /\ call[k].pc = "save"
    /\ Write(k, IF call[k].new THEN Append(docs, call[k].types) ELSE [docs EXCEPT ![1] = call[k].types])
    /\ UNCHANGED <<cache, calls, faults, wanted, overlapped, excused>>

\* upsert updates a document, or inserts one when there was none to update.
Upsert(k) ==
    /\ call[k].pc = "upsert"
    /\ LET types == call[k].change.types IN
       /\ wanted' = types
       /\ IF docs # <<>> THEN Write(k, [docs EXCEPT ![1] = types])
          ELSE call' = [call EXCEPT ![k].pc = "insert", ![k].types = types] /\ UNCHANGED <<docs, message>>
    /\ UNCHANGED <<cache, calls, faults, overlapped, excused>>

Insert(k) ==
    /\ call[k].pc = "insert"
    /\ Write(k, Append(docs, call[k].types))
    /\ UNCHANGED <<cache, calls, faults, wanted, overlapped, excused>>

\* Mutant: the copy is left to its lifetime.
DropNothing(k) ==
    /\ call[k].pc = "drop"
    /\ call' = [call EXCEPT ![k] = NoCall]
    /\ UNCHANGED <<docs, cache, message, calls, faults, wanted, overlapped, excused>>

\* invalidate_locks_cache; an error of Redis is logged.
Drop(k) ==
    /\ call[k].pc = "drop"
    /\ cache' = None
    /\ excused' = FALSE
    /\ call' = [call EXCEPT ![k] = NoCall]
    /\ UNCHANGED <<docs, message, calls, faults, wanted, overlapped>>

Fault == faults < MaxFaults /\ faults' = faults + 1

DropFails(k) ==
    /\ call[k].pc = "drop" /\ Fault
    /\ call' = [call EXCEPT ![k] = NoCall]
    /\ excused' = (excused \/ cache # None)
    /\ Watch(Stored, excused')
    /\ UNCHANGED <<docs, cache, calls, wanted, overlapped>>

Die(k) ==
    /\ call[k].pc # "idle" /\ Fault
    /\ call' = [call EXCEPT ![k] = NoCall]
    /\ excused' = (excused \/ (call[k].pc = "drop" /\ cache # None))
    /\ overlapped' = TRUE
    /\ Watch(Stored, excused')
    /\ UNCHANGED <<docs, cache, calls, wanted>>

---------------------------------------------------------------------------
(* LocksEnforcerMiddleware and ReactionLocksEnforcerMiddleware *)

\* A message of somebody neither administrator nor whitelisted; others pass.
Receive(m, kind) ==
    /\ message[m].pc = "new"
    /\ message' = [message EXCEPT ![m] =
           [NoMessage EXCEPT !.pc = "get", !.kind = kind, !.held = Stored, !.ever = Stored,
                             !.blurred = excused \/ \E k \in Calls : call[k].pc = "drop"]]
    /\ UNCHANGED <<docs, cache, call, calls, faults, wanted, overlapped, excused>>

Exempt(m) ==
    /\ message[m].pc = "new"
    /\ message' = [message EXCEPT ![m].pc = "exempt"]
    /\ UNCHANGED <<docs, cache, call, calls, faults, wanted, overlapped, excused>>

\* check_locks.
Matches(kind, locked) == Everything \in locked \/ kind \cap locked # {}

\* A match deletes the message, or the whole album it is in.
Judge(m, locked) ==
    message' = [message EXCEPT ![m].pc =
        IF Matches(message[m].kind, locked) THEN "removed" ELSE "passed"]

\* get_cached_locks, when Redis has the copy.
Get(m) ==
    /\ message[m].pc = "get"
    /\ IF cache # None THEN Judge(m, cache) ELSE message' = [message EXCEPT ![m].pc = "find"]
    /\ UNCHANGED <<docs, cache, call, calls, faults, wanted, overlapped, excused>>

\* Redis fails, and the document is read.
GetFails(m) ==
    /\ message[m].pc = "get" /\ cache # None /\ Fault
    /\ message' = [message EXCEPT ![m].pc = "find"]
    /\ UNCHANGED <<docs, cache, call, calls, wanted, overlapped, excused>>

\* A group without a document is never cached.
Find(m) ==
    /\ message[m].pc = "find"
    /\ IF docs = <<>> THEN Judge(m, {})
       ELSE message' = [message EXCEPT ![m].pc = "fill", ![m].locked = Stored]
    /\ UNCHANGED <<docs, cache, call, calls, faults, wanted, overlapped, excused>>

\* MongoDB fails, and nothing is locked.
FindFails(m) ==
    /\ message[m].pc = "find" /\ Fault
    /\ message' = [message EXCEPT ![m].pc = "passed", ![m].blurred = TRUE]
    /\ UNCHANGED <<docs, cache, call, calls, wanted, overlapped, excused>>

\* set_cached_locks, however old what was read.
Fill(m) ==
    /\ message[m].pc = "fill"
    /\ cache' = message[m].locked
    /\ excused' = (excused \/ message[m].locked # Stored)
    /\ message' = [k \in Messages |->
           IF k = m THEN [message[m] EXCEPT !.pc =
                IF Matches(message[m].kind, message[m].locked) THEN "removed" ELSE "passed"]
           ELSE [message[k] EXCEPT !.blurred = @ \/ (k \in Handled /\ excused')]]
    /\ UNCHANGED <<docs, call, calls, faults, wanted, overlapped>>

\* CACHE_TTL.
Lapse ==
    /\ cache # None
    /\ cache' = None /\ excused' = FALSE
    /\ UNCHANGED <<docs, call, message, calls, faults, wanted, overlapped>>

Next ==
    \/ \E k \in Calls :
        \/ \E op \in {"lock", "unlock"}, argument \in DOMAIN Lower : Command(k, op, argument)
        \/ \E type \in Types \ {Everything} : LockSticker(k, type)
        \/ \E types \in Payloads : Put(k, types)
        \/ UnlockAll(k) \/ Read(k) \/ Save(k) \/ Upsert(k) \/ Insert(k) \/ Drop(k) \/ DropFails(k) \/ Die(k)
    \/ \E m \in Messages :
        \/ \E kind \in Kinds : Receive(m, kind)
        \/ Exempt(m) \/ Get(m) \/ GetFails(m) \/ Find(m) \/ FindFails(m) \/ Fill(m)
    \/ Lapse

Spec == Init /\ [][Next]_vars

---------------------------------------------------------------------------

\* The copy differs from the document only while a change is about to delete
\* it, or until it lapses after a fill that a change overtook, a failed
\* deletion or a crash.  (get_cached_locks, invalidate_locks_cache)
CacheFollows ==
    cache # None /\ cache # Stored => excused \/ \E k \in Calls : call[k].pc = "drop"

\* Changes one after the other leave what they ask for, in one document.
\* (LocksModel.lock, unlock, unlock_multiple; set_locked_types)
ChangesKept == ~overlapped =>
    /\ Len(docs) <= 1
    /\ Busy = {} => Stored = wanted

\* Away from changes and old copies a message goes exactly when it is of a
\* locked type.  (LocksEnforcerMiddleware)
Enforced == \A m \in Messages :
    /\ message[m].pc = "removed" /\ ~message[m].blurred => Matches(message[m].kind, message[m].ever)
    /\ message[m].pc = "passed" /\ ~message[m].blurred => ~Matches(message[m].kind, message[m].held)

LocksHold == CacheFollows /\ ChangesKept /\ Enforced
=============================================================================
