----------------------------- MODULE Antiflood -----------------------------
(***************************************************************************)
(* AntifloodEnforcerMiddleware (modules/antiflood): the last sender of a   *)
(* chat and a counter per user, in Redis, from which a message is judged   *)
(* to be one of a flood.  The handlers of messages interleave at every     *)
(* request to Redis; a counter lives for FLOOD_WINDOW_SECONDS.             *)
(***************************************************************************)
EXTENDS Integers, FiniteSets

CONSTANTS
    Users,         \* users the antiflood applies to
    Exempt,        \* administrators and whitelisted users, as one sender
    None,
    Handlers,      \* coroutines that handle messages
    Limit,         \* settings.message_count
    MaxMessages,   \* bound on the messages
    MaxCrashes     \* bound on the crashes of the process

VARIABLES
    last,       \* FLOOD_STATE_KEY
    count,      \* FLOOD_COUNT_KEY of every user, 0 if there is none
    ttl,        \* whether the key of a user expires
    handler,
    messages,   \* how many there have been
    crashes,
    streak,     \* history: the sender of the last messages in a row, and how many
    alone       \* history: the messages have been handled one after the other

vars == <<last, count, ttl, handler, messages, crashes, streak, alone>>

\* judged: the message follows one of the same sender.
Idle == [pc |-> "idle", user |-> None, judged |-> FALSE]

TypeOK ==
    /\ last \in Users \cup {Exempt, None}
    /\ count \in [Users -> 0 .. MaxMessages]
    /\ ttl \in [Users -> BOOLEAN]
    /\ \A h \in Handlers :
        /\ handler[h].pc \in {"idle", "last", "reset", "set", "count", "expire", "act", "forgive"}
        /\ handler[h].user \in Users \cup {None}
    /\ messages \in 0 .. MaxMessages
    /\ crashes \in 0 .. MaxCrashes
    /\ streak.user \in Users \cup {Exempt, None} /\ streak.length \in 0 .. MaxMessages
    /\ alone \in BOOLEAN

Init ==
    /\ last = None
    /\ count = [u \in Users |-> 0]
    /\ ttl = [u \in Users |-> FALSE]
    /\ handler = [h \in Handlers |-> Idle]
    /\ messages = 0
    /\ crashes = 0
    /\ streak = [user |-> None, length |-> 0]
    /\ alone = TRUE

Quiet == \A h \in Handlers : handler[h].pc = "idle"

\* Handlers whose message of u is not counted yet.
Uncounted(u) == {h \in Handlers : handler[h].user = u /\ handler[h].pc \in {"last", "reset", "set", "count"}}

\* The key of u is gone, and its streak starts anew.
Delete(u) ==
    /\ count' = [count EXCEPT ![u] = 0]
    /\ ttl' = [ttl EXCEPT ![u] = FALSE]

Forgotten(u) ==
    streak' = IF streak.user = u THEN [streak EXCEPT !.length = Cardinality(Uncounted(u))] ELSE streak

At(h, pc) == handler' = [handler EXCEPT ![h].pc = pc]

Said(u) ==
    /\ messages < MaxMessages
    /\ messages' = messages + 1
    /\ streak' = [user |-> u, length |-> 1 + IF streak.user = u THEN streak.length ELSE 0]

\* __call__ of a message of an exempt user, who becomes the last sender.
Pass ==
    /\ Said(Exempt)
    /\ last' = Exempt
    /\ alone' = (alone /\ Quiet)
    /\ UNCHANGED <<count, ttl, handler, crashes>>

\* __call__ of a message of u.
Receive(h, u) ==
    /\ handler[h].pc = "idle"
    /\ Said(u)
    /\ handler' = [handler EXCEPT ![h] = [Idle EXCEPT !.pc = "last", !.user = u]]
    /\ alone' = (alone /\ Quiet)
    /\ UNCHANGED <<last, count, ttl, crashes>>

\* _get_last_user, in _check_and_enforce.
GetLast(h) ==
    /\ handler[h].pc = "last"
    /\ handler' = [handler EXCEPT ![h] =
           IF last = @.user THEN [@ EXCEPT !.pc = "count", !.judged = TRUE] ELSE [@ EXCEPT !.pc = "reset"]]
    /\ UNCHANGED <<last, count, ttl, messages, crashes, streak, alone>>

\* _reset_flood_count, then _set_last_user.
Reset(h) ==
    /\ handler[h].pc = "reset"
    /\ Delete(handler[h].user)
    /\ At(h, "set")
    /\ UNCHANGED <<last, messages, crashes, streak, alone>>

SetLast(h) ==
    /\ handler[h].pc = "set"
    /\ last' = handler[h].user
    /\ At(h, "count")
    /\ UNCHANGED <<count, ttl, messages, crashes, streak, alone>>

\* The end of _check_and_enforce, with the count that INCR gave.
Judge(h, n) ==
    handler' = [handler EXCEPT ![h] = IF @.judged /\ n >= Limit THEN [@ EXCEPT !.pc = "act"] ELSE Idle]

\* Mutant: EXPIRE for the first message of a sender only.
IncrementFirst(h) ==
    /\ handler[h].pc = "count"
    /\ LET u == handler[h].user IN
       /\ count' = [count EXCEPT ![u] = @ + 1]
       /\ IF ~handler[h].judged THEN At(h, "expire") ELSE Judge(h, count'[u])
    /\ UNCHANGED <<last, ttl, messages, crashes, streak, alone>>

\* _increment_flood_count: INCR, and EXPIRE for a key that is new.
Increment(h) ==
    /\ handler[h].pc = "count"
    /\ LET u == handler[h].user IN
       /\ count' = [count EXCEPT ![u] = @ + 1]
       /\ IF count[u] = 0 THEN At(h, "expire") ELSE Judge(h, count'[u])
    /\ UNCHANGED <<last, ttl, messages, crashes, streak, alone>>

SetExpiry(h) ==
    /\ handler[h].pc = "expire"
    /\ LET u == handler[h].user IN ttl' = [ttl EXCEPT ![u] = count[u] > 0]
    /\ Judge(h, 1)
    /\ UNCHANGED <<last, count, messages, crashes, streak, alone>>

\* _handle_flood: _execute_action, which may be refused, then _reset_flood_count.
Act(h) ==
    /\ handler[h].pc = "act"
    /\ \/ At(h, "forgive")
       \/ handler' = [handler EXCEPT ![h] = Idle]
    /\ UNCHANGED <<last, count, ttl, messages, crashes, streak, alone>>

Forgive(h) ==
    /\ handler[h].pc = "forgive"
    /\ Delete(handler[h].user)
    /\ Forgotten(handler[h].user)
    /\ handler' = [handler EXCEPT ![h] = Idle]
    /\ UNCHANGED <<last, messages, crashes, alone>>

\* The window of u's counter ends.
Expire(u) ==
    /\ ttl[u]
    /\ Delete(u)
    /\ Forgotten(u)
    /\ UNCHANGED <<last, handler, messages, crashes, alone>>

Crash ==
    /\ ~Quiet
    /\ crashes < MaxCrashes
    /\ crashes' = crashes + 1
    /\ handler' = [h \in Handlers |-> Idle]
    /\ alone' = FALSE
    /\ UNCHANGED <<last, count, ttl, messages, streak>>

Next ==
    \/ Pass \/ Crash
    \/ \E u \in Users : Expire(u) \/ \E h \in Handlers : Receive(h, u)
    \/ \E h \in Handlers :
        GetLast(h) \/ Reset(h) \/ SetLast(h) \/ Increment(h) \/ SetExpiry(h) \/ Act(h) \/ Forgive(h)

Spec == Init /\ [][Next]_vars

---------------------------------------------------------------------------

\* Of messages that are handled one after the other the counter is the
\* number of the last ones in a row within its window, and none is punished
\* below the limit.  (_check_and_enforce)
CountsStreak ==
    alone =>
        /\ Quiet => last = streak.user /\ (last \in Users => count[last] = streak.length)
        /\ \A h \in Handlers : handler[h].pc = "act" =>
               streak.length >= Limit \/ count[handler[h].user] = 0    \* expired since

\* Whatever handlers interleave, a counter that never expires is one whose
\* EXPIRE is on its way, or was lost in a crash.  (_increment_flood_count)
CountersEnd ==
    crashes = 0 => \A u \in Users :
        count[u] > 0 /\ ~ttl[u] => \E h \in Handlers : handler[h].pc = "expire" /\ handler[h].user = u

FloodJudged == CountsStreak /\ CountersEnd
=============================================================================
