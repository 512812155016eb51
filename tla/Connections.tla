---------------------------- MODULE Connections ----------------------------
(***************************************************************************)
(* The connection of a user's private chat to a group (middlewares/        *)
(* connections, modules/connections).  Updates of the private chat are     *)
(* handled one by one, but /connect in a group runs beside them: all read  *)
(* the user's document, change it and save it whole.  The middleware ends  *)
(* a connection that expired, whose group is gone or to which the user has *)
(* lost the right; it looks at the right once in a lifetime of its mark in *)
(* Redis.                                                                  *)
(***************************************************************************)
EXTENDS Integers, FiniteSets

CONSTANTS
    Groups,
    Private,     \* the actor for the updates of the private chat
    InGroups,    \* the actors for /connect in groups
    Lifetime,    \* of a connection: 48 hours
    RecheckTtl,  \* _PERMISSION_RECHECK_TTL_SECONDS
    MaxTime,     \* bound on the clock
    MaxUpdates,  \* bound on the updates
    MaxChanges,  \* bound on the changes of rights and groups
    None

VARIABLES
    doc,        \* the ChatConnectionModel document of the user, or None
    allowed,    \* the groups that let the user connect
    gone,       \* the groups Sophie has left
    mark,       \* when the right was found, by group
    now,
    job,
    updates,
    changes,
    lost,       \* history: when the right was lost, by group
    wish,       \* history: the group of the last request that was granted, and those
                \* granted since updates last overlapped ("past")
    overlapped  \* history: updates overlapped since, or the middleware ended the connection

vars == <<doc, allowed, gone, mark, now, job, updates, changes, lost, wish, overlapped>>

Actors == {Private} \cup InGroups

NoJob == [pc |-> "idle"]

Ends == {"clear", "insert", "save"}

TypeOK ==
    /\ doc # None => doc.chat \in Groups \cup {None} /\ doc.history \subseteq Groups
    /\ allowed \subseteq Groups /\ gone \subseteq Groups /\ now \in 0 .. MaxTime
    /\ \A g \in Groups : mark[g] # None => mark[g] \in 0 .. now
    /\ updates \in 0 .. MaxUpdates /\ changes \in 0 .. MaxChanges
    /\ \A k \in Actors : job[k].pc \in {"idle", "fetch", "mark", "check", "trust", "served", "find", "lookup", "resolve"} \cup Ends
    /\ wish.chat \in Groups \cup {None} /\ wish.past \subseteq Groups /\ overlapped \in BOOLEAN

Init ==
    /\ doc = None
    /\ allowed \in SUBSET Groups /\ gone = {}
    /\ mark = [g \in Groups |-> None]
    /\ now = 0 /\ updates = 0 /\ changes = 0
    /\ job = [k \in Actors |-> NoJob]
    /\ lost = [g \in Groups |-> IF g \in allowed THEN None ELSE 0]
    /\ wish = [chat |-> None, past |-> {}] /\ overlapped = FALSE

Busy == {k \in Actors : job[k].pc # "idle"}

Go(k, pc) == job' = [job EXCEPT ![k].pc = pc]

Begin(k, new) ==
    /\ job[k].pc = "idle"
    /\ updates < MaxUpdates /\ updates' = updates + 1
    /\ overlapped' = (overlapped \/ Busy # {})
    /\ wish' = [wish EXCEPT !.past = IF Busy = {} THEN @ ELSE {}]
    /\ job' = [job EXCEPT ![k] = new]

---------------------------------------------------------------------------
(* ConnectionsMiddleware, for an update of the private chat *)

Expired(d) == d.until < now

\* The connection as it was read goes with the update.
Read ==
    /\ Begin(Private, [pc |-> IF doc = None \/ doc.chat = None THEN "served"
                              ELSE IF Expired(doc) THEN "clear" ELSE "fetch",
                       chat |-> IF doc = None THEN None ELSE doc.chat, read |-> doc, back |-> "served"])
    /\ UNCHANGED <<doc, allowed, gone, mark, now, changes, lost>>

Fetch ==
    /\ job[Private].pc = "fetch"
    /\ Go(Private, IF job[Private].chat \in gone THEN "clear" ELSE "mark")
    /\ UNCHANGED <<doc, allowed, gone, mark, now, updates, changes, lost, wish, overlapped>>

Marked(g) == mark[g] # None /\ now - mark[g] <= RecheckTtl

\* _is_permission_cached.
Mark ==
    /\ job[Private].pc = "mark"
    /\ Go(Private, IF Marked(job[Private].chat) THEN "served" ELSE "check")
    /\ UNCHANGED <<doc, allowed, gone, mark, now, updates, changes, lost, wish, overlapped>>

\* _check_connection_permissions.
Check ==
    /\ job[Private].pc = "check"
    /\ Go(Private, IF job[Private].chat \in allowed THEN "trust" ELSE "clear")
    /\ UNCHANGED <<doc, allowed, gone, mark, now, updates, changes, lost, wish, overlapped>>

Trust ==
    /\ job[Private].pc = "trust"
    /\ mark' = [mark EXCEPT ![job[Private].chat] = now]
    /\ Go(Private, "served")
    /\ UNCHANGED <<doc, allowed, gone, now, updates, changes, lost, wish, overlapped>>

---------------------------------------------------------------------------
(* The commands and buttons *)

\* The update is over.
Over ==
    /\ job[Private].pc = "served"
    /\ job' = [job EXCEPT ![Private] = NoJob]
    /\ UNCHANGED <<doc, allowed, gone, mark, now, updates, changes, lost, wish, overlapped>>

\* check_connection_permissions, then set_connected_chat.
Grant(k, g, from) ==
    /\ IF g \notin gone /\ g \in allowed
       THEN /\ job' = [job EXCEPT ![k] = [pc |-> "find", chat |-> g]]
            /\ wish' = [chat |-> g, past |-> IF Busy \ {k} = {} THEN wish.past \cup {g} ELSE {}]
            /\ overlapped' = (Busy \ {k} # {})
       ELSE job' = [job EXCEPT ![k] = NoJob] /\ UNCHANGED <<wish, overlapped>>

\* /connect with a group, its buttons, and the link of /start.
Connect(g) ==
    /\ job[Private].pc = "served" /\ g \in Groups
    /\ Grant(Private, g, "served")
    /\ UNCHANGED <<doc, allowed, gone, mark, now, updates, changes, lost>>

\* /connect in a group; what the handler of a group checks is not the
\* document.
ConnectInGroup(k, g) ==
    /\ job[k].pc = "idle" /\ updates < MaxUpdates /\ updates' = updates + 1
    /\ Grant(k, g, "idle")
    /\ UNCHANGED <<doc, allowed, gone, mark, now, changes, lost>>

\* /disconnect and its button, in a connected chat.
Disconnect ==
    /\ job[Private].pc = "served" /\ job[Private].chat # None
    /\ job' = [job EXCEPT ![Private] = [pc |-> "lookup"]]
    /\ wish' = [wish EXCEPT !.chat = None]
    /\ overlapped' = (Busy \ {Private} # {})
    /\ UNCHANGED <<doc, allowed, gone, mark, now, updates, changes, lost>>

Lookup ==
    /\ job[Private].pc = "lookup"
    /\ job' = [job EXCEPT ![Private] =
           IF doc = None THEN NoJob ELSE [pc |-> "clear", chat |-> None, read |-> doc, back |-> "idle"]]
    /\ UNCHANGED <<doc, allowed, gone, mark, now, updates, changes, lost, wish, overlapped>>

\* The document as it was read, without its group; then the update is
\* handled without a connection, or over.
Clear ==
    /\ job[Private].pc = "clear"
    /\ doc' = [job[Private].read EXCEPT !.chat = None]
    /\ job' = [job EXCEPT ![Private] =
           IF @.back = "served" THEN [@ EXCEPT !.pc = "served", !.chat = None] ELSE NoJob]
    /\ overlapped' = (overlapped \/ job[Private].back = "served")
    /\ UNCHANGED <<allowed, gone, mark, now, updates, changes, lost, wish>>

\* Mutant: without the groups it had.
FindNothing(k) ==
    /\ job[k].pc = "find"
    /\ job' = [job EXCEPT ![k] = [pc |-> IF doc = None THEN "insert" ELSE "save",
           new |-> [chat |-> job[k].chat, until |-> now + Lifetime, history |-> {job[k].chat}]]]
    /\ UNCHANGED <<doc, allowed, gone, mark, now, updates, changes, lost, wish, overlapped>>

\* The document as it is read now, with the new group; nothing if the group
\* has gone since it was granted.
Find(k) ==
    /\ job[k].pc = "find"
    /\ LET g == job[k].chat
           past == IF doc = None THEN {} ELSE doc.history
       IN job' = [job EXCEPT ![k] =
              IF g \in gone THEN NoJob
              ELSE [pc |-> IF doc = None THEN "insert" ELSE "save",
                    new |-> [chat |-> g, until |-> now + Lifetime, history |-> past \cup {g}]]]
    /\ UNCHANGED <<doc, allowed, gone, mark, now, updates, changes, lost, wish, overlapped>>

\* The unique index refuses a second document, and the command fails.
Store(k) ==
    /\ job[k].pc \in {"insert", "save"}
    /\ doc' = IF job[k].pc = "insert" /\ doc # None THEN doc ELSE job[k].new
    /\ job' = [job EXCEPT ![k] = NoJob]
    /\ UNCHANGED <<allowed, gone, mark, now, updates, changes, lost, wish, overlapped>>

\* A bare /connect reads the document for its buttons.
List ==
    /\ job[Private].pc = "served"
    /\ job' = [job EXCEPT ![Private] =
           IF doc = None \/ doc.history = {} THEN NoJob ELSE [pc |-> "resolve", read |-> doc]]
    /\ UNCHANGED <<doc, allowed, gone, mark, now, updates, changes, lost, wish, overlapped>>

\* The groups that are gone leave the history, and the document is saved as it
\* was read.
Resolve ==
    /\ job[Private].pc = "resolve"
    /\ LET read == job[Private].read
       IN job' = [job EXCEPT ![Private] =
              IF read.history \cap gone = {} THEN NoJob
              ELSE [pc |-> "save", new |-> [read EXCEPT !.history = @ \ gone]]]
    /\ UNCHANGED <<doc, allowed, gone, mark, now, updates, changes, lost, wish, overlapped>>

---------------------------------------------------------------------------

\* An administrator is made or dismissed, or /allow_users_connect.
Allow(g) ==
    /\ changes < MaxChanges /\ changes' = changes + 1
    /\ allowed' = IF g \in allowed THEN allowed \ {g} ELSE allowed \cup {g}
    /\ lost' = [lost EXCEPT ![g] = IF g \in allowed THEN now ELSE None]
    /\ UNCHANGED <<doc, gone, mark, now, job, updates, wish, overlapped>>

Vanish(g) ==
    /\ changes < MaxChanges /\ changes' = changes + 1
    /\ g \notin gone /\ gone' = gone \cup {g}
    /\ UNCHANGED <<doc, allowed, mark, now, job, updates, lost, wish, overlapped>>

\* What follows a look at the right takes no time on this clock.
Tick ==
    /\ now < MaxTime /\ now' = now + 1
    /\ job[Private].pc \notin {"trust", "mark", "served"}
    /\ UNCHANGED <<doc, allowed, gone, mark, job, updates, changes, lost, wish, overlapped>>

Next ==
    \/ Read \/ Fetch \/ Mark \/ Check \/ Trust \/ Over \/ Disconnect \/ Lookup \/ Clear \/ Tick
    \/ List \/ Resolve
    \/ \E g \in Groups : Connect(g) \/ Allow(g) \/ Vanish(g)
    \/ \E k \in InGroups, g \in Groups : ConnectInGroup(k, g)
    \/ \E k \in Actors : Find(k) \/ Store(k)

Spec == Init /\ [][Next]_vars

---------------------------------------------------------------------------

\* An update is handled for a group only while its user has the right or lost
\* it no longer ago than a mark lives.  (_is_permission_cached)
RightHeld ==
    job[Private].pc = "served" /\ job[Private].chat # None =>
        lost[job[Private].chat] = None \/ now - lost[job[Private].chat] <= RecheckTtl

\* Away from overlapping updates and until the middleware ends it, the
\* connection is the one the user asked for last, unless that group is gone.
\* (set_connected_chat)
LastWishKept ==
    Busy = {} /\ ~overlapped /\ wish.chat \notin gone =>
        IF doc = None THEN wish.chat = None ELSE doc.chat = wish.chat

\* Every group granted since updates last overlapped is remembered, until it is
\* gone: neither a connection, nor its end, nor a bare /connect forgets another.
\* (set_connected_chat, ConnectDMCmd.handle)
AllRemembered ==
    Busy = {} => wish.past \ gone \subseteq IF doc = None THEN {} ELSE doc.history

ConnectionsHold == RightHeld /\ LastWishKept /\ AllRemembered
=============================================================================
