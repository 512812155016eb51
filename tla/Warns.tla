------------------------------- MODULE Warns -------------------------------
(***************************************************************************)
(* The warns of one user in one chat (modules/warns): concurrent calls of  *)
(* warn_user, the settings document they create on first use, changes of   *)
(* the limit, deletions and resets.                                        *)
(*                                                                         *)
(* warn_user inserts, counts, runs the actions of every warn and then, at  *)
(* the limit, deletes the warns and runs the actions of the limit.  None   *)
(* of it is atomic, and an action may raise.  The collection of settings   *)
(* has no unique index: two first calls create two documents, of which     *)
(* find_one returns the older.                                             *)
(***************************************************************************)
EXTENDS Integers, Sequences, FiniteSets

CONSTANTS
    Calls,
    DefaultLimit,   \* max_warns of a new document
    Limits,         \* what administrators set
    MaxDeaths       \* bound on the calls that die

VARIABLES
    warns,      \* the WarnModel documents, by the call that inserted them
    settings,   \* the max_warns of the WarnSettingsModel documents, the oldest first
    call,
    deaths,
    pardoned    \* history: a call died before its warn was acted on, or the limit changed

vars == <<warns, settings, call, deaths, pardoned>>

New == [pc |-> "new", op |-> "none", doc |-> 0, limit |-> DefaultLimit, count |-> 0]

TypeOK ==
    /\ warns \subseteq Calls
    /\ settings \in Seq({DefaultLimit} \cup Limits) /\ Len(settings) <= Cardinality(Calls)
    /\ deaths \in 0 .. MaxDeaths
    /\ pardoned \in BOOLEAN
    /\ \A c \in Calls : /\ call[c].pc \in {"new", "create", "act", "insert", "count", "each", "limit", "max", "done"}
                        /\ call[c].doc \in 0 .. Len(settings)
                        /\ call[c].count \in 0 .. Cardinality(Calls)

Init ==
    /\ warns = {}
    /\ settings \in {<<>>, <<DefaultLimit>>}
    /\ call = [c \in Calls |-> New]
    /\ deaths = 0
    /\ pardoned = FALSE

Warning == {c \in Calls : call[c].op = "warn" /\ call[c].pc \notin {"new", "done"}}

Go(c, s) == call' = [call EXCEPT ![c].pc = s]

---------------------------------------------------------------------------
(* WarnSettingsModel.get_or_create, for warn_user and for a new limit *)

With(c, op, limit, doc) ==
    call' = [call EXCEPT ![c] =
        [New EXCEPT !.pc = IF op = "warn" THEN "insert" ELSE "act", !.op = op, !.doc = doc, !.limit = limit]]

\* WarnHandler, the warn action of filters and antiflood; warn_limit, PATCH /warns/settings.
Find(c, op, limit) ==
    /\ call[c].pc = "new"
    /\ IF settings = <<>> THEN call' = [call EXCEPT ![c] = [New EXCEPT !.pc = "create", !.op = op, !.limit = limit]]
       ELSE With(c, op, IF op = "warn" THEN settings[1] ELSE limit, 1)
    /\ UNCHANGED <<warns, settings, deaths, pardoned>>

Create(c) ==
    /\ call[c].pc = "create"
    /\ settings' = Append(settings, DefaultLimit)
    /\ With(c, call[c].op, IF call[c].op = "warn" THEN DefaultLimit ELSE call[c].limit, Len(settings'))
    /\ UNCHANGED <<warns, deaths, pardoned>>

\* settings.save() of the document the call holds.
SetLimit(c) ==
    /\ call[c].pc = "act"
    /\ settings' = [settings EXCEPT ![call[c].doc] = call[c].limit]
    /\ pardoned' = (pardoned \/ settings'[1] # settings[1])
    /\ Go(c, "done")
    /\ UNCHANGED <<warns, deaths>>

---------------------------------------------------------------------------
(* warn_user *)

Insert(c) ==
    /\ call[c].pc = "insert"
    /\ warns' = warns \cup {c}
    /\ Go(c, "count")
    /\ UNCHANGED <<settings, deaths, pardoned>>

\* Mutant: the count leaves the new warn out.
CountBefore(c) ==
    /\ call[c].pc = "count"
    /\ call' = [call EXCEPT ![c].pc = "each", ![c].count = Cardinality(warns \ {c})]
    /\ UNCHANGED <<warns, settings, deaths, pardoned>>

Count(c) ==
    /\ call[c].pc = "count"
    /\ call' = [call EXCEPT ![c].pc = "each", ![c].count = Cardinality(warns)]
    /\ UNCHANGED <<warns, settings, deaths, pardoned>>

\* The actions of every warn; a refused restriction counts as done.
Each(c) ==
    /\ call[c].pc = "each"
    /\ Go(c, IF call[c].count >= call[c].limit THEN "limit" ELSE "done")
    /\ UNCHANGED <<warns, settings, deaths, pardoned>>

\* All the warns of the user, those inserted since the count too.
Clear(c) ==
    /\ call[c].pc = "limit"
    /\ warns' = {}
    /\ Go(c, "max")
    /\ UNCHANGED <<settings, deaths, pardoned>>

\* The ban, or the actions of the limit.
Punish(c) ==
    /\ call[c].pc = "max"
    /\ Go(c, "done")
    /\ UNCHANGED <<warns, settings, deaths, pardoned>>

\* Telegram or MongoDB raises, or the process ends.
Die(c) ==
    /\ deaths < MaxDeaths /\ deaths' = deaths + 1
    /\ c \in Warning
    /\ Go(c, "done")
    /\ pardoned' = (pardoned \/ call[c].pc \in {"count", "each", "limit"})
    /\ UNCHANGED <<warns, settings>>

---------------------------------------------------------------------------
(* The buttons and routes that delete *)

\* delete_warn, DELETE /warns/<chat>/<warn>
DeleteWarn(w) ==
    /\ w \in warns
    /\ warns' = warns \ {w}
    /\ UNCHANGED <<settings, call, deaths, pardoned>>

\* ResetWarnsCallbackHandler, ResetAllWarnsCallbackHandler
Reset ==
    /\ warns # {} /\ warns' = {}
    /\ UNCHANGED <<settings, call, deaths, pardoned>>

Next ==
    \/ \E c \in Calls :
        \/ Find(c, "warn", DefaultLimit)
        \/ \E n \in Limits : Find(c, "limit", n)
        \/ Create(c) \/ SetLimit(c) \/ Insert(c) \/ Count(c) \/ Each(c) \/ Clear(c) \/ Punish(c)
        \/ Die(c) \/ DeleteWarn(c)
    \/ Reset

Spec == Init /\ [][Next]_vars

---------------------------------------------------------------------------

Limit == IF settings = <<>> THEN DefaultLimit ELSE settings[1]

\* Nobody sits at the limit unpunished: however the calls interleave with one
\* another, with deletions and with the creation of the settings, the last
\* call to count sees all the warns.  A call that dies between its insert and
\* the deletion leaves the user there, as does a limit that is lowered.
NobodyAtLimit ==
    Warning = {} /\ ~ pardoned => Cardinality(warns) < Limit
===========================================================================
