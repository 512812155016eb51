--------------------------- MODULE FeatureFlags ---------------------------
(***************************************************************************)
(* One numeric feature flag of one chat (utils/feature_flags.py): the      *)
(* override of the chat, the global override and the rollout, each stored  *)
(* in MongoDB and cached in Redis without a time to live.                  *)
(*                                                                         *)
(* A call is cut at its awaits.  Every write goes to MongoDB first and to  *)
(* Redis second; a read that misses Redis fills it from MongoDB.  Nothing  *)
(* locks a flag, and the bot and the REST API are two processes.           *)
(*                                                                         *)
(* A value is <<type, number>>.  Redis keeps the number only, as text, and *)
(* parse_feature_override restores the type.  Days are the clock.          *)
(***************************************************************************)
EXTENDS Integers

CONSTANTS
    Calls, None,
    Default,      \* _DEFAULT_STATES[feature]
    Values,       \* what operators set
    Bucket,       \* _chat_rollout_bucket(feature, chat), 0 .. 99
    Percentages,  \* what operators roll out or bump by
    Durations,    \* of timed rollouts, in days
    MaxDay,       \* bound on the clock
    MaxDeaths     \* bound on the calls that die

VARIABLES
    stored,   \* the FeatureFlagOverride documents
    hot,      \* the fields in Redis
    day,
    call,
    deaths,
    stale     \* history: the keys whose field an interleaving or a death outdated

vars == <<stored, hot, day, call, deaths, stale>>

Keys == {"chat", "global", "rollout"}

Override(value, source) ==
    [value |-> value, source |-> source, start |-> 0, target |-> 0, since |-> 0, days |-> 0]

\* FeatureRollout; days = 0 stands for duration_days None.
Rollout(value, start, target, days) ==
    [value |-> value, source |-> "manual", start |-> start, target |-> target, since |-> day, days |-> days]

At(s) == [pc |-> s, op |-> "none", key |-> "chat", doc |-> None, arg |-> 0, value |-> Default,
          quiet |-> FALSE, expected |-> Default]

TypeOK ==
    /\ \A k \in Keys :
        /\ stored[k] # None => stored[k].value \in Values
        /\ hot[k] # None => hot[k].value \in {v[2] : v \in Values}
        /\ k # "chat" /\ stored[k] # None => stored[k].source = "manual"
    /\ stored["rollout"] # None => 0 <= stored["rollout"].start /\ stored["rollout"].target <= 100
    /\ day \in 0 .. MaxDay
    /\ deaths \in 0 .. MaxDeaths
    /\ stale \in SUBSET Keys
    /\ \A c \in Calls : /\ call[c].pc \in {"new", "hget", "find", "warm", "save", "publish", "done"}
                        /\ call[c].key \in Keys
                        /\ call[c].value \in {Default} \cup Values

---------------------------------------------------------------------------
(* Pure functions *)

\* serialize_feature_value, _serialize_rollout; the source is not cached.
Serialize(doc) == IF doc = None THEN None
                  ELSE [doc EXCEPT !.value = @[2], !.source = "manual"]

\* parse_feature_override: "0" and "1" read as booleans, which a numeric flag
\* turns back into numbers.
Parse(n) ==
    LET parsed == IF n \in {0, 1} THEN <<"bool", n>> ELSE <<"int", n>>
    IN IF parsed[1] = "bool" /\ Default[1] = "int" THEN <<"int", n>> ELSE parsed

\* get_rollout_percentage
Percentage(doc) ==
    LET elapsed == day - doc.since IN
    IF doc.days = 0 \/ elapsed >= doc.days THEN doc.target
    ELSE doc.start + ((doc.target - doc.start) * elapsed) \div doc.days

\* _is_chat_in_rollout
InRollout(percentage) == percentage > 0 /\ Bucket < percentage

\* "Chat Override -> Global Override -> Rollout Cohort -> Default"
\* (feature-flags/SKILL.md), on the documents alone.
Effective ==
    IF stored["chat"] # None THEN stored["chat"].value
    ELSE IF stored["global"] # None THEN stored["global"].value
    ELSE IF stored["rollout"] # None /\ InRollout(Percentage(stored["rollout"]))
         THEN stored["rollout"].value
    ELSE Default

---------------------------------------------------------------------------
(* Calls *)

Init ==
    /\ stored \in [Keys -> {None}] \cup
                  {[k \in Keys |-> IF k = "rollout" THEN [Override(v, "manual") EXCEPT !.target = p] ELSE None] :
                      v \in Values, p \in Percentages}
    /\ hot = [k \in Keys |-> None]
    /\ day = 0
    /\ call = [c \in Calls |-> At("new")]
    /\ deaths = 0
    /\ stale = {}

Active == {c \in Calls : call[c].pc \notin {"new", "done"}}

\* A call starts; the calls that are under way are no longer alone.
Begin(c, start) ==
    /\ call[c].pc = "new"
    /\ call' = [d \in Calls |->
        IF d = c THEN [start EXCEPT !.quiet = (Active = {} /\ stale = {}), !.expected = Effective]
        ELSE [call[d] EXCEPT !.quiet = @ /\ d \notin Active]]
    /\ UNCHANGED <<stored, hot, day, deaths, stale>>

\* get_value(feature, chat_tid)
Get(c) == Begin(c, [At("hget") EXCEPT !.op = "get"])

\* get_all_overrides, list_chat_overrides, list_rollouts: read MongoDB, fill
\* Redis.
List(c, k) == Begin(c, [At("find") EXCEPT !.op = "list", !.key = k])

\* set_value, set_chat_override; for a key and a document, or None to delete.
SetOverride(c, k, v) ==
    k # "rollout" /\ Begin(c, [At("save") EXCEPT !.op = "set", !.key = k, !.doc = Override(v, "manual")])

\* delete_override, delete_chat_override, delete_rollout
Delete(c, k) == Begin(c, [At("save") EXCEPT !.op = "delete", !.key = k])

\* set_rollout
SetRollout(c, p, v) ==
    Begin(c, [At("save") EXCEPT !.op = "set", !.key = "rollout", !.doc = Rollout(v, p, p, 0)])

\* set_timed_rollout, bump_rollout: read the rollout first.
SetTimed(c, days, v) ==
    Begin(c, [At("hget") EXCEPT !.op = "timed", !.key = "rollout", !.arg = days, !.value = v])

Bump(c, p) == Begin(c, [At("hget") EXCEPT !.op = "bump", !.key = "rollout", !.arg = p])

Go(c, s) == call' = [call EXCEPT ![c].pc = s]

\* Only a lookup that ran alone is remembered.
Return(c, v) ==
    call' = [call EXCEPT ![c] =
        IF call[c].op = "get" /\ call[c].quiet
        THEN [At("done") EXCEPT !.quiet = TRUE, !.value = v, !.expected = call[c].expected]
        ELSE At("done")]

Write(c, k, doc) ==
    call' = [call EXCEPT ![c].pc = "save", ![c].key = k, ![c].doc = doc, ![c].value = doc.value]

\* The document of the key is known.
Found(c, doc) ==
    CASE call[c].op = "get" /\ call[c].key # "rollout" -> Return(c, doc.value)
      [] call[c].op = "get" /\ call[c].key = "rollout" ->
            IF InRollout(Percentage(doc)) THEN Write(c, "chat", Override(doc.value, "rollout"))
            ELSE Return(c, Default)
      [] call[c].op = "timed" -> Write(c, "rollout", Rollout(call[c].value, Percentage(doc), 100, call[c].arg))
      [] call[c].op = "bump" ->
            LET p == Percentage(doc) + call[c].arg
                bumped == IF p > 100 THEN 100 ELSE p
            IN Write(c, "rollout", Rollout(doc.value, bumped, bumped, 0))
      [] OTHER -> Return(c, Default)

\* There is none: the next level of the hierarchy, a timed rollout from 0, or
\* the error of a bump.
Missing(c) ==
    CASE call[c].op = "get" /\ call[c].key = "chat" ->
            call' = [call EXCEPT ![c].pc = "hget", ![c].key = "global"]
      [] call[c].op = "get" /\ call[c].key = "global" ->
            call' = [call EXCEPT ![c].pc = "hget", ![c].key = "rollout"]
      [] call[c].op = "get" /\ call[c].key = "rollout" -> Return(c, Default)
      [] call[c].op = "timed" -> Write(c, "rollout", Rollout(call[c].value, 0, 100, call[c].arg))
      [] OTHER -> Return(c, Default)

\* _resolve_cached_override, get_rollout: Redis ...
Hget(c) ==
    LET field == hot[call[c].key] IN
    /\ call[c].pc = "hget"
    /\ IF field # None THEN Found(c, [field EXCEPT !.value = Parse(@)]) ELSE Go(c, "find")
    /\ UNCHANGED <<stored, hot, day, deaths, stale>>

\* ... then MongoDB ...
Find(c) ==
    LET doc == stored[call[c].key] IN
    /\ call[c].pc = "find"
    /\ IF doc = None THEN Missing(c)
       ELSE call' = [call EXCEPT ![c].pc = "warm", ![c].doc = doc]
    /\ UNCHANGED <<stored, hot, day, deaths, stale>>

\* ... and Redis is filled with what MongoDB said.
Warm(c) ==
    LET k == call[c].key IN
    /\ call[c].pc = "warm"
    /\ hot' = [hot EXCEPT ![k] = Serialize(call[c].doc)]
    /\ stale' = IF Serialize(stored[k]) # Serialize(call[c].doc) THEN stale \cup {k} ELSE stale
    /\ Found(c, call[c].doc)
    /\ UNCHANGED <<stored, day, deaths>>

\* FeatureFlagOverride.set_override (an upsert) or delete_override.
Save(c) ==
    /\ call[c].pc = "save"
    /\ stored' = [stored EXCEPT ![call[c].key] = call[c].doc]
    /\ Go(c, "publish")
    /\ UNCHANGED <<hot, day, deaths, stale>>

\* Mutant: a deletion leaves Redis alone.
PublishKept(c) ==
    LET k == call[c].key IN
    /\ call[c].pc = "publish"
    /\ hot' = IF call[c].doc = None THEN hot ELSE [hot EXCEPT ![k] = Serialize(call[c].doc)]
    /\ stale' = IF Serialize(stored[k]) # Serialize(call[c].doc) THEN stale \cup {k} ELSE stale
    /\ Return(c, call[c].value)
    /\ UNCHANGED <<stored, day, deaths>>

\* hset or hdel.
Publish(c) ==
    LET k == call[c].key IN
    /\ call[c].pc = "publish"
    /\ hot' = [hot EXCEPT ![k] = Serialize(call[c].doc)]
    /\ stale' = IF Serialize(stored[k]) # Serialize(call[c].doc) THEN stale \cup {k} ELSE stale
    /\ Return(c, call[c].value)
    /\ UNCHANGED <<stored, day, deaths>>

\* An exception of Redis or MongoDB, a cancelled request, a restart.
Die(c) ==
    /\ deaths < MaxDeaths /\ deaths' = deaths + 1
    /\ c \in Active
    /\ call' = [call EXCEPT ![c] = At("done")]
    /\ stale' = IF call[c].pc = "publish" THEN stale \cup {call[c].key} ELSE stale
    /\ UNCHANGED <<stored, hot, day>>

Tick ==
    /\ day < MaxDay
    /\ day' = day + 1
    /\ call' = [c \in Calls |-> [call[c] EXCEPT !.quiet = @ /\ c \notin Active]]
    /\ UNCHANGED <<stored, hot, deaths, stale>>

Next ==
    \/ \E c \in Calls :
        \/ Get(c)
        \/ \E k \in Keys : List(c, k) \/ Delete(c, k)
        \/ \E k \in Keys, v \in Values : SetOverride(c, k, v)
        \/ \E p \in Percentages, v \in Values : SetRollout(c, p, v)
        \/ \E n \in Durations, v \in Values : SetTimed(c, n, v)
        \/ \E p \in Percentages : Bump(c, p)
        \/ Hget(c) \/ Find(c) \/ Warm(c) \/ Save(c) \/ Publish(c) \/ Die(c)
    \/ Tick

Spec == Init /\ [][Next]_vars

---------------------------------------------------------------------------

\* Redis has no time to live, so a field that is wrong stays wrong.  Outside a
\* write, a field says what MongoDB says, unless a write overtook the one that
\* filled it, or a call died between its two writes: no other order of
\* lookups, listings, rollouts and deletions leaves an outdated field.
CacheFollowsStore ==
    \A k \in Keys \ stale :
        (\A c \in Calls : ~ (call[c].pc = "publish" /\ call[c].key = k))
            => hot[k] \in {None, Serialize(stored[k])}

\* A lookup that runs alone gives the value of the hierarchy, with the type of
\* the flag, whatever the earlier calls left in Redis, and the chat that
\* enters a cohort keeps that value (get_value).
HierarchyRespected ==
    \A c \in Calls :
        call[c].pc = "done" /\ call[c].quiet => call[c].value = call[c].expected

\* "Chat Override -> Global Override -> Rollout Cohort -> Default"
\* (feature-flags/SKILL.md): a rollout does not replace an override that an
\* administrator of the chat, or an operator, has set.
ManualOverridePrevails ==
    [][~ (/\ stored["chat"] # None /\ stored["chat"].source = "manual"
          /\ stored'["chat"] # None /\ stored'["chat"].source = "rollout")]_vars
===========================================================================
