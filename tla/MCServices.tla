----------------------------- MODULE MCServices -----------------------------
(***************************************************************************)
(* MuteLock and the components around one cache, document or run of the    *)
(* model, for TLC.  They share no state, so a behaviour of this module is  *)
(* a behaviour of one of them: "component" is chosen at the start.  The    *)
(* variables of MuteLock keep their initial values while another component *)
(* runs; the others each take as many of the slots v1, v2, ... as they     *)
(* have and leave the rest None.  The lease of MuteLock is the shortest    *)
(* its assumption allows, so that the body's timeout falls one tick before *)
(* the takeover.                                                           *)
(***************************************************************************)
EXTENDS MuteLock, TLC

CONSTANTS
    Calls, Pair, Others, None,
    FlagDefault, FlagValues, Bucket, Percentages, Durations, MaxDay, MaxDeaths,   \* of FeatureFlags
    MaxResponses, MaxParts, MaxFaults,    \* of ReplyStream
    Default, Limits, Boosts, MaxMonth,    \* of AIQuota
    LastMessage, Batch, MaxActs, MaxLive, MaxAged,       \* of ProactiveReplies
    LastChat, Hours, HourOf, MaxHour, OpCommands, Cron   \* of ChatSummaries

VARIABLES
    component,
    v1, v2, v3, v4, v5, v6, v7, v8, v9, v10

slots == <<v1, v2, v3, v4, v5, v6, v7, v8, v9, v10>>

Flags == INSTANCE FeatureFlags WITH
    Default <- FlagDefault, Values <- FlagValues,
    stored <- v1, hot <- v2, day <- v3, call <- v4, deaths <- v5, stale <- v6

\* Three requests, whose turns do not fit the session together; a reset or a lapse.
Context == INSTANCE ModernContext WITH
    Jobs <- Calls, Room <- 2, MaxId <- 6, MaxUpsets <- 1,
    epoch <- v1, lock <- v2, session <- v3, cache <- v4, newest <- v5, lapses <- v6,
    job <- v7, fence <- v8

\* Two operators and one process.
Catalog == INSTANCE AICatalog WITH
    Providers <- Workers, Models <- Pair, Loads <- {"l"}, Operators <- Others,
    MaxVersion <- 2,
    providers <- v1, models <- v2, version <- v3, snapshot <- v4, built <- v5, load <- v6,
    op <- v7, torn <- v8

Request == INSTANCE AIRequest WITH
    Names <- 1 .. 5, LastResort <- 5, MaxRoles <- 3, MaxRequests <- 2,
    roles <- v1, pin <- v2, readers <- v3, images <- v4, kind <- v5, run <- v6, sent <- v7

Stream == INSTANCE ReplyStream WITH
    channel <- v1, emitted <- v2, response <- v3, streamer <- v4, reply <- v5, task <- v6,
    shown <- v7, ghosts <- v8, late <- v9, faults <- v10

Quotas == INSTANCE AIQuota WITH
    Jobs <- Calls,
    quotas <- v1, usages <- v2, month <- v3, job <- v4, charged <- v5, spent <- v6,
    notices <- v7, undone <- v8, alone <- v9

Summaries == INSTANCE ChatSummaries WITH
    Commands <- OpCommands,
    docs <- v1, hour <- v2, job <- v3, posted <- v4, byCron <- v5, pins <- v6, mixed <- v7

Proactive == INSTANCE ProactiveReplies WITH
    cache <- v1, tracked <- v2, aged <- v3, lock <- v4, job <- v5, served <- v6,
    done <- v7, lapsed <- v8, alone <- v9, vanished <- v10

ServicesInit ==
    /\ Init
    /\ \/ /\ component = "lock"
          /\ v1 = None /\ v2 = None /\ v3 = None /\ v4 = None /\ v5 = None /\ v6 = None /\ v7 = None
          /\ v8 = None /\ v9 = None /\ v10 = None
       \/ component = "flags" /\ Flags!Init /\ v7 = None /\ v8 = None /\ v9 = None /\ v10 = None
       \/ component = "context" /\ Context!Init /\ v9 = None /\ v10 = None
       \/ component = "catalog" /\ Catalog!Init /\ v9 = None /\ v10 = None
       \/ component = "request" /\ Request!Init /\ v8 = None /\ v9 = None /\ v10 = None
       \/ component = "stream" /\ Stream!Init
       \/ component = "quota" /\ Quotas!Init /\ v10 = None
       \/ component = "summaries" /\ Summaries!Init /\ v8 = None /\ v9 = None /\ v10 = None
       \/ component = "proactive" /\ Proactive!Init

ServicesNext ==
    /\ UNCHANGED component
    /\ \/ component = "lock" /\ Next /\ UNCHANGED slots
       \/ /\ component # "lock" /\ UNCHANGED vars
          /\ \/ component = "flags" /\ Flags!Next /\ UNCHANGED <<v7, v8, v9, v10>>
             \/ component = "context" /\ Context!Next /\ UNCHANGED <<v9, v10>>
             \/ component = "catalog" /\ Catalog!Next /\ UNCHANGED <<v9, v10>>
             \/ component = "request" /\ Request!Next /\ UNCHANGED <<v8, v9, v10>>
             \/ component = "stream" /\ Stream!Next
             \/ component = "quota" /\ Quotas!Next /\ UNCHANGED v10
             \/ component = "summaries" /\ Summaries!Next /\ UNCHANGED <<v8, v9, v10>>
             \/ component = "proactive" /\ Proactive!Next

ServicesSpec == ServicesInit /\ [][ServicesNext]_<<component, vars, slots>>

\* A numeric flag, which operators set to 0.
MCFlagDefault == <<"int", 2>>

MCFlagValues == {<<"int", 0>>}

\* A chat with its hour at midnight, and one with it at noon.
MCHourOf == <<0, 1>>

Symmetry == Permutations(Calls) \cup Permutations(Workers) \cup Permutations(Pair) \cup Permutations(Others)

-----------------------------------------------------------------------------
(* The properties of the components, each while its component runs *)

\* The variables of the components keep their types; among them, a stored session
\* fits its token budget, however many turns were committed to it (_prune).
ServicesTypeOK ==
    /\ TypeOK
    /\ component = "flags" => Flags!TypeOK
    /\ component = "context" => Context!TypeOK
    /\ component = "catalog" => Catalog!TypeOK
    /\ component = "request" => Request!TypeOK
    /\ component = "stream" => Stream!TypeOK
    /\ component = "quota" => Quotas!TypeOK
    /\ component = "summaries" => Summaries!TypeOK
    /\ component = "proactive" => Proactive!TypeOK

\* FeatureFlags: Redis outlives no deletion and no overwrite unnoticed, and a
\* lookup gives the value of the hierarchy, with its type.
FlagsHold == component = "flags" => Flags!CacheFollowsStore /\ Flags!HierarchyRespected

\* ModernContext: what is stored was said after the last reset, but for what a
\* request brings itself and answers of other handlers, and the model sees a
\* message once, unless a request quotes it.
ContextHolds == component = "context" => Context!ResetForgets /\ Context!ShownOnce

\* ModernContext: a committed turn is given up for the token budget only.
TurnsKept == [][component = "context" => Context!KeepsTurns]_<<component, slots>>

\* AICatalog and AIRequest: a process serves the catalog of its version, and a
\* request goes to the models of its plan, in order.
ModelsHold ==
    /\ component = "catalog" => Catalog!SnapshotFollows
    /\ component = "request" => Request!RightModels

\* ReplyStream: the message shows the answer once the reply is done.
ReplyShown == component = "stream" => Stream!ReplyShown

\* AIQuota: a chat pays for its requests of the month, once.
QuotaHolds == component = "quota" => Quotas!QuotaHolds

\* ChatSummaries: a day is posted once and its document is true.
SummariesHold == component = "summaries" => Summaries!SummariesHold

\* ProactiveReplies: batches run apart and lose no message.
BatchesHold == component = "proactive" => Proactive!BatchesHold
============================================================================
