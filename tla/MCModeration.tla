---------------------------- MODULE MCModeration ----------------------------
(***************************************************************************)
(* What restricts and exempts members, for TLC: MutePermissions, and the   *)
(* components around it, which share no state with it or each other.  A    *)
(* behaviour of this module is a behaviour of one of them: "component" is  *)
(* chosen at the start.  The variables of MutePermissions keep their       *)
(* initial values while another component runs; the others each take as    *)
(* many of the slots v1, v2, ... as they have and leave the rest None.     *)
(***************************************************************************)
EXTENDS MCMutePermissions, TLC

CONSTANTS
    Calls, Pair,
    MaxLapses,                            \* of GroupWhitelist
    WarnDefault, WarnLimits, MaxDeaths,   \* of Warns
    Users,                                \* of Antiflood and FilterEnforcement
    AdminSender, FloodLimit, MaxMessages, MaxCrashes   \* of Antiflood

VARIABLES
    component,
    v1, v2, v3, v4, v5, v6, v7, v8, v9, v10, v11

slots == <<v1, v2, v3, v4, v5, v6, v7, v8, v9, v10, v11>>

FiltersOfChat ==
    <<[ai |-> FALSE, actions |-> <<"mute", "reply">>, silent |-> FALSE],
      [ai |-> FALSE, actions |-> <<"reply">>, silent |-> TRUE],
      [ai |-> TRUE, actions |-> <<"reply">>, silent |-> FALSE]>>

Whitelist == INSTANCE GroupWhitelist WITH
    Tasks <- Calls,
    entry <- v1, cached <- v2, lock <- v3, chat <- v4, task <- v5, lapses <- v6,
    wanted <- v7, excuse <- v8

Warnings == INSTANCE Warns WITH
    DefaultLimit <- WarnDefault, Limits <- WarnLimits,
    warns <- v1, settings <- v2, call <- v3, deaths <- v4, pardoned <- v5

\* Two groups of one federation, and three updates.
Bans == INSTANCE FederationBans WITH
    Feds <- {"f"}, Chats <- {"c1", "c2"}, FedOf <- [c \in {"c1", "c2"} |-> "f"],
    Subscribed <- [f \in {"f"} |-> {}], Present <- {"c1", "c2"}, Jobs <- Calls, MaxBans <- 2,
    Faults <- {},
    records <- v1, newest <- v2, cached <- v3, banned <- v4, tasks <- v5, job <- v6,
    worker <- v7, lifted <- v8, excuse <- v9

\* Two users whose messages three coroutines handle.
Flood == INSTANCE Antiflood WITH
    Handlers <- Calls, Exempt <- AdminSender, Limit <- FloodLimit,
    last <- v1, count <- v2, ttl <- v3, handler <- v4, messages <- v5, crashes <- v6,
    streak <- v7, alone <- v8

\* Two chats, an administrator and another request.
Wizard == INSTANCE ActionWizard WITH
    Admins <- {"u"}, Requests <- {"r"}, Chats <- Pair, Handlers <- {"url", "ai"},
    LockTypes <- {"url"}, AIHandlers <- {"ai"}, Actions <- {"mute", "warn", "reply"},
    Payloads <- {{"mute"}}, Asking <- {"reply"}, FilterMax <- 2, ModelMax <- 1,
    AiLimit <- 1, Ids <- {1, 2}, MaxSessions <- 1, MaxWrites <- 3,
    stored <- v1, gone <- v2, settings <- v3, locked <- v4, connected <- v5, wizard <- v6,
    sessions <- v7, writes <- v8, job <- v9, asked <- v10, overlapped <- v11

\* Two messages of a member and of one who is exempt, three filters of which one is
\* a prompt, and midnight.
Enforcement == INSTANCE FilterEnforcement WITH
    Messages <- Pair, Exempt <- {"v"}, Filters <- FiltersOfChat,
    Exempting <- {"mute"}, Deferring <- {"reply"}, MaxTriggers <- 2, MessageLimit <- 1,
    ChatLimit <- 1, UserLimit <- 1, MaxTime <- 3,
    row <- v1, present <- v2, time <- v3, chatCount <- v4, userCount <- v5, counted <- v6,
    deletions <- v7, job <- v8, asked <- v9, performed <- v10, ghosts <- v11

\* Two commands, and two messages.
Locks == INSTANCE ChatLocks WITH
    Messages <- Pair, Types <- {"url", "all"}, Filtered <- {"all"}, Everything <- "all",
    Lower <- [t \in {"url", "all"} |-> t], Kinds <- {{"url"}, {}},
    Payloads <- {{"all"}}, Calls <- {"x", "y"}, MaxCalls <- 2, MaxFaults <- 1,
    docs <- v1, cache <- v2, call <- v3, message <- v4, calls <- v5, faults <- v6,
    wanted <- v7, overlapped <- v8, excused <- v9

\* Two groups of one community, of which one moves, and two updates.
Community == INSTANCE CommunityBans WITH
    Communities <- {"k"}, Chats <- {"c1", "c2"}, Present <- {"c1", "c2"}, Jobs <- Pair,
    MaxBans <- 2, MaxMoves <- 1, Faults <- {"ban", "unban", "crash"},
    home <- v1, edge <- v2, cooling <- v3, notes <- v4, records <- v5, newest <- v6,
    banned <- v7, tasks <- v8, job <- v9, worker <- v10, excuse <- v11

\* MutePermissions while another component runs.
AtRest == member = Unrestricted /\ snapshot = None /\ defaults = Rights

ModerationInit ==
    /\ Init
    /\ \/ /\ component = "mutes"
          /\ v1 = None /\ v2 = None /\ v3 = None /\ v4 = None /\ v5 = None /\ v6 = None /\ v7 = None
          /\ v8 = None /\ v9 = None /\ v10 = None /\ v11 = None
       \/ /\ component = "whitelist" /\ Whitelist!Init /\ AtRest
          /\ v9 = None /\ v10 = None /\ v11 = None
       \/ /\ component = "warns" /\ Warnings!Init /\ AtRest
          /\ v6 = None /\ v7 = None /\ v8 = None /\ v9 = None /\ v10 = None /\ v11 = None
       \/ component = "bans" /\ Bans!Init /\ AtRest /\ v10 = None /\ v11 = None
       \/ component = "flood" /\ Flood!Init /\ AtRest /\ v9 = None /\ v10 = None /\ v11 = None
       \/ component = "wizard" /\ Wizard!Init /\ AtRest
       \/ component = "filters" /\ Enforcement!Init /\ AtRest
       \/ component = "locks" /\ Locks!Init /\ AtRest /\ v10 = None /\ v11 = None
       \/ component = "communities" /\ Community!Init /\ AtRest

ModerationNext ==
    /\ UNCHANGED component
    /\ \/ component = "mutes" /\ Next /\ UNCHANGED slots
       \/ /\ component # "mutes" /\ UNCHANGED vars
          /\ \/ component = "whitelist" /\ Whitelist!Next /\ UNCHANGED <<v9, v10, v11>>
             \/ component = "warns" /\ Warnings!Next /\ UNCHANGED <<v6, v7, v8, v9, v10, v11>>
             \/ component = "bans" /\ Bans!Next /\ UNCHANGED <<v10, v11>>
             \/ component = "flood" /\ Flood!Next /\ UNCHANGED <<v9, v10, v11>>
             \/ component = "wizard" /\ Wizard!Next
             \/ component = "filters" /\ Enforcement!Next
             \/ component = "locks" /\ Locks!Next /\ UNCHANGED <<v10, v11>>
             \/ component = "communities" /\ Community!Next

ModerationSpec == ModerationInit /\ [][ModerationNext]_<<component, vars, slots>>

Symmetry == Permutations(Calls) \cup Permutations(Pair)

\* TLC explores three events of the world of MutePermissions: commands, changes
\* by an administrator and calls that fail.
FewEvents == budget.commands + budget.changes + budget.faults <= 3

-----------------------------------------------------------------------------
(* The properties of the components, each while its component runs *)

\* The variables of the components keep their types.
ModerationTypeOK ==
    /\ TypeOK
    /\ component = "whitelist" => Whitelist!TypeOK
    /\ component = "warns" => Warnings!TypeOK
    /\ component = "bans" => Bans!TypeOK
    /\ component = "flood" => Flood!TypeOK
    /\ component = "wizard" => Wizard!TypeOK
    /\ component = "filters" => Enforcement!TypeOK
    /\ component = "locks" => Locks!TypeOK
    /\ component = "communities" => Community!TypeOK

\* GroupWhitelist: the cache disagrees with MongoDB during a mutation only,
\* the migrated entry is what the last mutation asked for, and the locks never
\* make everybody wait for a lapse.
WhitelistHolds ==
    component = "whitelist" =>
        Whitelist!CacheFollowsEntries /\ Whitelist!MigrationKeepsIntent /\ Whitelist!SomebodyGoesOn

\* Warns: nobody sits at the limit unpunished.
NobodyAtLimit == component = "warns" => Warnings!NobodyAtLimit

\* FederationBans and CommunityBans: a record is in force in the chats of its
\* federation, or of its community; and in communities, where a chat is stored
\* in the one it is in, an unban finds every chat the user is banned in.
BansInForce ==
    /\ component = "bans" => Bans!BansInForce
    /\ component = "communities" => Community!CommunitiesHold

\* Antiflood: who sends too many messages in a row is judged, nobody else.
FloodJudged == component = "flood" => Flood!FloodJudged

\* ActionWizard and ChatLocks: what a wizard stores keeps the limits and its
\* chat, an answer goes to the prompt it was given for, and what a group has
\* locked is what its administrators asked for and is deleted.
RulesHold ==
    /\ component = "wizard" => Wizard!WizardHolds
    /\ component = "locks" => Locks!LocksHold

============================================================================
