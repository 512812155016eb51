------------------------- MODULE MCModeration_proofs -------------------------
(***************************************************************************)
(* Properties that the runs moderation and scheduler check: those of the   *)
(* components Warns, Antiflood and GroupWhitelist, for every set of calls, *)
(* and those of ActionWizard, ChatLocks, FederationBans and CommunityBans, *)
(* with the constants they have there. Their invariants are proved in      *)
(* Groups_proofs, Documents_proofs and Restrictions_proofs, for all their  *)
(* constants; what is left to show is that a behaviour of MCModeration, or *)
(* of MCScheduler, with that component is a behaviour of the component.    *)
(***************************************************************************)
EXTENDS MCModeration, MCScheduler, FiniteSetTheorems, TLAPS

\* The constants of the other components of Groups_proofs are not needed.
MP == INSTANCE Groups_proofs WITH
    Exempt <- AdminSender,
    Items <- {}, FlushDelay <- 0, FlushTtl <- 0, LastTick <- 0,
    Feds <- {}, Chats <- {}, Handlers <- {}, FedLimit <- 0, MaxRequests <- 0,
    Known <- {}, AdminTtl <- 0, AdminIds <- {}, AdminTime <- 0, AdminChanges <- 0, AdminFaults <- 0,
    Groups <- {}, Private <- None, InGroups <- {}, LinkLifetime <- 0, LinkTtl <- 0, LinkTime <- 0,
    LinkUpdates <- 0, LinkChanges <- 0

\* Nor are those of Documents_proofs that are not about its ChatLocks and
\* ActionWizard.
MD == INSTANCE Documents_proofs WITH
    FlagDefault <- None, FlagValues <- {}, Bucket <- 0, Percentages <- {}, Durations <- {}, MaxDay <- 0,
    MaxResponses <- 0, MaxParts <- 0, MaxFaults <- 0, Default <- 0, Limits <- {}, Boosts <- {}, MaxMonth <- 0,
    LastMessage <- 0, Batch <- 0, MaxActs <- 0, MaxLive <- 0, MaxAged <- 0,
    LastChat <- 0, Hours <- 0, HourOf <- <<>>, MaxHour <- 0, OpCommands <- {}, Cron <- None,
    LockCallers <- {"x", "y"}, Posts <- Pair, Lockable <- {"url", "all"}, Filtered <- {"all"}, Everything <- "all",
    Lower <- [t \in {"url", "all"} |-> t], Kinds <- {{"url"}, {}}, LockPayloads <- {{"all"}},
    MaxEdits <- 2, MaxSlips <- 1,
    Wizards <- {"u"}, RuleRequests <- {"r"}, RuleChats <- Pair, Rules <- {"url", "ai"},
    LockRules <- {"url"}, Prompts <- {"ai"}, Actions <- {"mute", "warn", "reply"},
    ActionPayloads <- {{"mute"}}, Asking <- {"reply"}, FilterMax <- 2, ModelMax <- 1,
    AiLimit <- 1, FilterIds <- {1, 2}, MaxSessions <- 1, MaxWrites <- 3

\* The snapshots of members are the variables of MCModeration itself.
MR == INSTANCE Restrictions_proofs WITH
    Updates <- Calls, Feds <- {"f"}, Chats <- {"c1", "c2"}, FedOf <- [c \in {"c1", "c2"} |-> "f"],
    Subscribed <- [f \in {"f"} |-> {}], Present <- {"c1", "c2"}, MaxBans <- 2, BanFaults <- {},
    TownUpdates <- Pair, Communities <- {"k"}, TownChats <- {"c1", "c2"}, TownPresent <- {"c1", "c2"},
    MaxTownBans <- 2, MaxMoves <- 1, TownFaults <- {"ban", "unban", "crash"}

\* FederationBans has variables of its own in MCScheduler, and subscriptions.
MS == INSTANCE Restrictions_proofs WITH
    Updates <- BanJobs, Feds <- BanFeds, Chats <- BanChats, FedOf <- BanFedOf,
    Subscribed <- BanSubscribed, Present <- BanChats, MaxBans <- 3, BanFaults <- BanFaults,
    TownUpdates <- {}, Communities <- {}, TownChats <- {}, TownPresent <- {}, MaxTownBans <- 0,
    MaxMoves <- 0, TownFaults <- {},
    v1 <- records, v2 <- newest, v3 <- cached, v4 <- banned, v5 <- tasks, v6 <- job, v7 <- worker,
    v8 <- lifted, v9 <- excuse

\* A step of MCModeration is a step of the chosen component, and of no other.
LEMMA ComponentSteps ==
    ASSUME [ModerationNext]_<<component, vars, slots>>
    PROVE  /\ component' = component
           /\ component = "warns" => [Warnings!Next]_<<v1, v2, v3, v4, v5>>
           /\ component = "flood" => [Flood!Next]_<<v1, v2, v3, v4, v5, v6, v7, v8>>
           /\ component = "whitelist" => [Whitelist!Next]_<<v1, v2, v3, v4, v5, v6, v7, v8>>
           /\ component = "locks" => [Locks!Next]_<<v1, v2, v3, v4, v5, v6, v7, v8, v9>>
           /\ component = "wizard" => [Wizard!Next]_slots
           /\ component = "bans" => [Bans!Next]_<<v1, v2, v3, v4, v5, v6, v7, v8, v9>>
           /\ component = "communities" => [Community!Next]_slots
<1>1. CASE ModerationNext
  BY <1>1 DEF ModerationNext
<1>2. CASE UNCHANGED <<component, vars, slots>>
  BY <1>2 DEF slots
<1> QED
  BY <1>1, <1>2

-----------------------------------------------------------------------------
(* Warns *)

WarnsKept == component = "warns" => MP!WarnsInv

\* The invariant of Warns holds while Warns is the component.
LEMMA WarnsKeptAlways ==
    ASSUME MP!WarnsUsual PROVE ModerationSpec => []WarnsKept
<1>1. ModerationInit => WarnsKept
  <2> SUFFICES ASSUME ModerationInit, component = "warns" PROVE MP!WarnsInv
    BY DEF WarnsKept
  <2>1. Warnings!Init
    BY DEF ModerationInit
  <2>2. MP!W!Init
    BY <2>1 DEF Warnings!Init, MP!W!Init, Warnings!New, MP!W!New
  <2> QED
    BY <2>2, MP!WarnsBegin
<1>2. WarnsKept /\ [ModerationNext]_<<component, vars, slots>> => WarnsKept'
  <2> SUFFICES ASSUME WarnsKept, [ModerationNext]_<<component, vars, slots>>, component' = "warns"
               PROVE  MP!WarnsInv'
    BY DEF WarnsKept
  <2>1. component = "warns" /\ MP!WarnsInv /\ [Warnings!Next]_<<v1, v2, v3, v4, v5>>
    BY ComponentSteps DEF WarnsKept
  <2>2. [MP!W!Next]_(MP!W!vars)
    BY <2>1 DEF Warnings!Next, MP!W!Next, Warnings!Find, MP!W!Find, Warnings!With,
        MP!W!With, Warnings!New, MP!W!New, Warnings!Create, MP!W!Create,
        Warnings!Go, MP!W!Go, Warnings!SetLimit, MP!W!SetLimit, Warnings!Insert,
        MP!W!Insert, Warnings!Count, MP!W!Count, Warnings!Each, MP!W!Each,
        Warnings!Clear, MP!W!Clear, Warnings!Punish, MP!W!Punish, Warnings!Die,
        MP!W!Die, Warnings!Warning, MP!W!Warning, Warnings!DeleteWarn,
        MP!W!DeleteWarn, Warnings!Reset, MP!W!Reset, Warnings!vars,
        MP!W!vars, Warnings!Cardinality, MP!W!Cardinality, Warnings!IsFiniteSet,
        MP!W!IsFiniteSet
  <2> QED
    BY <2>1, <2>2, MP!WarnsNextPreserves
<1> QED
  BY <1>1, <1>2, PTL DEF ModerationSpec

\* Warns: nobody sits at the limit unpunished, for every set of calls.
THEOREM ModerationWarnsJudged ==
    ASSUME MP!WarnsUsual PROVE ModerationSpec => []NobodyAtLimit
<1>1. WarnsKept => NobodyAtLimit
  <2> SUFFICES ASSUME WarnsKept, component = "warns" PROVE Warnings!NobodyAtLimit
    BY DEF NobodyAtLimit
  <2>1. MP!W!NobodyAtLimit
    BY MP!WarnsInvImplies DEF WarnsKept
  <2> QED
    BY <2>1 DEF MP!W!NobodyAtLimit, Warnings!NobodyAtLimit, MP!W!Limit,
        Warnings!Limit, MP!W!Warning, Warnings!Warning, MP!W!Cardinality,
        Warnings!Cardinality, MP!W!IsFiniteSet, Warnings!IsFiniteSet
<1> QED
  BY <1>1, WarnsKeptAlways, PTL

-----------------------------------------------------------------------------
(* Antiflood *)

FloodKept == component = "flood" => MP!FloodInv

\* The invariant of Antiflood holds while it is the component.
LEMMA FloodKeptAlways ==
    ASSUME MP!FloodUsual PROVE ModerationSpec => []FloodKept
<1>1. ModerationInit => FloodKept
  <2> SUFFICES ASSUME ModerationInit, component = "flood" PROVE MP!FloodInv
    BY DEF FloodKept
  <2>1. Flood!Init
    BY DEF ModerationInit
  <2>2. MP!F!Init
    BY <2>1 DEF Flood!Init, MP!F!Init, Flood!Idle, MP!F!Idle
  <2> QED
    BY <2>2, MP!FloodBegins
<1>2. FloodKept /\ [ModerationNext]_<<component, vars, slots>> => FloodKept'
  <2> SUFFICES ASSUME FloodKept, [ModerationNext]_<<component, vars, slots>>, component' = "flood"
               PROVE  MP!FloodInv'
    BY DEF FloodKept
  <2>1. /\ component = "flood" /\ MP!FloodInv
        /\ [Flood!Next]_<<v1, v2, v3, v4, v5, v6, v7, v8>>
    BY ComponentSteps DEF FloodKept
  <2>2. [MP!F!Next]_(MP!F!vars)
    BY <2>1 DEF Flood!vars, MP!F!vars, Flood!Idle, MP!F!Idle, Flood!Quiet, MP!F!Quiet,
        Flood!Uncounted, MP!F!Uncounted, Flood!Delete, MP!F!Delete, Flood!Forgotten,
        MP!F!Forgotten, Flood!At, MP!F!At, Flood!Said, MP!F!Said, Flood!Pass,
        MP!F!Pass, Flood!Receive, MP!F!Receive, Flood!GetLast, MP!F!GetLast,
        Flood!Reset, MP!F!Reset, Flood!SetLast, MP!F!SetLast, Flood!Judge, MP!F!Judge,
        Flood!Increment, MP!F!Increment, Flood!SetExpiry, MP!F!SetExpiry, Flood!Act,
        MP!F!Act, Flood!Forgive, MP!F!Forgive, Flood!Expire, MP!F!Expire, Flood!Crash,
        MP!F!Crash, Flood!Next, MP!F!Next, Flood!Cardinality, MP!F!Cardinality,
        Flood!IsFiniteSet, MP!F!IsFiniteSet
  <2> QED
    BY <2>1, <2>2, MP!FloodNextPreserves
<1> QED
  BY <1>1, <1>2, PTL DEF ModerationSpec

\* Antiflood: the counter is the streak, nobody is punished below the limit
\* and a counter ends unless a crash lost its EXPIRE, for every set of calls.
THEOREM ModerationFloodJudged ==
    ASSUME MP!FloodUsual PROVE ModerationSpec => []FloodJudged
<1>1. FloodKept => FloodJudged
  <2> SUFFICES ASSUME FloodKept, component = "flood" PROVE Flood!FloodJudged
    BY DEF FloodJudged
  <2>1. MP!F!FloodJudged
    BY MP!FloodInvImplies DEF FloodKept
  <2> QED
    BY <2>1 DEF MP!F!FloodJudged, Flood!FloodJudged, MP!F!CountsStreak, Flood!CountsStreak,
       MP!F!CountersEnd, Flood!CountersEnd, MP!F!Quiet, Flood!Quiet
<1> QED
  BY <1>1, FloodKeptAlways, PTL

-----------------------------------------------------------------------------
(* GroupWhitelist *)

WhitelistKept == component = "whitelist" => MP!WhitelistInv

\* The invariant of GroupWhitelist holds while it is the component.
LEMMA WhitelistKeptAlways ==
    ASSUME MP!NoneIsNoTask PROVE ModerationSpec => []WhitelistKept
<1>1. ModerationInit => WhitelistKept
  <2> SUFFICES ASSUME ModerationInit, component = "whitelist" PROVE MP!WhitelistInv
    BY DEF WhitelistKept
  <2>1. Whitelist!Init
    BY DEF ModerationInit
  <2>2. MP!G!Init
    BY <2>1 DEF Whitelist!Init, MP!G!Init, Whitelist!At, MP!G!At, Whitelist!Locks,
        MP!G!Locks, Whitelist!Chats, MP!G!Chats
  <2> QED
    BY <2>2, MP!EntryBegins
<1>2. WhitelistKept /\ [ModerationNext]_<<component, vars, slots>> => WhitelistKept'
  <2> SUFFICES ASSUME WhitelistKept, [ModerationNext]_<<component, vars, slots>>,
                      component' = "whitelist"
               PROVE  MP!WhitelistInv'
    BY DEF WhitelistKept
  <2>1. /\ component = "whitelist" /\ MP!WhitelistInv
        /\ [Whitelist!Next]_<<v1, v2, v3, v4, v5, v6, v7, v8>>
    BY ComponentSteps DEF WhitelistKept
  <2>2. [MP!G!Next]_(MP!G!vars)
    BY <2>1 DEF Whitelist!vars, MP!G!vars, Whitelist!Chats, MP!G!Chats,
        Whitelist!Migration, MP!G!Migration, Whitelist!Membership,
        MP!G!Membership, Whitelist!Locks, MP!G!Locks, Whitelist!At,
        MP!G!At, Whitelist!Go, MP!G!Go, Whitelist!Take, MP!G!Take,
        Whitelist!Mutate, MP!G!Mutate, Whitelist!Look, MP!G!Look,
        Whitelist!Migrate, MP!G!Migrate, Whitelist!Receive, MP!G!Receive,
        Whitelist!Behind, MP!G!Behind, Whitelist!Acquire, MP!G!Acquire,
        Whitelist!GiveUp, MP!G!GiveUp, Whitelist!Lapse, MP!G!Lapse,
        Whitelist!Release, MP!G!Release, Whitelist!Ahead, MP!G!Ahead,
        Whitelist!Write, MP!G!Write, Whitelist!Forget, MP!G!Forget,
        Whitelist!Recheck, MP!G!Recheck, Whitelist!Read, MP!G!Read,
        Whitelist!FillUnfenced, MP!G!FillUnfenced, Whitelist!Fill, MP!G!Fill,
        Whitelist!Entries, MP!G!Entries, Whitelist!Find, MP!G!Find,
        Whitelist!Move, MP!G!Move, Whitelist!Drop, MP!G!Drop, Whitelist!Expire,
        MP!G!Expire, Whitelist!Step, MP!G!Step, Whitelist!Next, MP!G!Next,
        Whitelist!Pending, MP!G!Pending
  <2> QED
    BY <2>1, <2>2, MP!EntryNextPreserves
<1> QED
  BY <1>1, <1>2, PTL DEF ModerationSpec

\* GroupWhitelist: the cache follows the entry, a migration keeps what the
\* last mutation asked for and the locks never deadlock, for every set of
\* calls.
THEOREM ModerationWhitelistHolds ==
    ASSUME MP!NoneIsNoTask PROVE ModerationSpec => []WhitelistHolds
<1>1. WhitelistKept => WhitelistHolds
  <2> SUFFICES ASSUME WhitelistKept, component = "whitelist"
               PROVE  /\ Whitelist!CacheFollowsEntries
                      /\ Whitelist!MigrationKeepsIntent /\ Whitelist!SomebodyGoesOn
    BY DEF WhitelistHolds
  <2>1. MP!G!CacheFollowsEntries
    BY DEF WhitelistKept, MP!WhitelistInv
  <2>2. MP!G!MigrationKeepsIntent
    BY MP!InvMeansIntent DEF WhitelistKept
  <2>3. MP!G!SomebodyGoesOn
    BY MP!InvMeansSomebodyGoesOn DEF WhitelistKept
  <2> QED
    BY <2>1, <2>2, <2>3 DEF Whitelist!vars, MP!G!vars, Whitelist!Chats,
        MP!G!Chats, Whitelist!Migration, MP!G!Migration, Whitelist!Membership,
        MP!G!Membership, Whitelist!Locks, MP!G!Locks, Whitelist!At,
        MP!G!At, Whitelist!Go, MP!G!Go, Whitelist!Take, MP!G!Take,
        Whitelist!Mutate, MP!G!Mutate, Whitelist!Look, MP!G!Look,
        Whitelist!Migrate, MP!G!Migrate, Whitelist!Receive, MP!G!Receive,
        Whitelist!Behind, MP!G!Behind, Whitelist!Acquire, MP!G!Acquire,
        Whitelist!GiveUp, MP!G!GiveUp, Whitelist!Lapse, MP!G!Lapse,
        Whitelist!Release, MP!G!Release, Whitelist!Ahead, MP!G!Ahead,
        Whitelist!Write, MP!G!Write, Whitelist!Forget, MP!G!Forget,
        Whitelist!Recheck, MP!G!Recheck, Whitelist!Read, MP!G!Read,
        Whitelist!FillUnfenced, MP!G!FillUnfenced, Whitelist!Fill, MP!G!Fill,
        Whitelist!Entries, MP!G!Entries, Whitelist!Find, MP!G!Find,
        Whitelist!Move, MP!G!Move, Whitelist!Drop, MP!G!Drop, Whitelist!Expire,
        MP!G!Expire, Whitelist!Step, MP!G!Step, Whitelist!Pending,
        MP!G!Pending, Whitelist!CacheFollowsEntries, MP!G!CacheFollowsEntries,
        Whitelist!MigrationKeepsIntent, MP!G!MigrationKeepsIntent,
        Whitelist!SomebodyGoesOn, MP!G!SomebodyGoesOn
<1> QED
  BY <1>1, WhitelistKeptAlways, PTL

-----------------------------------------------------------------------------
(* ChatLocks *)

LocksKept == component = "locks" => MD!LocksInv

\* The invariant of ChatLocks holds while it is the component.
LEMMA LocksKeptAlways ==
    ASSUME MD!LocksUsual PROVE ModerationSpec => []LocksKept
<1>1. ModerationInit => LocksKept
  <2> SUFFICES ASSUME ModerationInit, component = "locks" PROVE MD!LocksInv
    BY DEF LocksKept
  <2>1. Locks!Init
    BY DEF ModerationInit
  <2>2. MD!Locks!Init
    BY <2>1 DEF Locks!Init, MD!Locks!Init, Locks!NoCall, MD!Locks!NoCall, Locks!NoMessage,
        MD!Locks!NoMessage
  <2> QED
    BY <2>2, MD!LocksBegin
<1>2. LocksKept /\ [ModerationNext]_<<component, vars, slots>> => LocksKept'
  <2> SUFFICES ASSUME LocksKept, [ModerationNext]_<<component, vars, slots>>, component' = "locks"
               PROVE  MD!LocksInv'
    BY DEF LocksKept
  <2>1. component = "locks" /\ MD!LocksInv /\ [Locks!Next]_<<v1, v2, v3, v4, v5, v6, v7, v8, v9>>
    BY ComponentSteps DEF LocksKept
  <2>2. [MD!Locks!Next]_(MD!Locks!vars)
    BY <2>1 DEF Locks!vars, MD!Locks!vars, Locks!NoCall, MD!Locks!NoCall, Locks!NoMessage,
        MD!Locks!NoMessage, Locks!Stored, MD!Locks!Stored, Locks!Busy, MD!Locks!Busy,
        Locks!Handled, MD!Locks!Handled, Locks!Watch, MD!Locks!Watch, Locks!After,
        MD!Locks!After, Locks!Begin, MD!Locks!Begin, Locks!Command, MD!Locks!Command,
        Locks!LockSticker, MD!Locks!LockSticker, Locks!UnlockAll, MD!Locks!UnlockAll,
        Locks!Put, MD!Locks!Put, Locks!Read, MD!Locks!Read, Locks!Write, MD!Locks!Write,
        Locks!Save, MD!Locks!Save, Locks!Upsert, MD!Locks!Upsert, Locks!Insert,
        MD!Locks!Insert, Locks!Drop, MD!Locks!Drop, Locks!Fault, MD!Locks!Fault,
        Locks!DropFails, MD!Locks!DropFails, Locks!Die, MD!Locks!Die, Locks!Receive,
        MD!Locks!Receive, Locks!Exempt, MD!Locks!Exempt, Locks!Matches, MD!Locks!Matches,
        Locks!Judge, MD!Locks!Judge, Locks!Get, MD!Locks!Get, Locks!GetFails,
        MD!Locks!GetFails, Locks!Find, MD!Locks!Find, Locks!FindFails, MD!Locks!FindFails,
        Locks!Fill, MD!Locks!Fill, Locks!Lapse, MD!Locks!Lapse, Locks!Next, MD!Locks!Next,
        Locks!Next, MD!Locks!Next
  <2> QED
    BY <2>1, <2>2, MD!LocksNextPreserves
<1> QED
  BY <1>1, <1>2, PTL DEF ModerationSpec

-----------------------------------------------------------------------------
(* ActionWizard *)

WizardKept == component = "wizard" => MD!WizardInv

\* The invariant of ActionWizard holds while it is the component.
LEMMA WizardKeptAlways ==
    ASSUME MD!WizardUsual PROVE ModerationSpec => []WizardKept
<1>1. ModerationInit => WizardKept
  <2> SUFFICES ASSUME ModerationInit, component = "wizard" PROVE MD!WizardInv
    BY DEF WizardKept
  <2>1. Wizard!Init
    BY DEF ModerationInit
  <2>2. MD!Wizard!Init
    BY <2>1 DEF Wizard!Init, MD!Wizard!Init, Wizard!NoJob, MD!Wizard!NoJob
  <2> QED
    BY <2>2, MD!WizardBegins
<1>2. WizardKept /\ [ModerationNext]_<<component, vars, slots>> => WizardKept'
  <2> SUFFICES ASSUME WizardKept, [ModerationNext]_<<component, vars, slots>>, component' = "wizard"
               PROVE  MD!WizardInv'
    BY DEF WizardKept
  <2>1. component = "wizard" /\ MD!WizardInv /\ [Wizard!Next]_slots
    BY ComponentSteps DEF WizardKept
  <2>2. [MD!Wizard!Next]_(MD!Wizard!vars)
    BY <2>1 DEF Wizard!vars, MD!Wizard!vars, Wizard!NoJob, MD!Wizard!NoJob, Wizard!Used,
        MD!Wizard!Used, Wizard!Same, MD!Wizard!Same, Wizard!AIFilters, MD!Wizard!AIFilters,
        Wizard!Busy, MD!Wizard!Busy, Wizard!Room, MD!Wizard!Room, Wizard!Valid,
        MD!Wizard!Valid, Wizard!ApiValid, MD!Wizard!ApiValid, Wizard!Free, MD!Wizard!Free,
        Wizard!Start, MD!Wizard!Start, Wizard!New, MD!Wizard!New, Wizard!Edit, MD!Wizard!Edit,
        Wizard!Active, MD!Wizard!Active, Wizard!Live, MD!Wizard!Live, Wizard!Limit,
        MD!Wizard!Limit, Wizard!Change, MD!Wizard!Change, Wizard!Alert, MD!Wizard!Alert,
        Wizard!Clear, MD!Wizard!Clear, Wizard!Open, MD!Wizard!Open, Wizard!Show,
        MD!Wizard!Show, Wizard!Accepts, MD!Wizard!Accepts, Wizard!With, MD!Wizard!With,
        Wizard!Select, MD!Wizard!Select, Wizard!Setting, MD!Wizard!Setting, Wizard!Remove,
        MD!Wizard!Remove, Wizard!Cancel, MD!Wizard!Cancel, Wizard!Answer, MD!Wizard!Answer,
        Wizard!Reject, MD!Wizard!Reject, Wizard!Begin, MD!Wizard!Begin, Wizard!Done,
        MD!Wizard!Done, Wizard!Find, MD!Wizard!Find, Wizard!End, MD!Wizard!End, Wizard!Save,
        MD!Wizard!Save, Wizard!SaveSettings, MD!Wizard!SaveSettings, Wizard!ApiCreate,
        MD!Wizard!ApiCreate, Wizard!ApiUpdate, MD!Wizard!ApiUpdate, Wizard!Delete,
        MD!Wizard!Delete, Wizard!Lock, MD!Wizard!Lock, Wizard!SaveLock, MD!Wizard!SaveLock,
        Wizard!Expire, MD!Wizard!Expire, Wizard!Connect, MD!Wizard!Connect, Wizard!Next,
        MD!Wizard!Next, Wizard!Next, MD!Wizard!Next, Wizard!Cardinality, MD!Wizard!Cardinality,
        Wizard!IsFiniteSet, MD!Wizard!IsFiniteSet, slots
  <2> QED
    BY <2>1, <2>2, MD!WizardNextPreserves
<1> QED
  BY <1>1, <1>2, PTL DEF ModerationSpec

-----------------------------------------------------------------------------

\* None is nothing that is stored.
NoneIsNothing ==
    None \notin {1, 2} \cup {"url", "ai"} \cup MD!FilterDocs \cup MD!WizardDrafts \cup SUBSET {"url", "all"}

\* The constants of the two are ones that Documents_proofs allows.
LEMMA RuleConstants ==
    ASSUME NoneIsNothing PROVE MD!WizardUsual /\ MD!LocksUsual
<1>1. IsFiniteSet({"mute", "warn", "reply"}) /\ IsFiniteSet({1, 2}) /\ Cardinality({"mute"}) = 1
  <2>1. IsFiniteSet({"reply"}) /\ IsFiniteSet({2}) /\ Cardinality({"mute"}) = 1
    BY FS_Singleton
  <2>2. IsFiniteSet({"reply"} \cup {"warn"}) /\ IsFiniteSet({2} \cup {1})
    BY <2>1, FS_AddElement
  <2>3. IsFiniteSet(({"reply"} \cup {"warn"}) \cup {"mute"})
    BY <2>2, FS_AddElement
  <2>4. ({"reply"} \cup {"warn"}) \cup {"mute"} = {"mute", "warn", "reply"} /\ {2} \cup {1} = {1, 2}
    OBVIOUS
  <2> QED
    BY <2>1, <2>2, <2>3, <2>4
<1>2. MD!WizardUsual
  BY <1>1 DEF MD!WizardUsual, NoneIsNothing, MD!IsFiniteSet, IsFiniteSet, MD!Cardinality, Cardinality
<1>3. MD!LocksUsual
  BY DEF MD!LocksUsual, NoneIsNothing
<1> QED
  BY <1>2, <1>3

\* ActionWizard and ChatLocks: what a wizard stores keeps the limits and has
\* one owner, an answer goes to the prompt it was given for, and what a group
\* has locked is what its administrators asked for and is deleted.
THEOREM ModerationRulesHold ==
    ASSUME NoneIsNothing PROVE ModerationSpec => []RulesHold
<1>1. WizardKept => (component = "wizard" => Wizard!WizardHolds)
  <2> SUFFICES ASSUME WizardKept, component = "wizard" PROVE Wizard!WizardHolds
    OBVIOUS
  <2>1. MD!Wizard!WizardHolds
    BY RuleConstants, MD!WizardInvImplies DEF WizardKept
  <2> QED
    BY <2>1 DEF Wizard!WizardHolds, MD!Wizard!WizardHolds, Wizard!WithinLimits,
        MD!Wizard!WithinLimits, Wizard!OneOwner, MD!Wizard!OneOwner, Wizard!InputAsked,
        MD!Wizard!InputAsked, Wizard!Used, MD!Wizard!Used, Wizard!Same, MD!Wizard!Same,
        Wizard!AIFilters, MD!Wizard!AIFilters, Wizard!Cardinality, MD!Wizard!Cardinality,
        Wizard!IsFiniteSet, MD!Wizard!IsFiniteSet
<1>2. LocksKept => (component = "locks" => Locks!LocksHold)
  <2> SUFFICES ASSUME LocksKept, component = "locks" PROVE Locks!LocksHold
    OBVIOUS
  <2>1. MD!Locks!LocksHold
    BY MD!LocksInvImplies DEF LocksKept
  <2> QED
    BY <2>1 DEF Locks!LocksHold, MD!Locks!LocksHold, Locks!CacheFollows, MD!Locks!CacheFollows,
        Locks!ChangesKept, MD!Locks!ChangesKept, Locks!Enforced, MD!Locks!Enforced,
        Locks!Matches, MD!Locks!Matches, Locks!Stored, MD!Locks!Stored, Locks!Busy,
        MD!Locks!Busy
<1>3. WizardKept /\ LocksKept => RulesHold
  BY <1>1, <1>2 DEF RulesHold
<1> QED
  BY <1>3, RuleConstants, WizardKeptAlways, LocksKeptAlways, PTL

-----------------------------------------------------------------------------

\* The constants of MutePermissions are ones that Restrictions_proofs allows.
LEMMA SnapshotConstants ==
    MR!ValuesAssumption /\ MR!MembersAssumption /\ MR!TimeAssumption /\ MR!DocumentsAssumption
  BY ValuesAssumption, MembersAssumption, TimeAssumption, DocumentsAssumption
     DEF MR!Perms, MR!Times, MR!Snapshots, Perms, Times, Snapshots
-----------------------------------------------------------------------------
(* FederationBans *)

BansKept == component = "bans" => MR!BansInv

\* The invariant of FederationBans holds while it is the component.
LEMMA BansKeptAlways ==
    ASSUME MR!BansUsual PROVE ModerationSpec => []BansKept
<1>1. ModerationInit => BansKept
  <2> SUFFICES ASSUME ModerationInit, component = "bans" PROVE MR!BansInv
    BY DEF BansKept
  <2>1. Bans!Init
    BY DEF ModerationInit
  <2>2. MR!FedBans!Init
    BY <2>1 DEF Bans!Init, MR!FedBans!Init, Bans!At, MR!FedBans!At, Bans!Idle, MR!FedBans!Idle
  <2> QED
    BY <2>2, MR!BansStart, SnapshotConstants
<1>2. BansKept /\ [ModerationNext]_<<component, vars, slots>> => BansKept'
  <2> SUFFICES ASSUME BansKept, [ModerationNext]_<<component, vars, slots>>, component' = "bans"
               PROVE  MR!BansInv'
    BY DEF BansKept
  <2>1. /\ component = "bans" /\ MR!BansInv
        /\ [Bans!Next]_<<v1, v2, v3, v4, v5, v6, v7, v8, v9>>
    BY ComponentSteps DEF BansKept
  <2>2. [MR!FedBans!Next]_(MR!FedBans!vars)
    BY <2>1 DEF Bans!Ids, MR!FedBans!Ids, Bans!Bans, MR!FedBans!Bans, Bans!Chain, MR!FedBans!Chain,
        Bans!Followers, MR!FedBans!Followers, Bans!Of, MR!FedBans!Of, Bans!MemberChats,
        MR!FedBans!MemberChats, Bans!Steps, MR!FedBans!Steps, Bans!At, MR!FedBans!At, Bans!Idle,
        MR!FedBans!Idle, Bans!Fed, MR!FedBans!Fed, Bans!To, MR!FedBans!To, Bans!Keep,
        MR!FedBans!Keep, Bans!Copies, MR!FedBans!Copies, Bans!Unbanning, MR!FedBans!Unbanning,
        Bans!Save, MR!FedBans!Save, Bans!Overwrites, MR!FedBans!Overwrites, Bans!Raced,
        MR!FedBans!Raced, Bans!Fault, MR!FedBans!Fault, Bans!Ban, MR!FedBans!Ban, Bans!Lifted,
        MR!FedBans!Lifted, Bans!BanRefused, MR!FedBans!BanRefused, Bans!UnbanRefused,
        MR!FedBans!UnbanRefused, Bans!Added, MR!FedBans!Added, Bans!Insert, MR!FedBans!Insert,
        Bans!Receive, MR!FedBans!Receive, Bans!Reason, MR!FedBans!Reason, Bans!BanUser,
        MR!FedBans!BanUser, Bans!Mark, MR!FedBans!Mark, Bans!Act, MR!FedBans!Act, Bans!SaveChat,
        MR!FedBans!SaveChat, Bans!Task, MR!FedBans!Task, Bans!Queue, MR!FedBans!Queue,
        Bans!Find, MR!FedBans!Find, Bans!Inherited, MR!FedBans!Inherited, Bans!Delete,
        MR!FedBans!Delete, Bans!Unmark, MR!FedBans!Unmark, Bans!Lift, MR!FedBans!Lift,
        Bans!Lookup, MR!FedBans!Lookup, Bans!Negative, MR!FedBans!Negative, Bans!Expire,
        MR!FedBans!Expire, Bans!Die, MR!FedBans!Die, Bans!Status, MR!FedBans!Status,
        Bans!Current, MR!FedBans!Current, Bans!Poll, MR!FedBans!Poll, Bans!Start,
        MR!FedBans!Start, Bans!GetBan, MR!FedBans!GetBan, Bans!BanChat, MR!FedBans!BanChat,
        Bans!SaveBan, MR!FedBans!SaveBan, Bans!Lazy, MR!FedBans!Lazy, Bans!LazyInsert,
        MR!FedBans!LazyInsert, Bans!LazyBan, MR!FedBans!LazyBan, Bans!UnbanChat,
        MR!FedBans!UnbanChat, Bans!Complete, MR!FedBans!Complete, Bans!Fail, MR!FedBans!Fail,
        Bans!Crash, MR!FedBans!Crash, Bans!Reap, MR!FedBans!Reap, Bans!Handle,
        MR!FedBans!Handle, Bans!Work, MR!FedBans!Work, Bans!Within, MR!FedBans!Within,
        Bans!Next, MR!FedBans!Next, Bans!vars, MR!FedBans!vars, Bans!Cardinality,
        MR!FedBans!Cardinality, Bans!IsFiniteSet, MR!FedBans!IsFiniteSet
  <2> QED
    BY <2>1, <2>2, MR!BansNextPreserves, SnapshotConstants
<1> QED
  BY <1>1, <1>2, PTL DEF ModerationSpec

-----------------------------------------------------------------------------
(* CommunityBans *)

TownKept == component = "communities" => MR!TownInv /\ MR!StoredInv

\* The invariant of CommunityBans holds while it is the component.
LEMMA TownKeptAlways ==
    ASSUME MR!TownUsual PROVE ModerationSpec => []TownKept
<1>1. ModerationInit => TownKept
  <2> SUFFICES ASSUME ModerationInit, component = "communities" PROVE MR!TownInv /\ MR!StoredInv
    BY DEF TownKept
  <2>1. Community!Init
    BY DEF ModerationInit
  <2>2. MR!Town!Init
    BY <2>1 DEF Community!Init, MR!Town!Init, Community!At, MR!Town!At, Community!Idle,
        MR!Town!Idle, Community!Places, MR!Town!Places
  <2> QED
    BY <2>2, MR!TownStarts, SnapshotConstants
<1>2. TownKept /\ [ModerationNext]_<<component, vars, slots>> => TownKept'
  <2> SUFFICES ASSUME TownKept, [ModerationNext]_<<component, vars, slots>>,
                      component' = "communities"
               PROVE  MR!TownInv' /\ MR!StoredInv'
    BY DEF TownKept
  <2>1. component = "communities" /\ MR!TownInv /\ MR!StoredInv /\ [Community!Next]_slots
    BY ComponentSteps DEF TownKept
  <2>2. [MR!Town!Next]_(MR!Town!vars)
    BY <2>1 DEF Community!Ids, MR!Town!Ids, Community!Bans, MR!Town!Bans, Community!Places,
        MR!Town!Places, Community!Of, MR!Town!Of, Community!At, MR!Town!At, Community!Idle,
        MR!Town!Idle, Community!To, MR!Town!To, Community!Keep, MR!Town!Keep, Community!Excused,
        MR!Town!Excused, Community!Fault, MR!Town!Fault, Community!Ban, MR!Town!Ban,
        Community!BanRefused, MR!Town!BanRefused, Community!Lift, MR!Town!Lift, Community!Clash,
        MR!Town!Clash, Community!Save, MR!Town!Save, Community!Overwrites, MR!Town!Overwrites,
        Community!Unbanning, MR!Town!Unbanning, Community!Move, MR!Town!Move,
        Community!ReadNote, MR!Town!ReadNote, Community!SaveCommunity, MR!Town!SaveCommunity,
        Community!Known, MR!Town!Known, Community!Probe, MR!Town!Probe, Community!Attach,
        MR!Town!Attach, Community!Receive, MR!Town!Receive, Community!Look, MR!Town!Look,
        Community!Reason, MR!Town!Reason, Community!Insert, MR!Town!Insert, Community!After,
        MR!Town!After, Community!Act, MR!Town!Act, Community!SaveChat, MR!Town!SaveChat,
        Community!Queue, MR!Town!Queue, Community!Snapshot, MR!Town!Snapshot, Community!Find,
        MR!Town!Find, Community!Delete, MR!Town!Delete, Community!Unban, MR!Town!Unban,
        Community!Lookup, MR!Town!Lookup, Community!Die, MR!Town!Die, Community!Status,
        MR!Town!Status, Community!Current, MR!Town!Current, Community!Start, MR!Town!Start,
        Community!GetBan, MR!Town!GetBan, Community!BanChat, MR!Town!BanChat, Community!SaveBan,
        MR!Town!SaveBan, Community!UnbanChat, MR!Town!UnbanChat, Community!Complete,
        MR!Town!Complete, Community!Fail, MR!Town!Fail, Community!Crash, MR!Town!Crash,
        Community!Next, MR!Town!Next, Community!vars, MR!Town!vars,
        slots
  <2> QED
    BY <2>1, <2>2, MR!TownNextPreserves, SnapshotConstants
<1> QED
  BY <1>1, <1>2, PTL DEF ModerationSpec

-----------------------------------------------------------------------------

\* None is no record of a ban.
NoneIsNoBan == None \notin MR!FedBans!Bans \cup MR!Town!Bans

\* The constants of the two are ones that Restrictions_proofs allows.
LEMMA BanConstants ==
    ASSUME NoneIsNoBan PROVE MR!BansUsual /\ MR!TownUsual
<1>1. MR!BansUsual
  BY DEF MR!BansUsual, NoneIsNoBan
<1>2. MR!TownUsual
  BY DEF MR!TownUsual, NoneIsNoBan
<1> QED
  BY <1>1, <1>2

\* FederationBans and CommunityBans: once everything queued is done, a record
\* is in force in the chats of its federation, or of its community, and in
\* communities an unban finds every chat the user is banned in.
THEOREM ModerationBansInForce ==
    ASSUME NoneIsNoBan PROVE ModerationSpec => []BansInForce
<1>1. BansKept => (component = "bans" => Bans!BansInForce)
  <2> SUFFICES ASSUME BansKept, component = "bans" PROVE Bans!BansInForce
    OBVIOUS
  <2>1. MR!FedBans!BansInForce
    BY BanConstants, MR!BansHold, SnapshotConstants DEF BansKept
  <2> QED
    BY <2>1 DEF Bans!Chain, MR!FedBans!Chain, Bans!MemberChats, MR!FedBans!MemberChats, Bans!Terminal,
        MR!FedBans!Terminal, Bans!Quiet, MR!FedBans!Quiet, Bans!BansInForce,
        MR!FedBans!BansInForce, Bans!Within, MR!FedBans!Within, Bans!Idle, MR!FedBans!Idle,
        Bans!Cardinality, MR!FedBans!Cardinality, Bans!IsFiniteSet, MR!FedBans!IsFiniteSet
<1>2. TownKept => (component = "communities" => Community!CommunitiesHold)
  <2> SUFFICES ASSUME TownKept, component = "communities" PROVE Community!CommunitiesHold
    OBVIOUS
  <2>1. MR!Town!CommunitiesHold
    BY BanConstants, MR!TownHolds, SnapshotConstants DEF TownKept
  <2> QED
    BY <2>1 DEF Community!Places, MR!Town!Places, Community!Idle, MR!Town!Idle, Community!Settled,
        MR!Town!Settled, Community!Quiet, MR!Town!Quiet, Community!CommunityStored,
        MR!Town!CommunityStored, Community!BansListed, MR!Town!BansListed,
        Community!BansInForce, MR!Town!BansInForce, Community!CommunitiesHold,
        MR!Town!CommunitiesHold
<1>3. BansKept /\ TownKept => BansInForce
  BY <1>1, <1>2 DEF BansInForce
<1> QED
  BY <1>3, BanConstants, BansKeptAlways, TownKeptAlways, PTL
-----------------------------------------------------------------------------
(* FederationBans in the run of the scheduler *)

NoneIsNoRecord == None \notin MS!FedBans!Bans

LEMMA TaskConstants ==
    ASSUME NoneIsNoRecord
    PROVE  /\ MS!BansUsual
           /\ MS!ValuesAssumption /\ MS!MembersAssumption /\ MS!TimeAssumption /\ MS!DocumentsAssumption
<1>1. MS!BansUsual
  BY DEF MS!BansUsual, NoneIsNoRecord, BanFedOf, BanFeds, BanChats
<1>2. MS!ValuesAssumption /\ MS!MembersAssumption /\ MS!TimeAssumption /\ MS!DocumentsAssumption
  BY ValuesAssumption, MembersAssumption, TimeAssumption, DocumentsAssumption
     DEF MS!Perms, MS!Times, MS!Snapshots, Perms, Times, Snapshots
<1> QED
  BY <1>1, <1>2

TasksKept == work = "bans" => MS!BansInv

\* The invariant of FederationBans holds while the scheduler works on bans.
LEMMA TasksKeptAlways ==
    ASSUME NoneIsNoRecord PROVE SchedulerSpec => []TasksKept
<1>1. SchedulerInit => TasksKept
  <2> SUFFICES ASSUME SchedulerInit, work = "bans" PROVE MS!BansInv
    BY DEF TasksKept
  <2>1. Tasks!Init
    BY DEF SchedulerInit
  <2>2. MS!FedBans!Init
    BY <2>1 DEF Tasks!Init, MS!FedBans!Init, Tasks!At, MS!FedBans!At, Tasks!Idle, MS!FedBans!Idle
  <2> QED
    BY <2>2, MS!BansStart, TaskConstants
<1>2. TasksKept /\ [SchedulerNext]_<<work, vars, banVars>> => TasksKept'
  <2> SUFFICES ASSUME TasksKept, [SchedulerNext]_<<work, vars, banVars>>, work' = "bans"
               PROVE  MS!BansInv'
    BY DEF TasksKept
  <2>1. work = "bans" /\ MS!BansInv /\ [Tasks!Next]_banVars
    BY DEF SchedulerNext, TasksKept
  <2>2. [MS!FedBans!Next]_(MS!FedBans!vars)
    BY <2>1 DEF Tasks!Ids, MS!FedBans!Ids, Tasks!Bans, MS!FedBans!Bans, Tasks!Chain, MS!FedBans!Chain,
        Tasks!Followers, MS!FedBans!Followers, Tasks!Of, MS!FedBans!Of, Tasks!MemberChats,
        MS!FedBans!MemberChats, Tasks!Steps, MS!FedBans!Steps, Tasks!At, MS!FedBans!At,
        Tasks!Idle, MS!FedBans!Idle, Tasks!Fed, MS!FedBans!Fed, Tasks!To, MS!FedBans!To,
        Tasks!Keep, MS!FedBans!Keep, Tasks!Copies, MS!FedBans!Copies, Tasks!Unbanning,
        MS!FedBans!Unbanning, Tasks!Save, MS!FedBans!Save, Tasks!Overwrites,
        MS!FedBans!Overwrites, Tasks!Raced, MS!FedBans!Raced, Tasks!Fault, MS!FedBans!Fault,
        Tasks!Ban, MS!FedBans!Ban, Tasks!Lifted, MS!FedBans!Lifted, Tasks!BanRefused,
        MS!FedBans!BanRefused, Tasks!UnbanRefused, MS!FedBans!UnbanRefused, Tasks!Added,
        MS!FedBans!Added, Tasks!Insert, MS!FedBans!Insert, Tasks!Receive, MS!FedBans!Receive,
        Tasks!Reason, MS!FedBans!Reason, Tasks!BanUser, MS!FedBans!BanUser, Tasks!Mark,
        MS!FedBans!Mark, Tasks!Act, MS!FedBans!Act, Tasks!SaveChat, MS!FedBans!SaveChat,
        Tasks!Task, MS!FedBans!Task, Tasks!Queue, MS!FedBans!Queue, Tasks!Find, MS!FedBans!Find,
        Tasks!Inherited, MS!FedBans!Inherited, Tasks!Delete, MS!FedBans!Delete, Tasks!Unmark,
        MS!FedBans!Unmark, Tasks!Lift, MS!FedBans!Lift, Tasks!Lookup, MS!FedBans!Lookup,
        Tasks!Negative, MS!FedBans!Negative, Tasks!Expire, MS!FedBans!Expire, Tasks!Die,
        MS!FedBans!Die, Tasks!Status, MS!FedBans!Status, Tasks!Current, MS!FedBans!Current,
        Tasks!Poll, MS!FedBans!Poll, Tasks!Start, MS!FedBans!Start, Tasks!GetBan,
        MS!FedBans!GetBan, Tasks!BanChat, MS!FedBans!BanChat, Tasks!SaveBan, MS!FedBans!SaveBan,
        Tasks!Lazy, MS!FedBans!Lazy, Tasks!LazyInsert, MS!FedBans!LazyInsert, Tasks!LazyBan,
        MS!FedBans!LazyBan, Tasks!UnbanChat, MS!FedBans!UnbanChat, Tasks!Complete,
        MS!FedBans!Complete, Tasks!Fail, MS!FedBans!Fail, Tasks!Crash, MS!FedBans!Crash,
        Tasks!Reap, MS!FedBans!Reap, Tasks!Handle, MS!FedBans!Handle, Tasks!Work,
        MS!FedBans!Work, Tasks!Within, MS!FedBans!Within, Tasks!Next, MS!FedBans!Next,
        Tasks!vars, MS!FedBans!vars, Tasks!Cardinality, MS!FedBans!Cardinality,
        Tasks!IsFiniteSet, MS!FedBans!IsFiniteSet,
        banVars
  <2> QED
    BY <2>1, <2>2, MS!BansNextPreserves, TaskConstants
<1> QED
  BY <1>1, <1>2, PTL DEF SchedulerSpec

\* FederationBans: once everything queued is done, a ban that is in force in a
\* chat is one an unban finds, in spite of refusals, for federations that
\* subscribe to each other too.
THEOREM SchedulerBansListed ==
    ASSUME NoneIsNoRecord PROVE SchedulerSpec => []BansListed
<1>1. TasksKept => BansListed
  <2> SUFFICES ASSUME TasksKept, work = "bans" PROVE Tasks!BansListed
    BY DEF BansListed
  <2>1. MS!FedBans!BansListed
    BY MS!BansHold, TaskConstants DEF TasksKept
  <2> QED
    BY <2>1 DEF Tasks!BansListed, MS!FedBans!BansListed, Tasks!Quiet, MS!FedBans!Quiet, Tasks!Terminal,
        MS!FedBans!Terminal, Tasks!Idle, MS!FedBans!Idle
<1> QED
  BY <1>1, TasksKeptAlways, PTL
==============================================================================
