---------------------------- MODULE Groups_proofs ----------------------------
(***************************************************************************)
(* What Sophie keeps of groups, for every number of concurrent calls: what *)
(* members are punished for and exempted from (the warns of a user, the    *)
(* messages of a flood, the entry of the whitelist), the albums they send, *)
(* the federations of chats, the administrators of groups, and the group a *)
(* private chat is connected to.                                           *)
(*                                                                         *)
(* Warns: nobody sits at the limit unpunished.  The property speaks of the *)
(* moments when no call is running; the invariant behind it says which     *)
(* call still has to act on the warns while some are.  As long as nothing  *)
(* was pardoned, every call judges by one limit, that of a new document,   *)
(* and whenever the warns reach it a call is about to count them, has      *)
(* counted enough, or is about to delete them.                             *)
(*                                                                         *)
(* Antiflood: the counter is the streak of its user, and it ends.  The     *)
(* invariant says where the only handler of a quiet chat is on its way to  *)
(* make them equal.                                                        *)
(*                                                                         *)
(* GroupWhitelist: behind the three properties is what a task holds at     *)
(* each of its steps (Shape).  A lookup fills the cache only under a lock  *)
(* that is still its own, and whoever writes the entry holds that lock     *)
(* unless it lapsed under him: what the lookup read is therefore still so  *)
(* (SeenHolds).  The migration and the mutations of the old id exclude one *)
(* another by the migration lock of the old id: once the migration has it, *)
(* no mutation of the old id writes any more (OldSettled), and the entry   *)
(* goes from what it was under the old id to the same under the new one    *)
(* (EntryIntent).                                                          *)
(*                                                                         *)
(* MediaGroups: until the album is handled the list holds what was pushed  *)
(* and some update flushes it or is about to (Gathering), afterwards the   *)
(* album is all that was pushed (Gathered); what was handled is deleted    *)
(* before anybody groups again (Apart), by the update that holds the lock  *)
(* (OneFlusher), until a lock lapses or an update fails.                   *)
(*                                                                         *)
(* FederationRegistry: what a request has read is still so unless another  *)
(* one about the same is noticed (Noticed, Relies): a chat that is added   *)
(* is in no federation, somebody who is subscribed to is there, and no     *)
(* subscriber is left when a federation is deleted.  Redis names the       *)
(* federation of a chat or a request is about to say so (RedisRight).      *)
(*                                                                         *)
(* AdminSnapshot: a refresh that runs alone has stored those of the list   *)
(* it has gone through, with the time of now (AdminStores); since a claim  *)
(* a refresh is under way, went wrong, or refreshed everybody              *)
(* (AdminClaimed), and an update goes on by documents none of which is too *)
(* old, or by a claim that is not (AdminHandled).                          *)
(*                                                                         *)
(* Connections: a mark is no older than the right it stands for (Trusted), *)
(* and an update that runs alone is about to make the document what its    *)
(* user asked for (AloneTrue).                                             *)
(***************************************************************************)
EXTENDS Integers, Sequences, FiniteSets, FiniteSetTheorems, WellFoundedInduction, TLAPS

CONSTANTS
    Calls, None,
    MaxLapses,                            \* of GroupWhitelist
    WarnDefault, WarnLimits, MaxDeaths,   \* of Warns
    Users, Exempt, FloodLimit, MaxMessages, MaxCrashes,  \* of Antiflood
    Items, FlushDelay, FlushTtl, LastTick,               \* of MediaGroups
    Feds, Chats, Handlers, FedLimit, MaxRequests,        \* of FederationRegistry
    Known, AdminTtl, AdminIds, AdminTime, AdminChanges, AdminFaults,   \* of AdminSnapshot
    Groups, Private, InGroups, LinkLifetime, LinkTtl, LinkTime, LinkUpdates, LinkChanges   \* of Connections

VARIABLES v1, v2, v3, v4, v5, v6, v7, v8, v9, v10, v11

G == INSTANCE GroupWhitelist WITH
    Tasks <- Calls,
    entry <- v1, cached <- v2, lock <- v3, chat <- v4, task <- v5, lapses <- v6,
    wanted <- v7, excuse <- v8

W == INSTANCE Warns WITH
    DefaultLimit <- WarnDefault, Limits <- WarnLimits,
    warns <- v1, settings <- v2, call <- v3, deaths <- v4, pardoned <- v5

F == INSTANCE Antiflood WITH
    Handlers <- Calls, Limit <- FloodLimit,
    last <- v1, count <- v2, ttl <- v3, handler <- v4, messages <- v5, crashes <- v6,
    streak <- v7, alone <- v8

Album == INSTANCE MediaGroups WITH
    Delay <- FlushDelay, LockTtl <- FlushTtl, MaxTick <- LastTick,
    list <- v1, last <- v2, flusher <- v3, expiry <- v4, tick <- v5, update <- v6,
    albums <- v7, troubles <- v8

Registry == INSTANCE FederationRegistry WITH
    Jobs <- Handlers, Limit <- FedLimit,
    docs <- v1, fresh <- v2, cached <- v3, offers <- v4, job <- v5, requests <- v6,
    lost <- v7, crossed <- v8

Admins == INSTANCE AdminSnapshot WITH
    Jobs <- Calls, Ttl <- AdminTtl, Ids <- AdminIds, MaxTime <- AdminTime,
    MaxChanges <- AdminChanges, MaxFaults <- AdminFaults,
    admins <- v1, records <- v2, marker <- v3, now <- v4, job <- v5, changes <- v6,
    faults <- v7, base <- v8, crossed <- v9, missed <- v10

Links == INSTANCE Connections WITH
    Lifetime <- LinkLifetime, RecheckTtl <- LinkTtl, MaxTime <- LinkTime,
    MaxUpdates <- LinkUpdates, MaxChanges <- LinkChanges,
    doc <- v1, allowed <- v2, gone <- v3, mark <- v4, now <- v5, job <- v6,
    updates <- v7, changes <- v8, lost <- v9, wish <- v10, overlapped <- v11

-----------------------------------------------------------------------------
(* Warns, by its own names of the slots *)

warns == v1
settings == v2
call == v3
deaths == v4
pardoned == v5

USE DEF warns, settings, call, deaths, pardoned

\* What the proofs need of the constants: max_warns of a new document is
\* positive, and only so many calls run.
WarnsUsual ==
    /\ WarnDefault \in Nat \ {0} /\ WarnLimits \subseteq Nat
    /\ IsFiniteSet(Calls) /\ MaxDeaths \in Nat

WarnCalls ==
    [pc : {"new", "create", "act", "insert", "count", "each", "limit", "max", "done"},
     op : {"none", "warn", "limit"}, doc : Nat, limit : Nat, count : Nat]

\* The variables keep their types, for any number of calls and documents.
WarnsTyped ==
    /\ warns \subseteq Calls
    /\ settings \in Seq(Nat)
    /\ call \in [Calls -> WarnCalls]
    /\ deaths \in Nat
    /\ pardoned \in BOOLEAN

\* The steps of warn_user are taken by calls that warn, and a limit is saved
\* to a document that was read.
OpsAtSteps ==
    \A c \in Calls :
        /\ call[c].pc \in {"insert", "count", "each", "limit", "max"} => call[c].op = "warn"
        /\ call[c].pc = "create" => call[c].op \in {"warn", "limit"}
        /\ call[c].pc = "act" => call[c].op = "limit" /\ call[c].doc \in 1 .. Len(settings)

\* While nothing was pardoned everybody judges by the limit of a new document.
OneLimit ==
    ~ pardoned =>
        /\ W!Limit = WarnDefault
        /\ \A c \in Calls :
               call[c].pc \in {"insert", "count", "each", "limit", "max"} => call[c].limit = WarnDefault

\* A call that will count the warns again, or has counted enough of them.
WillJudge(c) ==
    \/ call[c].pc = "count"
    \/ call[c].pc = "each" /\ call[c].count >= WarnDefault
    \/ call[c].pc = "limit"

\* Warns that reach the limit have a call that will act on them.
SomebodyJudges ==
    ~ pardoned /\ Cardinality(warns) >= WarnDefault => \E c \in Calls : WillJudge(c)

WarnsInv == WarnsTyped /\ OpsAtSteps /\ OneLimit /\ SomebodyJudges

-------------------------------------------------------------------------------

\* Each instance has its own name for the number of elements.
LEMMA SameNumber ==
    ASSUME NEW S PROVE W!Cardinality(S) = Cardinality(S)
BY DEF W!Cardinality, Cardinality, W!IsFiniteSet, IsFiniteSet

\* The warns are as many as a number, and removing some leaves no more.
LEMMA FewerWarns ==
    ASSUME WarnsUsual, NEW S, S \subseteq Calls, NEW T, T \subseteq S
    PROVE  Cardinality(S) \in Nat /\ Cardinality(T) \in Nat /\ Cardinality(T) <= Cardinality(S)
<1>1. IsFiniteSet(S) /\ IsFiniteSet(T)
  BY FS_Subset DEF WarnsUsual
<1> QED
  BY <1>1, FS_Subset, FS_CardinalityType

\* A step of a call that is not about to judge leaves who is.
LEMMA OthersJudge ==
    ASSUME WarnsTyped, NEW c \in Calls, ~ WillJudge(c), SomebodyJudges,
           \A d \in Calls \ {c} : call'[d] = call[d],
           ~ pardoned' => ~ pardoned,
           Cardinality(warns') >= WarnDefault => Cardinality(warns) >= WarnDefault
    PROVE  SomebodyJudges'
<1> SUFFICES ASSUME ~ pardoned', Cardinality(warns') >= WarnDefault
             PROVE  \E d \in Calls : WillJudge(d)'
  BY DEF SomebodyJudges
<1>1. PICK d \in Calls : WillJudge(d)
  BY DEF SomebodyJudges
<1>2. d # c
  BY <1>1
<1>3. call'[d] = call[d]
  BY <1>2
<1> QED
  BY <1>1, <1>3 DEF WillJudge

\* The collection of settings is empty or has one document, and no call runs.
LEMMA WarnsBegin ==
    ASSUME WarnsUsual PROVE W!Init => WarnsInv
<1> SUFFICES ASSUME W!Init PROVE WarnsInv
  OBVIOUS
<1>1. WarnsTyped
  <2>0. WarnDefault \in Nat
    BY DEF WarnsUsual
  <2>1. settings \in Seq(Nat)
    <3>1. <<WarnDefault>> \in Seq(Nat) /\ <<>> \in Seq(Nat)
      BY <2>0
    <3> QED
      BY <3>1 DEF W!Init
  <2>2. W!New \in WarnCalls
    BY <2>0 DEF W!New, WarnCalls
  <2> QED
    BY <2>1, <2>2 DEF W!Init, WarnsTyped
<1>2. OpsAtSteps /\ OneLimit
  BY DEF W!Init, OpsAtSteps, OneLimit, W!Limit, WarnsUsual, W!New
<1>3. SomebodyJudges
  BY FS_EmptySet DEF W!Init, SomebodyJudges, WarnsUsual
<1> QED
  BY <1>1, <1>2, <1>3 DEF WarnsInv

\* What a call knows once it has a document of settings.
LEMMA AnswerIs ==
    ASSUME WarnsUsual, WarnsTyped, NEW c \in Calls, NEW what \in {"none", "warn", "limit"},
           NEW limit \in Nat, NEW doc \in Nat, W!With(c, what, limit, doc)
    PROVE  /\ call' \in [Calls -> WarnCalls]
           /\ call'[c].pc = IF what = "warn" THEN "insert" ELSE "act"
           /\ call'[c].op = what /\ call'[c].doc = doc /\ call'[c].limit = limit
           /\ \A d \in Calls \ {c} : call'[d] = call[d]
<1> DEFINE next == IF what = "warn" THEN "insert" ELSE "act"
           new == [W!New EXCEPT !.pc = next, !.op = what, !.doc = doc, !.limit = limit]
<1>1. W!New \in WarnCalls
  BY DEF W!New, WarnCalls, WarnsUsual
<1>2. next \in {"insert", "act"}
  OBVIOUS
<1>3. call' = [call EXCEPT ![c] = new]
  BY DEF W!With
<1> HIDE DEF next
<1>4. new \in WarnCalls /\ new.pc = next /\ new.op = what /\ new.doc = doc /\ new.limit = limit
  BY <1>1, <1>2 DEF WarnCalls
<1> HIDE DEF new
<1>5. call' \in [Calls -> WarnCalls] /\ call'[c] = new /\ \A d \in Calls \ {c} : call'[d] = call[d]
  BY <1>3, <1>4 DEF WarnsTyped
<1> QED
  BY <1>4, <1>5 DEF next

\* Reading the settings: the oldest document, or none yet.
LEMMA FindKeeps ==
    ASSUME WarnsUsual, WarnsInv, NEW c \in Calls,
           (W!Find(c, "warn", WarnDefault) \/ \E n \in WarnLimits : W!Find(c, "limit", n))
    PROVE  WarnsInv'
<1>1. PICK what \in {"warn", "limit"}, n \in Nat : W!Find(c, what, n)
  BY DEF WarnsUsual
<1>2. /\ call[c].pc = "new"
      /\ warns' = warns /\ settings' = settings /\ deaths' = deaths /\ pardoned' = pardoned
  BY <1>1 DEF W!Find
<1>3. \A d \in Calls \ {c} : call'[d] = call[d]
  BY <1>1 DEF W!Find, W!With, WarnsInv, WarnsTyped
<1>4. CASE settings = <<>>
  <2>0. call' = [call EXCEPT ![c] = [pc |-> "create", op |-> what, doc |-> 0, limit |-> n, count |-> 0]]
    BY <1>1, <1>4 DEF W!Find, W!New
  <2>1. /\ call' \in [Calls -> WarnCalls]
        /\ call'[c].pc = "create" /\ call'[c].op = what
    BY <2>0 DEF WarnsInv, WarnsTyped, WarnCalls
  <2> QED
    BY <1>2, <1>3, <2>1, OthersJudge DEF WarnsInv, WarnsTyped, OpsAtSteps, OneLimit,
        W!Limit, WillJudge
<1>5. CASE settings # <<>>
  <2>1. settings[1] \in Nat /\ 1 \in 1 .. Len(settings)
    BY <1>5 DEF WarnsInv, WarnsTyped
  <2>2. W!With(c, what, IF what = "warn" THEN settings[1] ELSE n, 1)
    BY <1>1, <1>5 DEF W!Find
  <2>3. /\ call' \in [Calls -> WarnCalls]
        /\ call'[c].op = what /\ call'[c].doc = 1
        /\ call'[c].pc = IF what = "warn" THEN "insert" ELSE "act"
        /\ what = "warn" => call'[c].limit = settings[1]
    <3> DEFINE limit == IF what = "warn" THEN settings[1] ELSE n
    <3>1. limit \in Nat /\ 1 \in Nat /\ WarnsTyped
      BY <2>1 DEF WarnsInv
    <3>2. W!With(c, what, limit, 1)
      BY <2>2
    <3>3. what = "warn" => limit = settings[1]
      OBVIOUS
    <3> HIDE DEF limit
    <3> QED
      BY <3>1, <3>2, <3>3, AnswerIs
  <2>4. OneLimit'
    BY <1>2, <1>3, <1>5, <2>3 DEF WarnsInv, OneLimit, W!Limit
  <2> QED
    BY <1>2, <1>3, <2>1, <2>3, <2>4, OthersJudge DEF WarnsInv, WarnsTyped, OpsAtSteps, WillJudge
<1> QED
  BY <1>4, <1>5

\* The first document has the default limit, and a second one changes nothing.
LEMMA CreateKeeps ==
    ASSUME WarnsUsual, WarnsInv, NEW c \in Calls, W!Create(c) PROVE WarnsInv'
<1>1. /\ call[c].pc = "create" /\ settings' = Append(settings, WarnDefault)
      /\ warns' = warns /\ deaths' = deaths /\ pardoned' = pardoned
  BY DEF W!Create
<1>2. /\ settings' \in Seq(Nat) /\ Len(settings') = Len(settings) + 1 /\ Len(settings) \in Nat
      /\ settings' # <<>>
      /\ W!Limit = WarnDefault => W!Limit' = WarnDefault
  BY <1>1 DEF WarnsInv, WarnsTyped, WarnsUsual, W!Limit
<1>3. \A d \in Calls \ {c} : call'[d] = call[d]
  BY DEF W!Create, W!With, WarnsInv, WarnsTyped
<1>4. call[c].op \in {"none", "warn", "limit"} /\ call[c].limit \in Nat
  BY DEF WarnsInv, WarnsTyped, WarnCalls
<1>5. W!With(c, call[c].op, IF call[c].op = "warn" THEN WarnDefault ELSE call[c].limit, Len(settings'))
  BY DEF W!Create
<1>6. /\ call' \in [Calls -> WarnCalls]
      /\ call'[c].op = call[c].op /\ call'[c].doc = Len(settings')
      /\ call'[c].pc = IF call[c].op = "warn" THEN "insert" ELSE "act"
      /\ call[c].op = "warn" => call'[c].limit = WarnDefault
  BY <1>2, <1>4, <1>5, AnswerIs DEF WarnsInv, WarnsUsual
<1>7. OneLimit'
  BY <1>1, <1>2, <1>3, <1>6 DEF WarnsInv, OneLimit
<1>8. OpsAtSteps'
  <2>1. c \in Calls /\ call'[c].pc = "act" => call'[c].op = "limit" /\ call'[c].doc \in 1 .. Len(settings')
    BY <1>1, <1>2, <1>4, <1>6 DEF WarnsInv, OpsAtSteps
  <2> QED
    BY <1>1, <1>2, <1>3, <1>6, <2>1 DEF WarnsInv, OpsAtSteps
<1>9. SomebodyJudges'
  BY <1>1, <1>3, OthersJudge DEF WarnsInv, WillJudge
<1> QED
  BY <1>1, <1>2, <1>6, <1>7, <1>8, <1>9 DEF WarnsInv, WarnsTyped

\* A limit that is saved over the oldest document pardons, one saved over
\* another document is never read.
LEMMA SetLimitKeeps ==
    ASSUME WarnsUsual, WarnsInv, NEW c \in Calls, W!SetLimit(c) PROVE WarnsInv'
<1>1. /\ call[c].pc = "act" /\ settings' = [settings EXCEPT ![call[c].doc] = call[c].limit]
      /\ pardoned' = (pardoned \/ settings'[1] # settings[1])
      /\ call' = [call EXCEPT ![c].pc = "done"]
      /\ warns' = warns /\ deaths' = deaths
  BY DEF W!SetLimit, W!Go
<1>2. call[c] \in WarnCalls /\ call[c].doc \in 1 .. Len(settings) /\ call[c].limit \in Nat
  BY <1>1 DEF WarnsInv, WarnsTyped, OpsAtSteps, WarnCalls
<1>3. settings' \in Seq(Nat) /\ Len(settings') = Len(settings) /\ settings' # <<>> /\ settings # <<>>
  BY <1>1, <1>2 DEF WarnsInv, WarnsTyped
<1>4. /\ call' \in [Calls -> WarnCalls] /\ call'[c].pc = "done"
      /\ \A d \in Calls \ {c} : call'[d] = call[d]
  BY <1>1, <1>2 DEF WarnsInv, WarnsTyped, WarnCalls
<1>5. ~ pardoned' => W!Limit' = W!Limit
  BY <1>1, <1>3 DEF W!Limit
<1>6. OneLimit'
  BY <1>1, <1>4, <1>5 DEF WarnsInv, OneLimit
<1> QED
  BY <1>1, <1>3, <1>4, <1>6, OthersJudge DEF WarnsInv, WarnsTyped, OpsAtSteps, WillJudge

\* The steps of warn_user before the count: the new warn may be the one that
\* reaches the limit, and the call that inserted it will count.
LEMMA InsertKeeps ==
    ASSUME WarnsUsual, WarnsInv, NEW c \in Calls, W!Insert(c) PROVE WarnsInv'
<1>1. /\ call[c].pc = "insert" /\ warns' = warns \cup {c} /\ call' = [call EXCEPT ![c].pc = "count"]
      /\ settings' = settings /\ deaths' = deaths /\ pardoned' = pardoned
  BY DEF W!Insert, W!Go
<1>2. /\ call' \in [Calls -> WarnCalls] /\ call'[c] = [call[c] EXCEPT !.pc = "count"]
      /\ \A d \in Calls \ {c} : call'[d] = call[d]
  BY <1>1 DEF WarnsInv, WarnsTyped, WarnCalls
<1>3. /\ call[c] \in WarnCalls
      /\ call'[c].pc = "count" /\ call'[c].op = call[c].op /\ call'[c].limit = call[c].limit
  BY <1>2 DEF WarnsInv, WarnsTyped, WarnCalls
<1>4. SomebodyJudges'
  BY <1>3 DEF SomebodyJudges, WillJudge
<1> QED
  BY <1>1, <1>2, <1>3, <1>4 DEF WarnsInv, WarnsTyped, OpsAtSteps, OneLimit, W!Limit

\* Who counts sees every warn there is, and goes on to the limit if they
\* reach it.
LEMMA CountKeeps ==
    ASSUME WarnsUsual, WarnsInv, NEW c \in Calls, W!Count(c) PROVE WarnsInv'
<1>1. /\ call[c].pc = "count"
      /\ call' = [call EXCEPT ![c].pc = "each", ![c].count = Cardinality(warns)]
      /\ warns' = warns /\ settings' = settings /\ deaths' = deaths /\ pardoned' = pardoned
  BY SameNumber DEF W!Count
<1>2. Cardinality(warns) \in Nat
  BY FewerWarns DEF WarnsInv, WarnsTyped
<1>3. /\ call' \in [Calls -> WarnCalls]
      /\ call'[c] = [call[c] EXCEPT !.pc = "each", !.count = Cardinality(warns)]
      /\ \A d \in Calls \ {c} : call'[d] = call[d]
  BY <1>1, <1>2 DEF WarnsInv, WarnsTyped, WarnCalls
<1>4. /\ call[c] \in WarnCalls
      /\ call'[c].pc = "each" /\ call'[c].count = Cardinality(warns)
      /\ call'[c].op = call[c].op /\ call'[c].limit = call[c].limit
  BY <1>3 DEF WarnsInv, WarnsTyped, WarnCalls
<1>5. SomebodyJudges'
  BY <1>1, <1>4 DEF SomebodyJudges, WillJudge
<1> QED
  BY <1>1, <1>3, <1>4, <1>5 DEF WarnsInv, WarnsTyped, OpsAtSteps, OneLimit, W!Limit

\* Who counted enough goes on to the limit, since everybody's limit is one.
LEMMA EachKeeps ==
    ASSUME WarnsUsual, WarnsInv, NEW c \in Calls, W!Each(c) PROVE WarnsInv'
<1> DEFINE next == IF call[c].count >= call[c].limit THEN "limit" ELSE "done"
<1>1. /\ call[c].pc = "each" /\ call' = [call EXCEPT ![c].pc = next]
      /\ warns' = warns /\ settings' = settings /\ deaths' = deaths /\ pardoned' = pardoned
  BY DEF W!Each, W!Go
<1>2. next \in {"limit", "done"}
  OBVIOUS
<1>3. /\ call' \in [Calls -> WarnCalls] /\ call[c] \in WarnCalls
      /\ call'[c] = [call[c] EXCEPT !.pc = next]
      /\ \A d \in Calls \ {c} : call'[d] = call[d]
  BY <1>1, <1>2 DEF WarnsInv, WarnsTyped, WarnCalls
<1>4. call'[c].pc = next /\ call'[c].op = call[c].op /\ call'[c].limit = call[c].limit
  BY <1>3 DEF WarnCalls
<1>5. SomebodyJudges'
  <2>1. CASE WillJudge(c) /\ ~ pardoned
    <3>1. call[c].count >= WarnDefault /\ call[c].limit = WarnDefault
      BY <1>1, <2>1 DEF WarnsInv, OneLimit, WillJudge
    <3>2. WillJudge(c)'
      BY <1>4, <3>1 DEF WillJudge
    <3> QED
      BY <3>2 DEF SomebodyJudges
  <2>2. CASE ~ WillJudge(c)
    BY <1>1, <1>3, <2>2, OthersJudge DEF WarnsInv
  <2>3. CASE pardoned
    BY <1>1, <2>3 DEF SomebodyJudges
  <2> QED
    BY <2>1, <2>2, <2>3
<1> HIDE DEF next
<1> QED
  BY <1>1, <1>2, <1>3, <1>4, <1>5 DEF WarnsInv, WarnsTyped, OpsAtSteps, OneLimit, W!Limit

\* Deleting the warns of the user leaves nothing to act on.
LEMMA NothingLeft ==
    ASSUME WarnsUsual, warns' = {} PROVE SomebodyJudges'
BY FS_EmptySet DEF WarnsUsual, SomebodyJudges

\* A call deletes the warns.
LEMMA ClearKeeps ==
    ASSUME WarnsUsual, WarnsInv, NEW c \in Calls, W!Clear(c) PROVE WarnsInv'
<1>1. /\ call[c].pc = "limit" /\ call' = [call EXCEPT ![c].pc = "max"] /\ warns' = {}
      /\ settings' = settings /\ deaths' = deaths /\ pardoned' = pardoned
  BY DEF W!Clear, W!Go
<1>2. /\ call' \in [Calls -> WarnCalls] /\ call[c] \in WarnCalls
      /\ call'[c] = [call[c] EXCEPT !.pc = "max"]
      /\ \A d \in Calls \ {c} : call'[d] = call[d]
  BY <1>1 DEF WarnsInv, WarnsTyped, WarnCalls
<1>3. call'[c].pc = "max" /\ call'[c].op = call[c].op /\ call'[c].limit = call[c].limit
  BY <1>2 DEF WarnCalls
<1> QED
  BY <1>1, <1>2, <1>3, NothingLeft DEF WarnsInv, WarnsTyped, OpsAtSteps, OneLimit, W!Limit

\* A call that ends: after the action of the limit, or where it dies.  One
\* that dies between its insert and the deletion pardons.
LEMMA EndKeeps ==
    ASSUME WarnsUsual, WarnsInv, NEW c \in Calls, W!Punish(c) \/ W!Die(c) PROVE WarnsInv'
<1>1. /\ call' = [call EXCEPT ![c].pc = "done"] /\ warns' = warns /\ settings' = settings
      /\ deaths' \in Nat
      /\ ~ pardoned' => ~ pardoned /\ ~ WillJudge(c)
      /\ pardoned' \in BOOLEAN
  <2>1. CASE W!Punish(c)
    BY <2>1 DEF W!Punish, W!Go, WarnsInv, WarnsTyped, WillJudge
  <2>2. CASE W!Die(c)
    <3>1. deaths' = deaths + 1 /\ deaths \in Nat
      BY <2>2 DEF W!Die, WarnsInv, WarnsTyped
    <3>2. pardoned' = (pardoned \/ call[c].pc \in {"count", "each", "limit"})
      BY <2>2 DEF W!Die
    <3>3. pardoned' \in BOOLEAN /\ (~ pardoned' => ~ pardoned /\ ~ WillJudge(c))
      BY <3>2 DEF WarnsInv, WarnsTyped, WillJudge
    <3> QED
      BY <2>2, <3>1, <3>3 DEF W!Die, W!Go
  <2> QED
    BY <2>1, <2>2
<1>2. /\ call' \in [Calls -> WarnCalls] /\ call'[c].pc = "done"
      /\ \A d \in Calls \ {c} : call'[d] = call[d]
  BY <1>1 DEF WarnsInv, WarnsTyped, WarnCalls
<1>3. SomebodyJudges'
  <2>1. CASE pardoned'
    BY <2>1 DEF SomebodyJudges
  <2>2. CASE ~ pardoned'
    BY <1>1, <1>2, <2>2, OthersJudge DEF WarnsInv
  <2> QED
    BY <2>1, <2>2
<1> QED
  BY <1>1, <1>2, <1>3 DEF WarnsInv, WarnsTyped, OpsAtSteps, OneLimit, W!Limit

\* Buttons and routes that delete one warn, or all of them.
LEMMA DeletionKeeps ==
    ASSUME WarnsUsual, WarnsInv, (\E w \in Calls : W!DeleteWarn(w)) \/ W!Reset PROVE WarnsInv'
<1>1. /\ warns' \subseteq warns
      /\ settings' = settings /\ call' = call /\ deaths' = deaths /\ pardoned' = pardoned
  BY DEF W!DeleteWarn, W!Reset
<1>2. Cardinality(warns') \in Nat /\ Cardinality(warns) \in Nat /\ Cardinality(warns') <= Cardinality(warns)
  BY <1>1, FewerWarns DEF WarnsInv, WarnsTyped
<1>3. SomebodyJudges'
  BY <1>1, <1>2 DEF WarnsInv, SomebodyJudges, WillJudge, WarnsUsual
<1> QED
  BY <1>1, <1>3 DEF WarnsInv, WarnsTyped, OpsAtSteps, OneLimit, W!Limit

\* The invariant of Warns holds after every step.
LEMMA WarnsNextPreserves ==
    ASSUME WarnsUsual, WarnsInv, [W!Next]_(W!vars) PROVE WarnsInv'
<1>1. CASE \E c \in Calls : W!Find(c, "warn", WarnDefault) \/ \E n \in WarnLimits : W!Find(c, "limit", n)
  BY <1>1, FindKeeps
<1>2. CASE \E c \in Calls : W!Create(c) \/ W!SetLimit(c)
  BY <1>2, CreateKeeps, SetLimitKeeps
<1>3. CASE \E c \in Calls : W!Insert(c) \/ W!Count(c) \/ W!Each(c) \/ W!Clear(c)
  BY <1>3, InsertKeeps, CountKeeps, EachKeeps, ClearKeeps
<1>4. CASE \E c \in Calls : W!Punish(c) \/ W!Die(c)
  BY <1>4, EndKeeps
<1>5. CASE (\E c \in Calls : W!DeleteWarn(c)) \/ W!Reset
  BY <1>5, DeletionKeeps
<1>6. CASE UNCHANGED W!vars
  BY <1>6 DEF W!vars, WarnsInv, WarnsTyped, OpsAtSteps, OneLimit, W!Limit,
      SomebodyJudges, WillJudge
<1> QED
  BY <1>1, <1>2, <1>3, <1>4, <1>5, <1>6 DEF W!Next

\* A call that will judge is a running warn_user, and while one runs the
\* property says nothing.
LEMMA WarnsInvImplies ==
    ASSUME WarnsUsual, WarnsInv PROVE W!NobodyAtLimit
<1> SUFFICES ASSUME W!Warning = {}, ~ pardoned PROVE Cardinality(warns) < WarnDefault
  BY SameNumber DEF W!NobodyAtLimit, WarnsInv, OneLimit
<1>1. \A c \in Calls : ~ WillJudge(c)
  BY DEF W!Warning, WarnsInv, OpsAtSteps, WillJudge
<1>2. Cardinality(warns) \in Nat
  BY FewerWarns DEF WarnsInv, WarnsTyped
<1> QED
  BY <1>1, <1>2 DEF WarnsInv, SomebodyJudges, WarnsUsual

-------------------------------------------------------------------------------

\* The types, the one limit and the call that judges are an invariant.
THEOREM WarnsInvariance ==
    ASSUME WarnsUsual PROVE W!Spec => []WarnsInv
<1>1. W!Init => WarnsInv
  BY WarnsBegin
<1>2. WarnsInv /\ [W!Next]_(W!vars) => WarnsInv'
  BY WarnsNextPreserves
<1> QED
  BY <1>1, <1>2, PTL DEF W!Spec

\* Nobody sits at the limit unpunished: however warn_user interleaves with
\* itself, with the creation of the settings and with deletions, after the
\* last call either the warns are fewer than the limit or somebody was
\* pardoned.
THEOREM WarnsJudged ==
    ASSUME WarnsUsual PROVE W!Spec => []W!NobodyAtLimit
<1>1. WarnsInv => W!NobodyAtLimit
  BY WarnsInvImplies
<1> QED
  BY <1>1, WarnsInvariance, PTL

-----------------------------------------------------------------------------
(* Antiflood, by its own names of the slots *)

last == v1
count == v2
ttl == v3
handler == v4
messages == v5
crashes == v6
streak == v7
alone == v8

USE DEF last, count, ttl, handler, messages, crashes, streak, alone

\* The sender that stands for the exempt ones is none of the others, and only
\* so many handlers run.
FloodUsual == Exempt \notin Users /\ None \notin Users /\ IsFiniteSet(Calls)

FloodHandlers ==
    [pc : {"idle", "last", "reset", "set", "count", "expire", "act", "forgive"},
     user : Users \cup {None}, judged : BOOLEAN]

Busy(h) == handler[h].pc # "idle"

FloodTyped ==
    /\ last \in Users \cup {Exempt, None}
    /\ count \in [Users -> Nat]
    /\ ttl \in [Users -> BOOLEAN]
    /\ handler \in [Calls -> FloodHandlers]
    /\ \A h \in Calls : Busy(h) => handler[h].user \in Users
    /\ crashes \in Nat
    /\ streak \in [user : Users \cup {Exempt, None}, length : Nat]
    /\ alone \in BOOLEAN

\* A key that expires is there.
KeysExpire == \A u \in Users : ttl[u] => count[u] > 0

\* Where the only handler is on its way to make the counter of its user the
\* length of the streak.
OnItsWay(h) ==
    LET u == handler[h].user IN
    /\ streak.user = u
    /\ handler[h].pc = "last" =>
           streak.length = IF last = u THEN count[u] + 1 ELSE 1
    /\ handler[h].pc = "reset" => streak.length = 1
    /\ handler[h].pc = "set" => count[u] = 0 /\ streak.length = 1
    /\ handler[h].pc \in {"count", "expire", "act", "forgive"} => last = u
    /\ handler[h].pc = "count" => streak.length = count[u] + 1
    /\ handler[h].pc = "expire" => count[u] = 1 /\ streak.length = 1 /\ ~ ttl[u]
    /\ handler[h].pc \in {"act", "forgive"} => count[u] = streak.length
    /\ handler[h].pc = "act" => streak.length >= FloodLimit \/ streak.length = 0

\* Messages that are handled one after the other have one handler at a time,
\* and between two of them the counter is the streak.
OneByOne ==
    alone =>
        /\ \A h, k \in Calls : Busy(h) /\ Busy(k) => h = k
        /\ \A h \in Calls : Busy(h) => OnItsWay(h)
        /\ F!Quiet => last = streak.user /\ (last \in Users => count[last] = streak.length)

FloodInv == FloodTyped /\ KeysExpire /\ OneByOne /\ F!CountersEnd

-------------------------------------------------------------------------------

\* No message has been seen and no key is there.
LEMMA FloodBegins ==
    ASSUME FloodUsual, F!Init PROVE FloodInv
BY DEF F!Init, F!Idle, FloodInv, FloodTyped, FloodHandlers, Busy, KeysExpire, OneByOne,
    OnItsWay, F!CountersEnd, F!Quiet, FloodUsual

\* The handler h goes to that step.
LEMMA StepDoes ==
    ASSUME FloodTyped, NEW h \in Calls, Busy(h),
           NEW step \in {"last", "reset", "set", "count", "expire", "act", "forgive"},
           \/ F!At(h, step)
           \/ handler' = [handler EXCEPT ![h] = [@ EXCEPT !.pc = step]]
    PROVE  /\ handler' \in [Calls -> FloodHandlers]
           /\ handler'[h].pc = step /\ handler'[h].user = handler[h].user
           /\ handler[h].user \in Users
           /\ \A k \in Calls \ {h} : handler'[k] = handler[k]
<1> DEFINE new == [handler[h] EXCEPT !.pc = step]
<1>1. handler \in [Calls -> FloodHandlers] /\ handler[h] \in FloodHandlers /\ handler[h].user \in Users
  BY DEF FloodTyped
<1>2. new \in FloodHandlers /\ new.pc = step /\ new.user = handler[h].user
  BY <1>1 DEF FloodHandlers
<1>3. handler' = [handler EXCEPT ![h] = new]
  BY DEF F!At
<1> HIDE DEF new
<1> QED
  BY <1>1, <1>2, <1>3

\* The handler h is over.
LEMMA EndDoes ==
    ASSUME FloodTyped, NEW h \in Calls, handler' = [handler EXCEPT ![h] = F!Idle]
    PROVE  /\ handler' \in [Calls -> FloodHandlers]
           /\ handler'[h].pc = "idle"
           /\ \A k \in Calls \ {h} : handler'[k] = handler[k]
BY DEF FloodTyped, FloodHandlers, F!Idle

\* The judgement: the handler acts or is over.
LEMMA JudgeDoes ==
    ASSUME FloodTyped, NEW h \in Calls, Busy(h), NEW n \in Nat, F!Judge(h, n)
    PROVE  /\ handler' \in [Calls -> FloodHandlers]
           /\ handler[h].user \in Users
           /\ \/ handler'[h].pc = "idle"
              \/ handler'[h].pc = "act" /\ handler'[h].user = handler[h].user /\ n >= FloodLimit
           /\ \A k \in Calls \ {h} : handler'[k] = handler[k]
<1>1. CASE handler[h].judged /\ n >= FloodLimit
  <2>1. handler' = [handler EXCEPT ![h] = [@ EXCEPT !.pc = "act"]]
    BY <1>1 DEF F!Judge, FloodTyped
  <2> QED
    BY <1>1, <2>1, StepDoes DEF FloodTyped
<1>2. CASE ~ (handler[h].judged /\ n >= FloodLimit)
  <2>1. handler' = [handler EXCEPT ![h] = F!Idle]
    BY <1>2 DEF F!Judge, FloodTyped
  <2> QED
    BY <2>1, EndDoes DEF FloodTyped
<1> QED
  BY <1>1, <1>2

\* Somebody is at work: with messages one after the other he is the only one.
LEMMA OnlyOne ==
    ASSUME FloodInv, alone, NEW h \in Calls, Busy(h)
    PROVE  OnItsWay(h) /\ \A k \in Calls \ {h} : ~ Busy(k)
BY DEF FloodInv, OneByOne

\* A step of h that leaves the others, the keys' number and the crashes alone.
LEMMA FloodTogether ==
    ASSUME FloodUsual, FloodInv, FloodTyped', KeysExpire', NEW h \in Calls, Busy(h),
           \A k \in Calls \ {h} : handler'[k] = handler[k],
           alone' = alone,
           alone /\ Busy(h)' => OnItsWay(h)',
           alone /\ ~ Busy(h)' =>
               last' = streak'.user /\ (last' \in Users => count'[last'] = streak'.length)
    PROVE  OneByOne'
<1> SUFFICES ASSUME alone' PROVE
        /\ \A g, k \in Calls : Busy(g)' /\ Busy(k)' => g = k
        /\ \A k \in Calls : Busy(k)' => OnItsWay(k)'
        /\ F!Quiet' => last' = streak'.user /\ (last' \in Users => count'[last'] = streak'.length)
  BY DEF OneByOne
<1>1. \A k \in Calls \ {h} : ~ Busy(k)'
  BY OnlyOne DEF Busy
<1> QED
  BY <1>1 DEF F!Quiet, Busy

\* A message that is not counted changes nothing of the streak.
LEMMA PassKeeps ==
    ASSUME FloodUsual, FloodInv, F!Pass PROVE FloodInv'
<1>1. FloodTyped' /\ KeysExpire'
  BY DEF F!Pass, F!Said, FloodInv, FloodTyped, KeysExpire, Busy
<1>2. OneByOne'
  BY DEF F!Pass, F!Said, F!Quiet, FloodInv, OneByOne, Busy, FloodUsual
<1>3. F!CountersEnd'
  BY DEF F!Pass, FloodInv, F!CountersEnd
<1> QED
  BY <1>1, <1>2, <1>3 DEF FloodInv

\* A message begins: a streak goes on, or another one begins.
LEMMA ReceiveKeeps ==
    ASSUME FloodUsual, FloodInv, NEW h \in Calls, NEW u \in Users, F!Receive(h, u)
    PROVE  FloodInv'
<1> DEFINE new == [F!Idle EXCEPT !.pc = "last", !.user = u]
<1>1. new \in FloodHandlers /\ new.pc = "last" /\ new.user = u
  BY DEF F!Idle, FloodHandlers
<1>2. handler' = [handler EXCEPT ![h] = new]
  BY DEF F!Receive
<1> HIDE DEF new
<1>3. /\ handler' \in [Calls -> FloodHandlers]
      /\ handler'[h].pc = "last" /\ handler'[h].user = u
      /\ \A k \in Calls \ {h} : handler'[k] = handler[k]
  BY <1>1, <1>2 DEF FloodInv, FloodTyped
<1>4. /\ streak' = [user |-> u, length |-> 1 + IF streak.user = u THEN streak.length ELSE 0]
      /\ alone' = (alone /\ F!Quiet) /\ handler[h].pc = "idle"
      /\ UNCHANGED <<last, count, ttl, crashes>>
  BY DEF F!Receive, F!Said
<1>5. FloodTyped' /\ KeysExpire'
  BY <1>3, <1>4 DEF FloodInv, FloodTyped, KeysExpire, Busy
<1>6. OneByOne'
  <2> SUFFICES ASSUME alone, F!Quiet PROVE
          /\ \A g, k \in Calls : Busy(g)' /\ Busy(k)' => g = k
          /\ \A k \in Calls : Busy(k)' => OnItsWay(k)'
          /\ ~ F!Quiet'
    BY <1>4 DEF OneByOne
  <2>1. \A k \in Calls \ {h} : ~ Busy(k)'
    BY <1>3 DEF Busy, F!Quiet
  <2>2. last = streak.user /\ (last \in Users => count[last] = streak.length)
    BY DEF FloodInv, OneByOne
  <2>3. streak'.length = IF last = u THEN count[u] + 1 ELSE 1
    BY <1>4, <2>2 DEF FloodInv, FloodTyped
  <2>4. OnItsWay(h)'
    BY <1>3, <1>4, <2>3 DEF OnItsWay
  <2> QED
    BY <1>3, <2>1, <2>4 DEF Busy, F!Quiet
<1>7. F!CountersEnd'
  BY <1>3, <1>4 DEF FloodInv, F!CountersEnd
<1> QED
  BY <1>5, <1>6, <1>7 DEF FloodInv

\* The handler reads who sent last.
LEMMA GetLastKeeps ==
    ASSUME FloodUsual, FloodInv, NEW h \in Calls, F!GetLast(h)
    PROVE  FloodInv'
<1> DEFINE new == IF last = handler[h].user THEN [handler[h] EXCEPT !.pc = "count", !.judged = TRUE]
                                            ELSE [handler[h] EXCEPT !.pc = "reset"]
<1>1. /\ handler \in [Calls -> FloodHandlers] /\ handler[h] \in FloodHandlers
      /\ handler[h].pc = "last" /\ handler[h].user \in Users
  BY DEF FloodInv, FloodTyped, F!GetLast, Busy
<1>2. /\ new \in FloodHandlers /\ new.user = handler[h].user
      /\ new.pc = IF last = handler[h].user THEN "count" ELSE "reset"
  BY <1>1 DEF FloodHandlers
<1>3. handler' = [handler EXCEPT ![h] = new]
  BY DEF F!GetLast
<1> HIDE DEF new
<1>4. /\ handler' \in [Calls -> FloodHandlers]
      /\ handler'[h].pc = (IF last = handler[h].user THEN "count" ELSE "reset")
      /\ handler'[h].user = handler[h].user
      /\ \A k \in Calls \ {h} : handler'[k] = handler[k]
  BY <1>1, <1>2, <1>3
<1>5. UNCHANGED <<last, count, ttl, crashes, streak, alone>>
  BY DEF F!GetLast
<1>6. FloodTyped' /\ KeysExpire'
  BY <1>1, <1>4, <1>5 DEF FloodInv, FloodTyped, KeysExpire, Busy
<1>7. Busy(h) /\ Busy(h)'
  BY <1>1, <1>4 DEF Busy
<1>8. ASSUME alone PROVE OnItsWay(h)'
  <2>1. OnItsWay(h)
    BY <1>7, <1>8, OnlyOne
  <2> QED
    BY <1>1, <1>4, <1>5, <2>1 DEF OnItsWay
<1>9. OneByOne'
  BY <1>4, <1>5, <1>6, <1>7, <1>8, FloodTogether
<1>10. F!CountersEnd'
  BY <1>1, <1>4, <1>5 DEF FloodInv, F!CountersEnd
<1> QED
  BY <1>6, <1>9, <1>10 DEF FloodInv

\* The counter starts over with another sender.
LEMMA ResetKeeps ==
    ASSUME FloodUsual, FloodInv, NEW h \in Calls, F!Reset(h)
    PROVE  FloodInv'
<1>1. handler[h].pc = "reset" /\ Busy(h) /\ F!At(h, "set")
  BY DEF F!Reset, Busy
<1>2. /\ handler' \in [Calls -> FloodHandlers]
      /\ handler'[h].pc = "set" /\ handler'[h].user = handler[h].user
      /\ handler[h].user \in Users
      /\ \A k \in Calls \ {h} : handler'[k] = handler[k]
  BY <1>1, StepDoes DEF FloodInv
<1>3. /\ count' = [count EXCEPT ![handler[h].user] = 0] /\ ttl' = [ttl EXCEPT ![handler[h].user] = FALSE]
      /\ UNCHANGED <<last, crashes, streak, alone>>
  BY DEF F!Reset, F!Delete
<1>4. FloodTyped'
  BY <1>2, <1>3 DEF FloodInv, FloodTyped, Busy
<1>5. KeysExpire'
  BY <1>2, <1>3 DEF FloodInv, FloodTyped, KeysExpire
<1>6. ASSUME alone PROVE OnItsWay(h)'
  <2>1. OnItsWay(h)
    BY <1>1, <1>6, OnlyOne
  <2> QED
    BY <1>1, <1>2, <1>3, <2>1 DEF OnItsWay, FloodInv, FloodTyped
<1>7. OneByOne'
  BY <1>1, <1>2, <1>3, <1>4, <1>5, <1>6, FloodTogether DEF Busy
<1>8. F!CountersEnd'
  BY <1>1, <1>2, <1>3 DEF FloodInv, F!CountersEnd, FloodTyped
<1> QED
  BY <1>4, <1>5, <1>7, <1>8 DEF FloodInv

\* The handler writes who sent last.
LEMMA SetLastKeeps ==
    ASSUME FloodUsual, FloodInv, NEW h \in Calls, F!SetLast(h)
    PROVE  FloodInv'
<1>1. handler[h].pc = "set" /\ Busy(h) /\ F!At(h, "count")
  BY DEF F!SetLast, Busy
<1>2. /\ handler' \in [Calls -> FloodHandlers]
      /\ handler'[h].pc = "count" /\ handler'[h].user = handler[h].user
      /\ handler[h].user \in Users
      /\ \A k \in Calls \ {h} : handler'[k] = handler[k]
  BY <1>1, StepDoes DEF FloodInv
<1>3. last' = handler[h].user /\ UNCHANGED <<count, ttl, crashes, streak, alone>>
  BY DEF F!SetLast
<1>4. FloodTyped' /\ KeysExpire'
  BY <1>2, <1>3 DEF FloodInv, FloodTyped, Busy, KeysExpire
<1>5. ASSUME alone PROVE OnItsWay(h)'
  <2>1. OnItsWay(h)
    BY <1>1, <1>5, OnlyOne
  <2> QED
    BY <1>1, <1>2, <1>3, <2>1 DEF OnItsWay, FloodInv, FloodTyped
<1>6. OneByOne'
  BY <1>1, <1>2, <1>3, <1>4, <1>5, FloodTogether DEF Busy
<1>7. F!CountersEnd'
  BY <1>1, <1>2, <1>3 DEF FloodInv, F!CountersEnd
<1> QED
  BY <1>4, <1>6, <1>7 DEF FloodInv

\* The handler counts the message.
LEMMA IncrementKeeps ==
    ASSUME FloodUsual, FloodInv, NEW h \in Calls, F!Increment(h)
    PROVE  FloodInv'
<1> DEFINE u == handler[h].user
<1>1. handler[h].pc = "count" /\ Busy(h) /\ u \in Users
  BY DEF F!Increment, Busy, FloodInv, FloodTyped
<1>2. /\ count' = [count EXCEPT ![u] = count[u] + 1]
      /\ UNCHANGED <<last, ttl, crashes, streak, alone>>
  BY DEF F!Increment
<1>3. /\ handler' \in [Calls -> FloodHandlers]
      /\ \/ count[u] = 0 /\ handler'[h].pc = "expire" /\ handler'[h].user = u
         \/ count[u] # 0 /\ handler'[h].pc = "idle"
         \/ /\ count[u] # 0 /\ handler'[h].pc = "act" /\ handler'[h].user = u
            /\ count[u] + 1 >= FloodLimit
      /\ \A k \in Calls \ {h} : handler'[k] = handler[k]
  <2>1. CASE count[u] = 0
    <3>1. F!At(h, "expire")
      BY <2>1 DEF F!Increment
    <3> QED
      BY <1>1, <2>1, <3>1, StepDoes DEF FloodInv
  <2>2. CASE count[u] # 0
    <3>1. F!Judge(h, count[u] + 1) /\ count[u] + 1 \in Nat
      BY <1>1, <1>2, <2>2 DEF F!Increment, FloodInv, FloodTyped
    <3> QED
      BY <1>1, <2>2, <3>1, JudgeDoes DEF FloodInv
  <2> QED
    BY <2>1, <2>2
<1>4. FloodTyped'
  BY <1>1, <1>2, <1>3 DEF FloodInv, FloodTyped, Busy
<1>5. KeysExpire'
  BY <1>1, <1>2 DEF FloodInv, FloodTyped, KeysExpire
<1>6. ASSUME alone
      PROVE  last = u /\ streak.user = u /\ streak.length = count[u] + 1 /\ (count[u] = 0 => ~ ttl[u])
  BY <1>1, <1>6, OnlyOne DEF OnItsWay, FloodInv, KeysExpire, FloodTyped
<1>7. count'[u] = count[u] + 1
  BY <1>1, <1>2 DEF FloodInv, FloodTyped
<1>8. ASSUME alone, Busy(h)' PROVE OnItsWay(h)'
  BY <1>1, <1>2, <1>3, <1>6, <1>7, <1>8 DEF OnItsWay, Busy
<1>9. ASSUME alone PROVE last' = streak'.user /\ (last' \in Users => count'[last'] = streak'.length)
  BY <1>2, <1>6, <1>7, <1>9
<1>10. OneByOne'
  BY <1>1, <1>2, <1>3, <1>4, <1>5, <1>8, <1>9, FloodTogether
<1>11. F!CountersEnd'
  <2> SUFFICES ASSUME crashes = 0, NEW v \in Users, count'[v] > 0, ~ ttl[v]
               PROVE  \E k \in Calls : handler'[k].pc = "expire" /\ handler'[k].user = v
    BY <1>2 DEF F!CountersEnd
  <2>1. CASE v = u /\ count[u] = 0
    BY <1>3, <2>1
  <2>2. CASE ~ (v = u /\ count[u] = 0)
    <3>1. count[v] > 0
      BY <1>1, <1>2, <2>2 DEF FloodInv, FloodTyped
    <3>2. PICK k \in Calls : handler[k].pc = "expire" /\ handler[k].user = v
      BY <1>2, <3>1 DEF FloodInv, F!CountersEnd
    <3> QED
      BY <1>1, <1>3, <3>2
  <2> QED
    BY <2>1, <2>2
<1> QED
  BY <1>4, <1>5, <1>10, <1>11 DEF FloodInv

\* The counter gets its lifetime.
LEMMA SetExpiryKeeps ==
    ASSUME FloodUsual, FloodInv, NEW h \in Calls, F!SetExpiry(h)
    PROVE  FloodInv'
<1> DEFINE u == handler[h].user
<1>1. handler[h].pc = "expire" /\ Busy(h) /\ u \in Users
  BY DEF F!SetExpiry, Busy, FloodInv, FloodTyped
<1>2. /\ ttl' = [ttl EXCEPT ![u] = count[u] > 0]
      /\ UNCHANGED <<last, count, crashes, streak, alone>>
  BY DEF F!SetExpiry
<1>3. /\ handler' \in [Calls -> FloodHandlers]
      /\ \/ handler'[h].pc = "idle"
         \/ handler'[h].pc = "act" /\ handler'[h].user = u /\ 1 >= FloodLimit
      /\ \A k \in Calls \ {h} : handler'[k] = handler[k]
  BY <1>1, JudgeDoes DEF FloodInv, F!SetExpiry
<1>4. FloodTyped'
  BY <1>1, <1>2, <1>3 DEF FloodInv, FloodTyped, Busy
<1>5. KeysExpire'
  BY <1>1, <1>2 DEF FloodInv, FloodTyped, KeysExpire
<1>6. ASSUME alone
      PROVE  last = u /\ streak.user = u /\ streak.length = 1 /\ count[u] = 1
  BY <1>1, <1>6, OnlyOne DEF OnItsWay
<1>7. ASSUME alone, Busy(h)' PROVE OnItsWay(h)'
  BY <1>1, <1>2, <1>3, <1>6, <1>7 DEF OnItsWay, Busy
<1>8. OneByOne'
  BY <1>1, <1>2, <1>3, <1>4, <1>5, <1>6, <1>7, FloodTogether
<1>9. F!CountersEnd'
  <2> SUFFICES ASSUME crashes = 0, NEW v \in Users, count[v] > 0, ~ ttl'[v]
               PROVE  \E k \in Calls : handler'[k].pc = "expire" /\ handler'[k].user = v
    BY <1>2 DEF F!CountersEnd
  <2>1. v # u /\ ~ ttl[v]
    BY <1>1, <1>2 DEF FloodInv, FloodTyped
  <2>2. PICK k \in Calls : handler[k].pc = "expire" /\ handler[k].user = v
    BY <2>1 DEF FloodInv, F!CountersEnd
  <2> QED
    BY <1>3, <2>1, <2>2
<1> QED
  BY <1>4, <1>5, <1>8, <1>9 DEF FloodInv

\* The handler that counted up to the limit acts.
LEMMA ActKeeps ==
    ASSUME FloodUsual, FloodInv, NEW h \in Calls, F!Act(h)
    PROVE  FloodInv'
<1> DEFINE u == handler[h].user
<1>1. handler[h].pc = "act" /\ Busy(h) /\ u \in Users
  BY DEF F!Act, Busy, FloodInv, FloodTyped
<1>2. UNCHANGED <<last, count, ttl, crashes, streak, alone>>
  BY DEF F!Act
<1>3. /\ handler' \in [Calls -> FloodHandlers]
      /\ \/ handler'[h].pc = "idle"
         \/ handler'[h].pc = "forgive" /\ handler'[h].user = u
      /\ \A k \in Calls \ {h} : handler'[k] = handler[k]
  <2>1. CASE F!At(h, "forgive")
    BY <1>1, <2>1, StepDoes DEF FloodInv
  <2>2. CASE handler' = [handler EXCEPT ![h] = F!Idle]
    BY <2>2, EndDoes DEF FloodInv
  <2> QED
    BY <2>1, <2>2 DEF F!Act
<1>4. FloodTyped' /\ KeysExpire'
  BY <1>1, <1>2, <1>3 DEF FloodInv, FloodTyped, KeysExpire, Busy
<1>5. ASSUME alone
      PROVE  last = u /\ streak.user = u /\ streak.length = count[u]
  BY <1>1, <1>5, OnlyOne DEF OnItsWay
<1>6. ASSUME alone, Busy(h)' PROVE OnItsWay(h)'
  BY <1>1, <1>2, <1>3, <1>5, <1>6 DEF OnItsWay, Busy
<1>7. OneByOne'
  BY <1>1, <1>2, <1>3, <1>4, <1>5, <1>6, FloodTogether
<1>8. F!CountersEnd'
  BY <1>1, <1>2, <1>3 DEF FloodInv, F!CountersEnd
<1> QED
  BY <1>4, <1>7, <1>8 DEF FloodInv

\* The instance of Antiflood counts the same.
LEMMA SameCardinality ==
    ASSUME NEW S PROVE F!Cardinality(S) = Cardinality(S)
BY DEF F!Cardinality, Cardinality, F!IsFiniteSet, IsFiniteSet

\* What a user's streak becomes when its key goes: the messages not counted yet.
LEMMA ForgottenDoes ==
    ASSUME FloodUsual, FloodTyped, NEW u \in Users, F!Forgotten(u)
    PROVE  /\ streak' \in [user : Users \cup {Exempt, None}, length : Nat]
           /\ streak'.user = streak.user
           /\ streak'.length = IF streak.user = u THEN Cardinality(F!Uncounted(u)) ELSE streak.length
           /\ F!Uncounted(u) = {} => Cardinality(F!Uncounted(u)) = 0
           /\ \A h \in Calls : F!Uncounted(u) = {h} => Cardinality(F!Uncounted(u)) = 1
<1>1. F!Uncounted(u) \subseteq Calls
  BY DEF F!Uncounted
<1>2. Cardinality(F!Uncounted(u)) \in Nat
  BY <1>1, FS_Subset, FS_CardinalityType DEF FloodUsual
<1>3. /\ F!Uncounted(u) = {} => Cardinality(F!Uncounted(u)) = 0
      /\ \A h \in Calls : F!Uncounted(u) = {h} => Cardinality(F!Uncounted(u)) = 1
  BY FS_EmptySet, FS_Singleton
<1>4. CASE streak.user = u
  <2> DEFINE new == [streak EXCEPT !.length = Cardinality(F!Uncounted(u))]
  <2>1. /\ new \in [user : Users \cup {Exempt, None}, length : Nat]
        /\ new.user = streak.user /\ new.length = Cardinality(F!Uncounted(u))
    BY <1>2 DEF FloodTyped
  <2>2. streak' = new
    BY <1>4, SameCardinality DEF F!Forgotten
  <2> HIDE DEF new
  <2> QED
    BY <1>3, <1>4, <2>1, <2>2
<1>5. CASE streak.user # u
  BY <1>3, <1>5 DEF F!Forgotten, FloodTyped
<1> QED
  BY <1>4, <1>5

\* The user of a handler that forgives alone has no message to be counted.
LEMMA ForgiveKeeps ==
    ASSUME FloodUsual, FloodInv, NEW h \in Calls, F!Forgive(h)
    PROVE  FloodInv'
<1> DEFINE u == handler[h].user
<1>1. handler[h].pc = "forgive" /\ Busy(h) /\ u \in Users
  BY DEF F!Forgive, Busy, FloodInv, FloodTyped
<1>2. /\ count' = [count EXCEPT ![u] = 0] /\ ttl' = [ttl EXCEPT ![u] = FALSE]
      /\ F!Forgotten(u)
      /\ UNCHANGED <<last, crashes, alone>>
  BY DEF F!Forgive, F!Delete
<1>3. /\ handler' \in [Calls -> FloodHandlers] /\ handler'[h].pc = "idle"
      /\ \A k \in Calls \ {h} : handler'[k] = handler[k]
  BY EndDoes DEF FloodInv, F!Forgive
<1>4. /\ streak' \in [user : Users \cup {Exempt, None}, length : Nat]
      /\ streak'.user = streak.user
      /\ streak.user = u /\ F!Uncounted(u) = {} => streak'.length = 0
  BY <1>1, <1>2, ForgottenDoes DEF FloodInv
<1>5. FloodTyped'
  BY <1>1, <1>2, <1>3, <1>4 DEF FloodInv, FloodTyped, Busy
<1>6. KeysExpire'
  BY <1>1, <1>2 DEF FloodInv, FloodTyped, KeysExpire
<1>7. ASSUME alone PROVE last' = streak'.user /\ (last' \in Users => count'[last'] = streak'.length)
  <2>1. last = u /\ streak.user = u
    BY <1>1, <1>7, OnlyOne DEF OnItsWay
  <2>2. F!Uncounted(u) = {}
    BY <1>1, <1>7, OnlyOne DEF F!Uncounted, Busy
  <2> QED
    BY <1>1, <1>2, <1>4, <2>1, <2>2 DEF FloodInv, FloodTyped
<1>8. OneByOne'
  BY <1>1, <1>2, <1>3, <1>5, <1>6, <1>7, FloodTogether DEF Busy
<1>9. F!CountersEnd'
  BY <1>1, <1>2, <1>3 DEF FloodInv, FloodTyped, F!CountersEnd
<1> QED
  BY <1>5, <1>6, <1>8, <1>9 DEF FloodInv

\* The key that expires is that of a handler that has yet to count, if there
\* is one, or the counter of a streak that is over.
LEMMA ExpireKeeps ==
    ASSUME FloodUsual, FloodInv, NEW u \in Users, F!Expire(u)
    PROVE  FloodInv'
<1>1. /\ count' = [count EXCEPT ![u] = 0] /\ ttl' = [ttl EXCEPT ![u] = FALSE]
      /\ F!Forgotten(u) /\ ttl[u]
      /\ UNCHANGED <<last, crashes, handler, alone>>
  BY DEF F!Expire, F!Delete
<1>2. /\ streak' \in [user : Users \cup {Exempt, None}, length : Nat]
      /\ streak'.user = streak.user
      /\ streak.user # u => streak'.length = streak.length
      /\ streak.user = u /\ F!Uncounted(u) = {} => streak'.length = 0
      /\ \A h \in Calls : streak.user = u /\ F!Uncounted(u) = {h} => streak'.length = 1
  BY <1>1, ForgottenDoes DEF FloodInv
<1>3. FloodTyped'
  BY <1>1, <1>2 DEF FloodInv, FloodTyped, Busy
<1>4. /\ count'[u] = 0 /\ ~ ttl'[u]
      /\ \A v \in Users \ {u} : count'[v] = count[v] /\ ttl'[v] = ttl[v]
      /\ count[u] > 0
  BY <1>1 DEF FloodInv, FloodTyped, KeysExpire
<1>5. KeysExpire'
  BY <1>4 DEF FloodInv, KeysExpire
<1>6. ASSUME alone, NEW h \in Calls, Busy(h) PROVE OnItsWay(h)'
  <2>1. OnItsWay(h) /\ \A k \in Calls \ {h} : handler[k].pc = "idle"
    BY <1>6, OnlyOne DEF Busy
  <2>2. handler[h] \in FloodHandlers /\ handler[h].user \in Users
    BY <1>6 DEF FloodInv, FloodTyped
  <2>3. CASE streak.user # u
    BY <1>1, <1>2, <1>4, <2>1, <2>2, <2>3 DEF OnItsWay
  <2>4. CASE streak.user = u
    <3>1. handler[h].user = u
      BY <2>1, <2>4 DEF OnItsWay
    <3>2. handler[h].pc \in {"last", "reset", "set", "count"} => F!Uncounted(u) = {h}
      BY <2>1, <3>1 DEF F!Uncounted
    <3>3. handler[h].pc \notin {"last", "reset", "set", "count"} => F!Uncounted(u) = {}
      BY <2>1, <3>1 DEF F!Uncounted
    <3> QED
      BY <1>1, <1>2, <1>4, <2>1, <2>2, <2>4, <3>1, <3>2, <3>3 DEF OnItsWay
  <2> QED
    BY <2>3, <2>4
<1>7. ASSUME alone, F!Quiet PROVE last = streak'.user /\ (last \in Users => count'[last] = streak'.length)
  <2>1. last = streak.user /\ (last \in Users => count[last] = streak.length)
    BY <1>7 DEF FloodInv, OneByOne
  <2>2. F!Uncounted(u) = {}
    BY <1>7 DEF F!Uncounted, F!Quiet
  <2> QED
    BY <1>2, <1>4, <2>1, <2>2
<1>8. OneByOne'
  BY <1>1, <1>6, <1>7 DEF FloodInv, OneByOne, Busy, F!Quiet
<1>9. F!CountersEnd'
  BY <1>1, <1>4 DEF FloodInv, FloodTyped, F!CountersEnd
<1> QED
  BY <1>3, <1>5, <1>8, <1>9 DEF FloodInv

\* A handler breaks off.
LEMMA CrashKeeps ==
    ASSUME FloodInv, F!Crash PROVE FloodInv'
<1>1. F!Idle \in FloodHandlers /\ F!Idle.pc = "idle"
  BY DEF F!Idle, FloodHandlers
<1>2. handler' \in [Calls -> FloodHandlers] /\ \A h \in Calls : handler'[h].pc = "idle"
  BY <1>1 DEF F!Crash
<1>3. UNCHANGED <<last, count, ttl, streak>> /\ alone' = FALSE /\ crashes' = crashes + 1
  BY DEF F!Crash
<1>4. FloodTyped' /\ crashes' # 0
  <2>1. crashes' \in Nat \ {0}
    BY <1>3 DEF FloodInv, FloodTyped
  <2>2. \A h \in Calls : ~ Busy(h)'
    BY <1>2 DEF Busy
  <2> QED
    BY <1>2, <1>3, <2>1, <2>2 DEF FloodInv, FloodTyped
<1>5. KeysExpire' /\ OneByOne' /\ F!CountersEnd'
  BY <1>3, <1>4 DEF FloodInv, KeysExpire, OneByOne, F!CountersEnd
<1> QED
  BY <1>4, <1>5 DEF FloodInv

\* Every step of the antiflood keeps its invariant.
LEMMA FloodNextPreserves ==
    ASSUME FloodUsual, FloodInv, [F!Next]_(F!vars) PROVE FloodInv'
<1>1. CASE F!Next
  BY <1>1, PassKeeps, CrashKeeps, ExpireKeeps, ReceiveKeeps, GetLastKeeps, ResetKeeps, SetLastKeeps,
     IncrementKeeps, SetExpiryKeeps, ActKeeps, ForgiveKeeps DEF F!Next
<1>2. CASE UNCHANGED F!vars
  BY <1>2 DEF F!vars, FloodInv, FloodTyped, KeysExpire, OneByOne, OnItsWay, Busy, F!Quiet,
     F!CountersEnd
<1> QED
  BY <1>1, <1>2

\* The invariant says of the counters what the run asks of them.
LEMMA FloodInvImplies ==
    ASSUME FloodUsual, FloodInv PROVE F!FloodJudged
<1>1. ASSUME alone, NEW h \in Calls, handler[h].pc = "act"
      PROVE  streak.length >= FloodLimit \/ count[handler[h].user] = 0
  BY <1>1, OnlyOne DEF OnItsWay, Busy
<1>2. F!CountsStreak
  BY <1>1 DEF F!CountsStreak, FloodInv, OneByOne
<1> QED
  BY <1>2 DEF F!FloodJudged, FloodInv

\* Antiflood: at every moment of every behaviour at most one handler works
\* while the messages come one after the other, and it is about to make the
\* counter of its user the length of the streak; every key of a counter
\* expires, or its EXPIRE is on its way.
THEOREM FloodInvariance ==
    ASSUME FloodUsual PROVE F!Spec => []FloodInv
<1>1. F!Init => FloodInv
  BY FloodBegins
<1>2. FloodInv /\ [F!Next]_(F!vars) => FloodInv'
  BY FloodNextPreserves
<1> QED
  BY <1>1, <1>2, PTL DEF F!Spec

\* Antiflood: the counter is the number of the last messages in a row and
\* nobody is punished below the limit, and no counter stays for ever but by
\* a crash, whatever the limit and however many users and handlers.
THEOREM FloodIsJudged ==
    ASSUME FloodUsual PROVE F!Spec => []F!FloodJudged
<1>1. FloodInv => F!FloodJudged
  BY FloodInvImplies
<1> QED
  BY <1>1, FloodInvariance, PTL

-----------------------------------------------------------------------------
(* GroupWhitelist, by its own names of the slots *)

entry == v1
cached == v2
lock == v3
chat == v4
task == v5
lapses == v6
wanted == v7
excuse == v8

USE DEF entry, cached, lock, chat, task, lapses, wanted, excuse

NoneIsNoTask == None \notin Calls

PCs == {"new", "lock", "write", "forget", "recheck", "read", "fill",
        "entries", "find", "move", "drop", "release", "done"}

TaskType ==
    [pc : PCs, kind : {"none", "add", "remove", "lookup", "migrate"}, chat : G!Chats,
     need : Seq(G!Locks), held : Seq(G!Locks), seen : BOOLEAN]

\* The variables keep their types.
EntryTyped ==
    /\ entry \in SUBSET G!Chats
    /\ cached \in [G!Chats -> {"none", "1", "0"}]
    /\ lock \in [G!Locks -> {None} \cup Calls]
    /\ chat \in G!Chats
    /\ task \in [Calls -> TaskType]
    /\ lapses \in Nat
    /\ wanted \in BOOLEAN
    /\ excuse \subseteq {"late", "timeout", "behind", "ahead"}

\* The locks a task of each kind holds and still needs at its steps.
MutationShape(w) ==
    /\ w.pc \in {"lock", "write", "forget", "release"}
    /\ w.pc = "lock" =>
           \/ w.need = <<G!Migration(w.chat), G!Membership(w.chat)>> /\ w.held = <<>>
           \/ w.need = <<G!Membership(w.chat)>> /\ w.held = <<G!Migration(w.chat)>>
    /\ w.pc \in {"write", "forget"} => w.held = <<G!Membership(w.chat), G!Migration(w.chat)>>

LookupShape(w) ==
    /\ w.pc \in {"lock", "recheck", "read", "fill", "release"}
    /\ w.pc = "lock" => w.need = <<G!Membership(w.chat)>> /\ w.held = <<>>

BothMigrations == <<G!Migration("new"), G!Migration("old")>>
AllLocks == <<G!Membership("new"), G!Membership("old"), G!Migration("new"), G!Migration("old")>>

MigrationShape(w) ==
    /\ w.pc \in {"lock", "entries", "find", "move", "drop", "release"}
    /\ w.pc = "lock" =>
           \/ w.need = <<G!Migration("old"), G!Migration("new")>> /\ w.held = <<>>
           \/ w.need = <<G!Migration("new")>> /\ w.held = <<G!Migration("old")>>
           \/ w.need = <<G!Membership("old"), G!Membership("new")>> /\ w.held = BothMigrations
           \/ w.need = <<G!Membership("new")>>
              /\ w.held = <<G!Membership("old"), G!Migration("new"), G!Migration("old")>>
    /\ w.pc = "entries" => w.held = BothMigrations
    /\ w.pc \in {"find", "move", "drop"} => w.held = AllLocks

Shape(w) ==
    /\ w.kind = "none" <=> w.pc \in {"new", "done"}
    /\ w.kind = "none" => w.held = <<>>
    /\ w.kind \in {"add", "remove"} => MutationShape(w)
    /\ w.kind = "lookup" => LookupShape(w)
    /\ w.kind = "migrate" => MigrationShape(w)

Shaped == \A t \in Calls : Shape(task[t])

Holds(w, k) == \E i \in DOMAIN w.held : w.held[i] = k

\* A lock belongs to a task that took it and has not released it.
Owned == \A k \in G!Locks : \A t \in Calls : lock[k] = t => Holds(task[t], k)

Writes(w) == w.kind \in {"add", "remove", "migrate"} /\ w.pc # "release"

\* What mutations and the migration took is theirs until they release it,
\* unless a lock lapsed under one of them.
WritersHold ==
    "late" \notin excuse =>
        \A t \in Calls : \A k \in G!Locks :
            Writes(task[t]) /\ Holds(task[t], k) => lock[k] = t

\* What a lookup read is still so while the lock is its own.
SeenHolds ==
    "late" \notin excuse =>
        \A t \in Calls :
            /\ task[t].pc = "fill"
            /\ lock[G!Membership(task[t].chat)] = t
            => (task[t].seen <=> task[t].chat \in entry)

Migrates(t) == task[t].kind = "migrate"

\* The group migrates once, and nothing speaks of its new id before.
OneMigration ==
    /\ chat = "old" => \A t \in Calls : task[t].chat = "old" /\ ~ Migrates(t)
    /\ \A t, u \in Calls : Migrates(t) /\ Migrates(u) => t = u

\* The migration waits for its first lock.
Starting == \E t \in Calls : Migrates(t) /\ task[t].pc = "lock" /\ task[t].held = <<>>

\* A mutation that is going to write the entry of the old id, and has the
\* migration lock.
WritesOld(w) ==
    /\ w.kind \in {"add", "remove"} /\ w.chat = "old"
    /\ \/ w.pc = "write"
       \/ w.pc = "lock" /\ w.held # <<>>

\* Once the migration has its first lock nobody writes the old entry.
OldSettled ==
    excuse = {} /\ chat = "new" /\ ~ Starting => \A t \in Calls : ~ WritesOld(task[t])

Before == "new" \notin entry /\ (wanted <=> "old" \in entry)
After == "old" \notin entry /\ (wanted <=> "new" \in entry)

\* The entry says what the last mutation asked for, under the old id before
\* the migration and under the new one after it.
EntryIntent ==
    excuse = {} =>
        /\ chat = "old" => Before
        /\ chat = "new" /\ (\A t \in Calls : ~ Migrates(t)) => After
        /\ \A t \in Calls :
               Migrates(t) =>
                   /\ task[t].pc \in {"lock", "entries", "find"} => Before
                   /\ task[t].pc = "move" => entry = G!Chats /\ wanted
                   /\ task[t].pc \in {"drop", "release"} => After

WhitelistInv ==
    /\ EntryTyped /\ Shaped /\ Owned
    /\ WritersHold /\ SeenHolds /\ G!CacheFollowsEntries
    /\ OneMigration /\ OldSettled /\ EntryIntent

--------------------------------------------------------------------------------
(* The locks, and the steps of one task *)

\* The four locks differ.
LEMMA LocksDiffer ==
    /\ \A c \in G!Chats : G!Migration(c) \in G!Locks /\ G!Membership(c) \in G!Locks
    /\ \A c \in G!Chats : G!Migration(c)[1] = "migration" /\ G!Membership(c)[1] = "membership"
    /\ \A c, d \in G!Chats : G!Migration(c) # G!Membership(d)
    /\ \A c, d \in G!Chats : c # d => G!Migration(c) # G!Migration(d) /\ G!Membership(c) # G!Membership(d)
    /\ "old" \in G!Chats /\ "new" \in G!Chats
    /\ \A k \in G!Locks : \E c \in G!Chats : k = G!Migration(c) \/ k = G!Membership(c)
BY DEF G!Migration, G!Membership, G!Locks, G!Chats

\* What tasks know at their start and at their end.
LEMMA AtTyped ==
    ASSUME NEW s \in PCs
    PROVE  /\ G!At(s) \in TaskType
           /\ G!At(s).pc = s /\ G!At(s).kind = "none" /\ G!At(s).held = <<>>
<1>1. <<>> \in Seq(G!Locks) /\ "old" \in G!Chats
  BY DEF G!Chats
<1> QED
  BY <1>1 DEF G!At, TaskType

\* A step that only moves the program counter of a task.
LEMMA GoDoes ==
    ASSUME EntryTyped, NEW t \in Calls, NEW s \in PCs, G!Go(t, s)
    PROVE  /\ task' \in [Calls -> TaskType]
           /\ task'[t].pc = s /\ task'[t].kind = task[t].kind /\ task'[t].chat = task[t].chat
           /\ task'[t].need = task[t].need /\ task'[t].held = task[t].held
           /\ task'[t].seen = task[t].seen
           /\ \A u \in Calls \ {t} : task'[u] = task[u]
<1>1. task' = [task EXCEPT ![t].pc = s]
  BY DEF G!Go
<1>2. task[t] \in TaskType
  BY DEF EntryTyped
<1>3. task'[t] = [task[t] EXCEPT !.pc = s] /\ \A u \in Calls \ {t} : task'[u] = task[u]
  BY <1>1 DEF EntryTyped
<1>4. task'[t] \in TaskType
  BY <1>2, <1>3 DEF TaskType
<1>5. task' \in [Calls -> TaskType]
  BY <1>1, <1>3, <1>4 DEF EntryTyped
<1> QED
  BY <1>2, <1>3, <1>5 DEF TaskType

\* A task that goes on in its body, or from there to its release, keeps its
\* locks; the invariants about who holds what only need its new step to have
\* the right shape.
LEMMA BodyKeeps ==
    ASSUME WhitelistInv, NEW t \in Calls,
           task' \in [Calls -> TaskType],
           \A u \in Calls \ {t} : task'[u] = task[u],
           task'[t].kind = task[t].kind, task'[t].chat = task[t].chat, task'[t].held = task[t].held,
           lock' = lock, chat' = chat, excuse \subseteq excuse',
           Writes(task'[t]) => Writes(task[t]),
           WritesOld(task'[t]) => WritesOld(task[t]),
           task[t].kind = "migrate" /\ task[t].held = <<>> => excuse' # {},
           Shape(task'[t])
    PROVE  Shaped' /\ Owned' /\ WritersHold' /\ OneMigration' /\ OldSettled'
<1>1. Shaped'
  BY DEF WhitelistInv, Shaped
<1>2. \A u \in Calls : \A k : Holds(task'[u], k) <=> Holds(task[u], k)
  BY DEF Holds
<1>3. Owned'
  BY <1>2 DEF WhitelistInv, Owned, Holds
<1>4. WritersHold'
  <2> SUFFICES ASSUME "late" \notin excuse', NEW u \in Calls, NEW k \in G!Locks,
                      Writes(task'[u]), Holds(task'[u], k)
               PROVE  lock[k] = u
    BY DEF WritersHold, Writes, Holds
  <2>1. Writes(task[u]) /\ Holds(task[u], k) /\ "late" \notin excuse
    BY <1>2
  <2> QED
    BY <2>1 DEF WhitelistInv, WritersHold
<1>5. \A u \in Calls : task'[u].kind = task[u].kind /\ task'[u].chat = task[u].chat
  OBVIOUS
<1>6. OneMigration'
  BY <1>5 DEF WhitelistInv, OneMigration, Migrates
<1>7. OldSettled'
  <2> SUFFICES ASSUME excuse' = {}, chat' = "new", ~ Starting', NEW u \in Calls, WritesOld(task'[u])
               PROVE  FALSE
    BY DEF OldSettled, WritesOld
  <2>1. excuse = {} /\ WritesOld(task[u])
    OBVIOUS
  <2>2. PICK m \in Calls : Migrates(m) /\ task[m].pc = "lock" /\ task[m].held = <<>>
    BY <2>1 DEF WhitelistInv, OldSettled, Starting
  <2>3. m # t
    BY <2>2 DEF Migrates
  <2> QED
    BY <2>2, <2>3 DEF Starting, Migrates
<1> QED
  BY <1>1, <1>3, <1>4, <1>6, <1>7

\* Who writes the entry, or reads it for the cache under a lock of his own,
\* is alone with the membership lock.
LEMMA WriterAlone ==
    ASSUME WhitelistInv, "late" \notin excuse, NEW t \in Calls, NEW u \in Calls,
           task[u].pc = "fill", lock[G!Membership(task[u].chat)] = u,
           task[t].pc \in {"write", "find", "move", "drop", "forget"},
           task[t].pc \in {"write", "forget"} => task[t].chat = task[u].chat
    PROVE  FALSE
<1>1. task[u].kind = "lookup" /\ task[u].chat \in G!Chats /\ task[u] \in TaskType
  <2>1. Shape(task[u]) /\ task[u] \in TaskType
    BY DEF WhitelistInv, Shaped, EntryTyped
  <2> QED
    BY <2>1 DEF Shape, MutationShape, MigrationShape, TaskType
<1>2. Shape(task[t]) /\ task[t] \in TaskType /\ task[t].chat \in G!Chats
  BY DEF WhitelistInv, Shaped, EntryTyped, TaskType
<1>3. Writes(task[t]) /\ task[t].kind # "lookup"
  BY <1>2 DEF Shape, LookupShape, Writes, TaskType
<1>4. Holds(task[t], G!Membership(task[u].chat))
  <2>1. CASE task[t].pc \in {"write", "forget"}
    <3>1. task[t].held = <<G!Membership(task[u].chat), G!Migration(task[u].chat)>>
      BY <1>2, <1>3, <2>1 DEF Shape, MutationShape, MigrationShape, TaskType
    <3>2. 1 \in DOMAIN task[t].held /\ task[t].held[1] = G!Membership(task[u].chat)
      BY <3>1
    <3> QED
      BY <3>2 DEF Holds
  <2>2. CASE task[t].pc \in {"find", "move", "drop"}
    <3>1. task[t].held = AllLocks
      BY <1>2, <1>3, <2>2 DEF Shape, MutationShape, MigrationShape, TaskType
    <3>2. /\ 1 \in DOMAIN task[t].held /\ task[t].held[1] = G!Membership("new")
          /\ 2 \in DOMAIN task[t].held /\ task[t].held[2] = G!Membership("old")
      BY <3>1 DEF AllLocks
    <3> QED
      BY <1>1, <3>2 DEF Holds, G!Chats
  <2> QED
    BY <2>1, <2>2
<1>5. G!Membership(task[u].chat) \in G!Locks
  BY <1>1, LocksDiffer
<1>6. lock[G!Membership(task[u].chat)] = t
  BY <1>3, <1>4, <1>5 DEF WhitelistInv, WritersHold
<1> QED
  BY <1>1, <1>3, <1>6

\* A step that leaves the entry, the cache and the locks, and does not end a
\* mutation: what the cache says is as true as before, and the entry as
\* intended unless the migration has gone on.
LEMMA QuietKeeps ==
    ASSUME WhitelistInv, NEW t \in Calls,
           \A u \in Calls \ {t} : task'[u] = task[u],
           entry' = entry, cached' = cached, excuse \subseteq excuse',
           task[t].pc \notin {"forget", "move", "drop"}
    PROVE  G!CacheFollowsEntries'
<1>1. \A c \in G!Chats : G!Pending(c) => G!Pending(c)'
  BY DEF G!Pending
<1> QED
  BY <1>1 DEF WhitelistInv, G!CacheFollowsEntries

\* A step that writes nothing, of no migration, leaves what the entry should be.
LEMMA UntouchedIntent ==
    ASSUME WhitelistInv, NEW t \in Calls, task[t].kind # "migrate", task'[t].kind # "migrate",
           \A u \in Calls \ {t} : task'[u] = task[u],
           entry' = entry, wanted' = wanted, chat' = chat, excuse \subseteq excuse'
    PROVE  EntryIntent'
<1>1. \A u \in Calls : Migrates(u)' <=> Migrates(u)
  BY DEF Migrates
<1>2. \A u \in Calls : Migrates(u) => task'[u] = task[u]
  BY DEF Migrates
<1> SUFFICES ASSUME excuse' = {} PROVE EntryIntent'
  BY DEF EntryIntent
<1>3. excuse = {}
  OBVIOUS
<1> QED
  BY <1>1, <1>2, <1>3 DEF WhitelistInv, EntryIntent, Before, After

\* Shapes tell what a task at a step of a body does.
LEMMA KindAtStep ==
    ASSUME WhitelistInv, NEW t \in Calls
    PROVE  /\ task[t] \in TaskType /\ task[t].chat \in G!Chats
           /\ task[t].pc \in {"write", "forget"} => task[t].kind \in {"add", "remove"}
           /\ task[t].pc \in {"recheck", "read", "fill"} => task[t].kind = "lookup"
           /\ task[t].pc \in {"entries", "find", "move", "drop"} => task[t].kind = "migrate"
           /\ task[t].pc \in {"write", "forget", "entries", "find", "move", "drop"} => task[t].held # <<>>
<1>1. Shape(task[t]) /\ task[t] \in TaskType
  BY DEF WhitelistInv, Shaped, EntryTyped
<1>2. /\ task[t].chat \in G!Chats
      /\ task[t].pc \in {"write", "forget"} => task[t].kind \in {"add", "remove"}
      /\ task[t].pc \in {"recheck", "read", "fill"} => task[t].kind = "lookup"
      /\ task[t].pc \in {"entries", "find", "move", "drop"} => task[t].kind = "migrate"
  BY <1>1 DEF Shape, MutationShape, LookupShape, MigrationShape, TaskType
<1>3. task[t].pc \in {"write", "forget"} => task[t].held # <<>>
  <2>1. task[t].pc \in {"write", "forget"} =>
            task[t].held = <<G!Membership(task[t].chat), G!Migration(task[t].chat)>>
    BY <1>1, <1>2 DEF Shape, MutationShape
  <2>2. <<G!Membership(task[t].chat), G!Migration(task[t].chat)>> # <<>>
    OBVIOUS
  <2> QED
    BY <2>1, <2>2
<1>4. task[t].pc = "entries" => task[t].held # <<>>
  <2>1. task[t].pc = "entries" => task[t].held = <<G!Migration("new"), G!Migration("old")>>
    BY <1>1, <1>2 DEF Shape, MigrationShape, BothMigrations
  <2>2. <<G!Migration("new"), G!Migration("old")>> # <<>>
    OBVIOUS
  <2> QED
    BY <2>1, <2>2
<1>5. task[t].pc \in {"find", "move", "drop"} => task[t].held # <<>>
  BY <1>1, <1>2 DEF Shape, MigrationShape, AllLocks
<1> QED
  BY <1>1, <1>2, <1>3, <1>4, <1>5

--------------------------------------------------------------------------------
(* The bodies *)

\* A mutation writes the entry.
LEMMA WriteKeeps ==
    ASSUME WhitelistInv, NEW t \in Calls, G!Write(t) PROVE WhitelistInv'
<1>1. /\ task[t].pc = "write" /\ G!Go(t, "forget")
      /\ entry' = IF task[t].kind = "add" THEN entry \cup {task[t].chat} ELSE entry \ {task[t].chat}
      /\ wanted' = (task[t].kind = "add")
      /\ excuse' = IF G!Ahead(t) THEN excuse \cup {"ahead"} ELSE excuse
      /\ cached' = cached /\ lock' = lock /\ chat' = chat /\ lapses' = lapses
  BY DEF G!Write
<1>2. /\ task[t] \in TaskType /\ task[t].chat \in G!Chats
      /\ task[t].kind \in {"add", "remove"}
  BY <1>1, KindAtStep
<1>3. /\ task' \in [Calls -> TaskType]
      /\ task'[t].pc = "forget" /\ task'[t].kind = task[t].kind /\ task'[t].chat = task[t].chat
      /\ task'[t].need = task[t].need /\ task'[t].held = task[t].held
      /\ \A u \in Calls \ {t} : task'[u] = task[u]
  BY <1>1, GoDoes DEF WhitelistInv, PCs
<1>4. EntryTyped'
  BY <1>1, <1>2, <1>3 DEF WhitelistInv, EntryTyped
<1>5. Shape(task[t])
  BY DEF WhitelistInv, Shaped
<1>6. Shape(task'[t])
  BY <1>1, <1>2, <1>3, <1>5 DEF Shape, MutationShape
<1>7. Shaped' /\ Owned' /\ WritersHold' /\ OneMigration' /\ OldSettled'
  BY <1>1, <1>2, <1>3, <1>6, BodyKeeps DEF Writes, WritesOld
<1>8. SeenHolds'
  <2> SUFFICES ASSUME "late" \notin excuse', NEW u \in Calls, task'[u].pc = "fill",
                      lock'[G!Membership(task'[u].chat)] = u
               PROVE  task'[u].seen <=> task'[u].chat \in entry'
    BY DEF SeenHolds
  <2>1. u # t /\ task'[u] = task[u] /\ "late" \notin excuse
    BY <1>1, <1>3
  <2>2. task[t].chat # task[u].chat
    BY <1>1, <2>1, WriterAlone
  <2>3. task[u].chat \in entry' <=> task[u].chat \in entry
    BY <1>1, <2>2
  <2> QED
    BY <1>1, <2>1, <2>3 DEF WhitelistInv, SeenHolds
<1>9. G!CacheFollowsEntries'
  <2>1. \A c \in G!Chats : G!Pending(c) => G!Pending(c)'
    BY <1>1, <1>3 DEF G!Pending
  <2>2. G!Pending(task[t].chat)'
    BY <1>3 DEF G!Pending
  <2>3. \A c \in G!Chats : c # task[t].chat => (c \in entry' <=> c \in entry)
    BY <1>1
  <2>4. "late" \notin excuse' => "late" \notin excuse
    BY <1>1
  <2> SUFFICES ASSUME "late" \notin excuse, NEW c \in G!Chats, cached[c] # "none"
               PROVE  G!Pending(c)' \/ (cached[c] = "1" <=> c \in entry')
    BY <1>1, <2>4 DEF G!CacheFollowsEntries
  <2>5. G!Pending(c) \/ (cached[c] = "1" <=> c \in entry)
    BY DEF WhitelistInv, G!CacheFollowsEntries
  <2> QED
    BY <1>3, <2>1, <2>2, <2>3, <2>5
<1>10. EntryIntent'
  <2> SUFFICES ASSUME excuse' = {} PROVE EntryIntent'
    BY DEF EntryIntent
  <2>1. excuse = {} /\ ~ G!Ahead(t)
    BY <1>1
  <2>2. \A u \in Calls : /\ Migrates(u)' <=> Migrates(u)
                         /\ Migrates(u) => task'[u] = task[u]
    BY <1>2, <1>3 DEF Migrates
  <2>3. CASE task[t].chat = "old"
    <3>1. WritesOld(task[t])
      BY <1>1, <1>2, <2>3 DEF WritesOld
    <3>2. Before => Before'
      BY <1>1, <1>2, <2>3 DEF Before
    <3>3. chat = "old" \/ Starting
      BY <2>1, <3>1 DEF WhitelistInv, OldSettled, EntryTyped, G!Chats
    <3>4. chat = "old" => \A u \in Calls : ~ Migrates(u)
      BY DEF WhitelistInv, OneMigration
    <3>5. \A u \in Calls : Migrates(u) => task[u].pc = "lock"
      BY <3>3, <3>4 DEF Starting, WhitelistInv, OneMigration
    <3>6. chat = "new" => \E u \in Calls : Migrates(u)
      BY <3>3 DEF Starting
    <3> QED
      BY <1>1, <2>1, <2>2, <3>2, <3>4, <3>5, <3>6 DEF WhitelistInv, EntryIntent
  <2>4. CASE task[t].chat = "new"
    <3>1. chat = "new"
      BY <2>4 DEF WhitelistInv, OneMigration, EntryTyped, G!Chats
    <3>2. After => After'
      BY <1>1, <1>2, <2>4 DEF After
    <3>3. \A u \in Calls : Migrates(u) => task[u].pc = "release"
      BY <2>1, <2>4 DEF G!Ahead, Migrates
    <3> QED
      BY <1>1, <2>1, <2>2, <3>1, <3>2, <3>3 DEF WhitelistInv, EntryIntent
  <2> QED
    BY <1>2, <2>3, <2>4 DEF G!Chats
<1> QED
  BY <1>4, <1>7, <1>8, <1>9, <1>10 DEF WhitelistInv

\* A mutation deletes the cached entry.
LEMMA ForgetKeeps ==
    ASSUME WhitelistInv, NEW t \in Calls, G!Forget(t) PROVE WhitelistInv'
<1>1. /\ task[t].pc = "forget" /\ G!Go(t, "release")
      /\ cached' = [cached EXCEPT ![task[t].chat] = "none"]
      /\ entry' = entry /\ wanted' = wanted /\ excuse' = excuse
      /\ lock' = lock /\ chat' = chat /\ lapses' = lapses
  BY DEF G!Forget
<1>2. /\ task[t] \in TaskType /\ task[t].chat \in G!Chats
      /\ task[t].kind \in {"add", "remove"}
  BY <1>1, KindAtStep
<1>3. /\ task' \in [Calls -> TaskType]
      /\ task'[t].pc = "release" /\ task'[t].kind = task[t].kind /\ task'[t].chat = task[t].chat
      /\ task'[t].need = task[t].need /\ task'[t].held = task[t].held
      /\ \A u \in Calls \ {t} : task'[u] = task[u]
  BY <1>1, GoDoes DEF WhitelistInv, PCs
<1>4. EntryTyped'
  BY <1>1, <1>2, <1>3 DEF WhitelistInv, EntryTyped
<1>5. Shape(task[t])
  BY DEF WhitelistInv, Shaped
<1>6. Shape(task'[t])
  BY <1>1, <1>2, <1>3, <1>5 DEF Shape, MutationShape
<1>7. Shaped' /\ Owned' /\ WritersHold' /\ OneMigration' /\ OldSettled'
  BY <1>1, <1>2, <1>3, <1>6, BodyKeeps DEF Writes, WritesOld
<1>8. SeenHolds'
  BY <1>1, <1>3 DEF WhitelistInv, SeenHolds
<1>9. G!CacheFollowsEntries'
  <2>1. \A c \in G!Chats : c # task[t].chat => (G!Pending(c) => G!Pending(c)')
    BY <1>1, <1>3 DEF G!Pending
  <2>2. cached'[task[t].chat] = "none" /\ \A c \in G!Chats : c # task[t].chat => cached'[c] = cached[c]
    BY <1>1, <1>2 DEF WhitelistInv, EntryTyped
  <2> QED
    BY <1>1, <2>1, <2>2 DEF WhitelistInv, G!CacheFollowsEntries
<1>10. EntryIntent'
  BY <1>1, <1>2, <1>3, UntouchedIntent
<1> QED
  BY <1>4, <1>7, <1>8, <1>9, <1>10 DEF WhitelistInv

\* A lookup reads the cache, or the entry.
LEMMA LookupKeeps ==
    ASSUME WhitelistInv, NEW t \in Calls, G!Recheck(t) \/ G!Read(t) PROVE WhitelistInv'
<1>1. /\ task[t].pc \in {"recheck", "read"}
      /\ entry' = entry /\ cached' = cached /\ wanted' = wanted /\ excuse' = excuse
      /\ lock' = lock /\ chat' = chat /\ lapses' = lapses
  BY DEF G!Recheck, G!Read
<1>2. /\ task[t] \in TaskType /\ task[t].chat \in G!Chats /\ task[t].kind = "lookup"
  BY <1>1, KindAtStep
<1>3. /\ task' \in [Calls -> TaskType]
      /\ task'[t].pc \in {"release", "read", "fill"}
      /\ task'[t].kind = "lookup" /\ task'[t].chat = task[t].chat
      /\ task'[t].held = task[t].held
      /\ task'[t].pc = "fill" => (task'[t].seen <=> task[t].chat \in entry)
      /\ \A u \in Calls \ {t} : task'[u] = task[u]
  <2>1. CASE G!Recheck(t)
    <3>1. PICK s \in {"release", "read"} : G!Go(t, s)
      BY <2>1 DEF G!Recheck
    <3> QED
      BY <1>2, <3>1, GoDoes DEF WhitelistInv, PCs
  <2>2. CASE G!Read(t)
    <3>1. task' = [task EXCEPT ![t].pc = "fill", ![t].seen = task[t].chat \in entry]
      BY <2>2 DEF G!Read
    <3> DEFINE b == task[t].chat \in entry
    <3>2. b \in BOOLEAN
      OBVIOUS
    <3> HIDE DEF b
    <3>3. task'[t] = [task[t] EXCEPT !.pc = "fill", !.seen = b]
      BY <3>1 DEF WhitelistInv, EntryTyped, b
    <3>4. /\ task'[t] \in TaskType /\ task'[t].pc = "fill" /\ task'[t].seen = b
          /\ task'[t].kind = task[t].kind /\ task'[t].chat = task[t].chat /\ task'[t].held = task[t].held
      BY <1>2, <3>2, <3>3 DEF TaskType, PCs
    <3>5. task' \in [Calls -> TaskType] /\ \A u \in Calls \ {t} : task'[u] = task[u]
      BY <3>1, <3>4 DEF WhitelistInv, EntryTyped
    <3> QED
      BY <1>2, <3>4, <3>5 DEF b
  <2> QED
    BY <2>1, <2>2
<1>4. EntryTyped'
  BY <1>1, <1>2, <1>3 DEF WhitelistInv, EntryTyped
<1>6. Shape(task'[t])
  BY <1>3 DEF Shape, LookupShape
<1>7. Shaped' /\ Owned' /\ WritersHold' /\ OneMigration' /\ OldSettled'
  BY <1>1, <1>2, <1>3, <1>6, BodyKeeps DEF Writes, WritesOld
<1>8. SeenHolds'
  BY <1>1, <1>3 DEF WhitelistInv, SeenHolds
<1>9. G!CacheFollowsEntries'
  BY <1>1, <1>3, QuietKeeps
<1>10. EntryIntent'
  BY <1>1, <1>2, <1>3, UntouchedIntent
<1> QED
  BY <1>4, <1>7, <1>8, <1>9, <1>10 DEF WhitelistInv

\* A lookup fills the cache.
LEMMA FillKeeps ==
    ASSUME WhitelistInv, NEW t \in Calls, G!Fill(t) PROVE WhitelistInv'
<1>1. /\ task[t].pc = "fill" /\ G!Go(t, "release")
      /\ cached' = IF lock[G!Membership(task[t].chat)] = t
                   THEN [cached EXCEPT ![task[t].chat] = IF task[t].seen THEN "1" ELSE "0"]
                   ELSE cached
      /\ entry' = entry /\ wanted' = wanted /\ excuse' = excuse
      /\ lock' = lock /\ chat' = chat /\ lapses' = lapses
  BY DEF G!Fill
<1>2. /\ task[t] \in TaskType /\ task[t].chat \in G!Chats /\ task[t].kind = "lookup"
  BY <1>1, KindAtStep
<1>3. /\ task' \in [Calls -> TaskType]
      /\ task'[t].pc = "release" /\ task'[t].kind = task[t].kind /\ task'[t].chat = task[t].chat
      /\ task'[t].need = task[t].need /\ task'[t].held = task[t].held
      /\ \A u \in Calls \ {t} : task'[u] = task[u]
  BY <1>1, GoDoes DEF WhitelistInv, PCs
<1>4. EntryTyped'
  BY <1>1, <1>2, <1>3 DEF WhitelistInv, EntryTyped
<1>6. Shape(task'[t])
  BY <1>2, <1>3 DEF Shape, LookupShape
<1>7. Shaped' /\ Owned' /\ WritersHold' /\ OneMigration' /\ OldSettled'
  BY <1>1, <1>2, <1>3, <1>6, BodyKeeps DEF Writes, WritesOld
<1>8. SeenHolds'
  BY <1>1, <1>3 DEF WhitelistInv, SeenHolds
<1>9. G!CacheFollowsEntries'
  <2> SUFFICES ASSUME "late" \notin excuse, NEW c \in G!Chats, cached'[c] # "none"
               PROVE  G!Pending(c)' \/ (cached'[c] = "1" <=> c \in entry)
    BY <1>1 DEF G!CacheFollowsEntries
  <2>1. G!Pending(c) => G!Pending(c)'
    BY <1>1, <1>3 DEF G!Pending
  <2>2. CASE cached'[c] = cached[c]
    BY <2>1, <2>2 DEF WhitelistInv, G!CacheFollowsEntries
  <2>3. CASE cached'[c] # cached[c]
    <3>1. c = task[t].chat /\ lock[G!Membership(c)] = t /\ cached'[c] = IF task[t].seen THEN "1" ELSE "0"
      BY <1>1, <1>2, <2>3 DEF WhitelistInv, EntryTyped
    <3>2. task[t].seen <=> c \in entry
      BY <1>1, <3>1 DEF WhitelistInv, SeenHolds
    <3> QED
      BY <3>1, <3>2
  <2> QED
    BY <2>2, <2>3
<1>10. EntryIntent'
  BY <1>1, <1>2, <1>3, UntouchedIntent
<1> QED
  BY <1>4, <1>7, <1>8, <1>9, <1>10 DEF WhitelistInv

\* The steps of the migration leave its locks, and nobody else can fill the
\* cache or write while it has them.
LEMMA MigrationSeen ==
    ASSUME WhitelistInv, NEW t \in Calls, task[t].pc \in {"find", "move", "drop"},
           \A u \in Calls \ {t} : task'[u] = task[u],
           lock' = lock, excuse' = excuse, task'[t].pc # "fill"
    PROVE  SeenHolds'
<1> SUFFICES ASSUME "late" \notin excuse', NEW u \in Calls, task'[u].pc = "fill",
                    lock'[G!Membership(task'[u].chat)] = u
             PROVE  FALSE
  BY DEF SeenHolds
<1>1. u # t /\ task'[u] = task[u] /\ "late" \notin excuse
  OBVIOUS
<1> QED
  BY <1>1, WriterAlone

\* What the entry is after a step of the only migration.
LEMMA MigrationIntent ==
    ASSUME WhitelistInv, NEW t \in Calls, Migrates(t), Migrates(t)',
           \A u \in Calls \ {t} : task'[u] = task[u],
           chat' = chat, excuse' = excuse,
           excuse = {} =>
               /\ task'[t].pc \in {"lock", "entries", "find"} => Before'
               /\ task'[t].pc = "move" => entry' = G!Chats /\ wanted'
               /\ task'[t].pc \in {"drop", "release"} => After'
    PROVE  EntryIntent'
<1> SUFFICES ASSUME excuse' = {} PROVE EntryIntent'
  BY DEF EntryIntent
<1>1. excuse = {}
  OBVIOUS
<1>2. chat' # "old"
  BY DEF WhitelistInv, OneMigration
<1>3. \A u \in Calls : Migrates(u)' => u = t
  BY DEF WhitelistInv, OneMigration, Migrates
<1> QED
  BY <1>1, <1>2, <1>3 DEF EntryIntent

\* The migration moves the entry.
LEMMA EntriesKeeps ==
    ASSUME WhitelistInv, NEW t \in Calls, G!Entries(t) PROVE WhitelistInv'
<1>1. /\ task[t].pc = "entries"
      /\ entry' = entry /\ cached' = cached /\ wanted' = wanted /\ excuse' = excuse
      /\ lock' = lock /\ chat' = chat /\ lapses' = lapses
  BY DEF G!Entries
<1>2. /\ task[t] \in TaskType /\ task[t].chat \in G!Chats /\ task[t].kind = "migrate"
      /\ task[t].held # <<>>
  BY <1>1, KindAtStep
<1>3. Shape(task[t]) /\ task[t].held = BothMigrations
  BY <1>1, <1>2 DEF WhitelistInv, Shaped, Shape, MigrationShape
<1>4. /\ task' \in [Calls -> TaskType]
      /\ task'[t].kind = "migrate" /\ task'[t].chat = task[t].chat
      /\ task'[t].held = task[t].held
      /\ \/ /\ task'[t].pc = "lock" /\ "old" \in entry
            /\ task'[t].need = <<G!Membership("old"), G!Membership("new")>>
         \/ task'[t].pc = "release" /\ "old" \notin entry
      /\ \A u \in Calls \ {t} : task'[u] = task[u]
  <2>1. CASE "old" \in entry
    <3> DEFINE both == <<G!Membership("old"), G!Membership("new")>>
    <3>1. task' = [task EXCEPT ![t].pc = "lock", ![t].need = both]
      BY <2>1 DEF G!Entries
    <3>2. both \in Seq(G!Locks)
      BY LocksDiffer
    <3> HIDE DEF both
    <3>3. task'[t] = [task[t] EXCEPT !.pc = "lock", !.need = both]
      BY <3>1 DEF WhitelistInv, EntryTyped
    <3>4. /\ task'[t] \in TaskType /\ task'[t].pc = "lock" /\ task'[t].need = both
          /\ task'[t].kind = task[t].kind /\ task'[t].chat = task[t].chat /\ task'[t].held = task[t].held
      BY <1>2, <3>2, <3>3 DEF TaskType, PCs
    <3>5. task' \in [Calls -> TaskType] /\ \A u \in Calls \ {t} : task'[u] = task[u]
      BY <3>1, <3>4 DEF WhitelistInv, EntryTyped
    <3> QED
      BY <1>2, <2>1, <3>4, <3>5 DEF both
  <2>2. CASE "old" \notin entry
    <3>1. G!Go(t, "release")
      BY <2>2 DEF G!Entries, G!Go
    <3> QED
      BY <1>2, <2>2, <3>1, GoDoes DEF WhitelistInv, PCs
  <2> QED
    BY <2>1, <2>2
<1>5. EntryTyped'
  BY <1>1, <1>4 DEF WhitelistInv, EntryTyped
<1>6. Shape(task'[t])
  BY <1>3, <1>4 DEF Shape, MigrationShape
<1>7. Shaped' /\ Owned' /\ WritersHold' /\ OneMigration' /\ OldSettled'
  BY <1>1, <1>2, <1>4, <1>6, BodyKeeps DEF Writes, WritesOld
<1>8. SeenHolds'
  BY <1>1, <1>4 DEF WhitelistInv, SeenHolds
<1>9. G!CacheFollowsEntries'
  BY <1>1, <1>4, QuietKeeps
<1>10. EntryIntent'
  <2>1. excuse = {} => Before
    BY <1>1, <1>2 DEF WhitelistInv, EntryIntent, Migrates
  <2>2. Before => Before'
    BY <1>1 DEF Before
  <2>3. Before /\ "old" \notin entry => After'
    BY <1>1 DEF Before, After
  <2> QED
    BY <1>1, <1>2, <1>4, <2>1, <2>2, <2>3, MigrationIntent DEF Migrates
<1> QED
  BY <1>5, <1>7, <1>8, <1>9, <1>10 DEF WhitelistInv

\* Find, Move and Drop: the entry goes to the new id, and the keys of both
\* chats are deleted.
LEMMA MoveKeeps ==
    ASSUME WhitelistInv, NEW t \in Calls, G!Find(t) \/ G!Move(t) \/ G!Drop(t) PROVE WhitelistInv'
<1>1. /\ task[t].pc \in {"find", "move", "drop"}
      /\ entry' \in SUBSET G!Chats /\ cached' \in [G!Chats -> {"none", "1", "0"}]
      /\ wanted' = wanted /\ excuse' = excuse
      /\ lock' = lock /\ chat' = chat /\ lapses' = lapses
      /\ task[t].pc # "drop" => cached' = cached
      /\ task[t].pc = "drop" => entry' = entry /\ cached' = [c \in G!Chats |-> "none"]
  BY DEF G!Find, G!Move, G!Drop, WhitelistInv, EntryTyped, G!Chats
<1>2. /\ task[t] \in TaskType /\ task[t].chat \in G!Chats /\ task[t].kind = "migrate"
      /\ task[t].held # <<>>
  BY <1>1, KindAtStep
<1>3. PICK s \in {"move", "drop", "release"} :
          /\ G!Go(t, s)
          /\ \/ task[t].pc = "find" /\ "old" \in entry /\ s = "move" /\ entry' = entry \cup {"new"}
             \/ task[t].pc = "find" /\ "old" \notin entry /\ s = "drop" /\ entry' = entry
             \/ task[t].pc = "move" /\ s = "drop" /\ entry' = entry \ {"old"}
             \/ task[t].pc = "drop" /\ s = "release"
  BY DEF G!Find, G!Move, G!Drop
<1>4. /\ task' \in [Calls -> TaskType]
      /\ task'[t].pc = s /\ task'[t].kind = "migrate" /\ task'[t].chat = task[t].chat
      /\ task'[t].held = task[t].held
      /\ \A u \in Calls \ {t} : task'[u] = task[u]
  BY <1>2, <1>3, GoDoes DEF WhitelistInv, PCs
<1>5. EntryTyped'
  BY <1>1, <1>4 DEF WhitelistInv, EntryTyped
<1>6. Shape(task'[t])
  <2>1. Shape(task[t])
    BY DEF WhitelistInv, Shaped
  <2> QED
    BY <1>1, <1>2, <1>4, <2>1 DEF Shape, MigrationShape
<1>7. Shaped' /\ Owned' /\ WritersHold' /\ OneMigration' /\ OldSettled'
  BY <1>1, <1>2, <1>4, <1>6, BodyKeeps DEF Writes, WritesOld
<1>8. SeenHolds'
  BY <1>1, <1>4, MigrationSeen
<1>9. G!CacheFollowsEntries'
  <2>1. CASE task[t].pc = "drop"
    BY <1>1, <2>1 DEF G!CacheFollowsEntries
  <2>2. CASE task[t].pc # "drop"
    <3>1. \A c \in G!Chats : G!Pending(c)'
      BY <1>3, <1>4, <2>2 DEF G!Pending
    <3> QED
      BY <3>1 DEF G!CacheFollowsEntries
  <2> QED
    BY <2>1, <2>2
<1>10. EntryIntent'
  <2>1. excuse = {} => /\ task[t].pc = "find" => Before
                       /\ task[t].pc = "move" => entry = G!Chats /\ wanted
                       /\ task[t].pc = "drop" => After
    BY <1>1, <1>2 DEF WhitelistInv, EntryIntent, Migrates
  <2>2. ASSUME excuse = {}
        PROVE  /\ s = "move" => entry' = G!Chats /\ wanted'
               /\ s \in {"drop", "release"} => After'
    BY <1>1, <1>3, <2>1, <2>2 DEF Before, After, G!Chats, WhitelistInv, EntryTyped
  <2> QED
    BY <1>1, <1>2, <1>3, <1>4, <2>2, MigrationIntent DEF Migrates
<1> QED
  BY <1>5, <1>7, <1>8, <1>9, <1>10 DEF WhitelistInv

\* TimeoutError after ten seconds: the task releases what it has.
LEMMA GiveUpKeeps ==
    ASSUME WhitelistInv, NEW t \in Calls, G!GiveUp(t) PROVE WhitelistInv'
<1>1. /\ task[t].pc = "lock" /\ G!Go(t, "release") /\ lapses' = lapses + 1
      /\ excuse' = IF task[t].kind = "migrate" THEN excuse \cup {"timeout"} ELSE excuse
      /\ entry' = entry /\ cached' = cached /\ wanted' = wanted /\ lock' = lock /\ chat' = chat
  BY DEF G!GiveUp
<1>2. /\ task[t] \in TaskType /\ task[t].chat \in G!Chats
  BY <1>1, KindAtStep
<1>3. /\ task' \in [Calls -> TaskType]
      /\ task'[t].pc = "release" /\ task'[t].kind = task[t].kind /\ task'[t].chat = task[t].chat
      /\ task'[t].need = task[t].need /\ task'[t].held = task[t].held
      /\ \A u \in Calls \ {t} : task'[u] = task[u]
  BY <1>1, GoDoes DEF WhitelistInv, PCs
<1>4. EntryTyped'
  BY <1>1, <1>2, <1>3 DEF WhitelistInv, EntryTyped
<1>5. Shape(task[t])
  BY DEF WhitelistInv, Shaped
<1>6. Shape(task'[t])
  BY <1>1, <1>2, <1>3, <1>5 DEF Shape, MutationShape, LookupShape, MigrationShape
<1>7. Shaped' /\ Owned' /\ WritersHold' /\ OneMigration' /\ OldSettled'
  BY <1>1, <1>2, <1>3, <1>6, BodyKeeps DEF Writes, WritesOld
<1>8. SeenHolds'
  BY <1>1, <1>3 DEF WhitelistInv, SeenHolds
<1>9. G!CacheFollowsEntries'
  BY <1>1, <1>3, QuietKeeps
<1>10. EntryIntent'
  <2>1. CASE task[t].kind = "migrate"
    BY <1>1, <2>1 DEF EntryIntent
  <2>2. CASE task[t].kind # "migrate"
    BY <1>1, <1>2, <1>3, <2>2, UntouchedIntent
  <2> QED
    BY <2>1, <2>2
<1> QED
  BY <1>4, <1>7, <1>8, <1>9, <1>10 DEF WhitelistInv

--------------------------------------------------------------------------------
(* The commands that begin, and the locks *)

\* A command waits for its first lock and holds none.
LEMMA TakeDoes ==
    ASSUME WhitelistInv, NEW t \in Calls, NEW kind \in {"add", "remove", "lookup", "migrate"},
           NEW keys \in Seq(G!Locks), G!Take(t, kind, keys)
    PROVE  /\ task' \in [Calls -> TaskType]
           /\ task'[t].pc = "lock" /\ task'[t].kind = kind /\ task'[t].chat = chat
           /\ task'[t].need = keys /\ task'[t].held = <<>>
           /\ \A u \in Calls \ {t} : task'[u] = task[u]
<1> DEFINE new == [G!At("lock") EXCEPT !.kind = kind, !.chat = chat, !.need = keys]
<1>1. task' = [task EXCEPT ![t] = new]
  BY DEF G!Take
<1>2. G!At("lock") \in TaskType /\ G!At("lock").pc = "lock" /\ G!At("lock").held = <<>>
  BY AtTyped DEF PCs
<1>3. /\ new \in TaskType /\ new.pc = "lock" /\ new.kind = kind /\ new.chat = chat
      /\ new.need = keys /\ new.held = <<>>
  BY <1>2 DEF TaskType, WhitelistInv, EntryTyped
<1> HIDE DEF new
<1> QED
  BY <1>1, <1>3 DEF WhitelistInv, EntryTyped

\* A mutation, a lookup or the migration begins.
LEMMA LookOrMutateKeeps ==
    ASSUME WhitelistInv, NEW t \in Calls, G!Receive(t) PROVE WhitelistInv'
<1>1. /\ task[t].pc = "new"
      /\ entry' = entry /\ cached' = cached /\ lock' = lock /\ lapses' = lapses
      /\ wanted' = wanted /\ excuse' = excuse
  BY DEF G!Receive
<1>2. Shape(task[t]) /\ task[t] \in TaskType /\ chat \in G!Chats
  BY DEF WhitelistInv, Shaped, EntryTyped
<1>3. task[t].kind = "none" /\ task[t].held = <<>>
  BY <1>1, <1>2 DEF Shape
<1>4. PICK kind \in {"add", "remove", "lookup", "migrate"} :
          /\ task' \in [Calls -> TaskType]
          /\ task'[t].pc = "lock" /\ task'[t].kind = kind /\ task'[t].chat = chat
          /\ task'[t].held = <<>>
          /\ \A u \in Calls \ {t} : task'[u] = task[u]
          /\ \/ /\ kind \in {"add", "remove"} /\ chat' = chat
                /\ task'[t].need = <<G!Migration(chat), G!Membership(chat)>>
             \/ /\ kind = "lookup" /\ chat' = chat
                /\ task'[t].need = <<G!Membership(chat)>>
             \/ /\ kind = "migrate" /\ chat = "old" /\ chat' = "new"
                /\ task'[t].need = <<G!Migration("old"), G!Migration("new")>>
  <2>1. /\ <<G!Migration(chat), G!Membership(chat)>> \in Seq(G!Locks)
        /\ <<G!Membership(chat)>> \in Seq(G!Locks)
        /\ <<G!Migration("old"), G!Migration("new")>> \in Seq(G!Locks)
    BY <1>2, LocksDiffer
  <2>2. CASE G!Mutate(t, "add") \/ G!Mutate(t, "remove")
    BY <2>1, <2>2, TakeDoes DEF G!Mutate
  <2>3. CASE G!Look(t)
    BY <2>1, <2>3, TakeDoes DEF G!Look
  <2>4. CASE G!Migrate(t)
    BY <2>1, <2>4, TakeDoes DEF G!Migrate
  <2> QED
    BY <2>2, <2>3, <2>4 DEF G!Receive
<1>5. chat' \in G!Chats /\ (chat' = "old" => chat = "old")
  BY <1>2, <1>4 DEF G!Chats
<1>6. EntryTyped'
  BY <1>1, <1>4, <1>5 DEF WhitelistInv, EntryTyped
<1>7. Shaped'
  <2>1. Shape(task'[t])
    BY <1>4 DEF Shape, MutationShape, LookupShape, MigrationShape
  <2> QED
    BY <1>4, <2>1 DEF WhitelistInv, Shaped
<1>8. \A u \in Calls : \A k : Holds(task'[u], k) <=> Holds(task[u], k)
  BY <1>3, <1>4 DEF Holds
<1>9. Owned'
  BY <1>1, <1>8 DEF WhitelistInv, Owned, Holds
<1>10. WritersHold'
  <2>1. \A k : ~ Holds(task'[t], k)
    BY <1>4 DEF Holds
  <2> QED
    BY <1>1, <1>4, <2>1 DEF WhitelistInv, WritersHold, Writes, Holds
<1>11. SeenHolds'
  BY <1>1, <1>4 DEF WhitelistInv, SeenHolds
<1>12. G!CacheFollowsEntries'
  BY <1>1, <1>4, QuietKeeps
<1>13. OneMigration'
  <2>1. CASE kind = "migrate"
    BY <1>4, <2>1 DEF WhitelistInv, OneMigration, Migrates
  <2>2. CASE kind # "migrate"
    BY <1>3, <1>4, <2>2 DEF WhitelistInv, OneMigration, Migrates
  <2> QED
    BY <2>1, <2>2
<1>14. OldSettled'
  <2>1. ~ WritesOld(task'[t])
    BY <1>4 DEF WritesOld
  <2>2. CASE kind = "migrate"
    BY <1>4, <2>2 DEF OldSettled, Starting, Migrates
  <2>3. CASE kind # "migrate"
    <3>1. Starting => Starting'
      BY <1>1, <1>4 DEF Starting, Migrates
    <3>2. chat' = chat
      BY <1>4, <2>3
    <3> QED
      BY <1>1, <1>4, <2>1, <3>1, <3>2 DEF WhitelistInv, OldSettled, WritesOld
  <2> QED
    BY <2>2, <2>3
<1>15. EntryIntent'
  <2>1. CASE kind = "migrate"
    <3>1. excuse = {} => Before
      BY <1>4, <2>1 DEF WhitelistInv, EntryIntent
    <3>2. \A u \in Calls : Migrates(u)' => u = t
      BY <1>4, <2>1 DEF WhitelistInv, OneMigration, Migrates
    <3>3. Migrates(t)'
      BY <1>4, <2>1 DEF Migrates
    <3> QED
      BY <1>1, <1>4, <2>1, <3>1, <3>2, <3>3 DEF EntryIntent, Before
  <2>2. CASE kind # "migrate"
    BY <1>1, <1>3, <1>4, <2>2, UntouchedIntent
  <2> QED
    BY <2>1, <2>2
<1> QED
  BY <1>6, <1>7, <1>9, <1>10, <1>11, <1>12, <1>13, <1>14, <1>15 DEF WhitelistInv

\* A lock more in front of those held.
LEMMA OneMoreInFront ==
    ASSUME NEW k \in G!Locks, NEW h \in Seq(G!Locks), NEW j
    PROVE  (\E i \in DOMAIN (<<k>> \o h) : (<<k>> \o h)[i] = j) <=> (j = k \/ \E i \in DOMAIN h : h[i] = j)
<1> DEFINE n == <<k>> \o h
<1>1. /\ n \in Seq(G!Locks) /\ Len(n) = Len(h) + 1 /\ n[1] = k
      /\ \A i \in 1 .. Len(h) : n[i + 1] = h[i]
  OBVIOUS
<1>2. DOMAIN n = 1 .. Len(n) /\ DOMAIN h = 1 .. Len(h) /\ Len(h) \in Nat
  BY <1>1
<1> HIDE DEF n
<1>3. ASSUME NEW i \in DOMAIN n, n[i] = j PROVE j = k \/ \E e \in DOMAIN h : h[e] = j
  <2>1. CASE i = 1
    BY <1>1, <1>3, <2>1
  <2>2. CASE i # 1
    <3>1. i - 1 \in 1 .. Len(h) /\ (i - 1) + 1 = i
      BY <1>1, <1>2, <2>2
    <3> QED
      BY <1>1, <1>2, <1>3, <3>1
  <2> QED
    BY <2>1, <2>2
<1>4. ASSUME NEW i \in DOMAIN h, h[i] = j PROVE \E e \in DOMAIN n : n[e] = j
  BY <1>1, <1>2, <1>4
<1>5. 1 \in DOMAIN n
  BY <1>1, <1>2
<1> QED
  BY <1>1, <1>3, <1>4, <1>5 DEF n

\* The sequences of locks a task may end up with, written out.
LEMMA InFrontOf ==
    ASSUME NEW k \in G!Locks, NEW a \in G!Locks, NEW b \in G!Locks
    PROVE  /\ <<k>> \o <<>> = <<k>> /\ <<k>> \o <<a>> = <<k, a>>
           /\ <<k>> \o <<a, b>> = <<k, a, b>>
<1>1. <<k>> \o <<a>> = <<k, a>>
  <2> DEFINE n == <<k>> \o <<a>>
  <2>1. n \in Seq(G!Locks) /\ Len(n) = 2
    OBVIOUS
  <2>2. n[1] = k /\ n[2] = a
    OBVIOUS
  <2> HIDE DEF n
  <2>3. n = <<k, a>>
    BY <2>1, <2>2
  <2> QED
    BY <2>3 DEF n
<1>2. <<k>> \o <<a, b>> = <<k, a, b>>
  <2> DEFINE n == <<k>> \o <<a, b>>
  <2>1. n \in Seq(G!Locks) /\ Len(n) = 3
    OBVIOUS
  <2>2. n[1] = k /\ n[2] = a /\ n[3] = b
    OBVIOUS
  <2> HIDE DEF n
  <2>3. n = <<k, a, b>>
    BY <2>1, <2>2
  <2> QED
    BY <2>3 DEF n
<1>3. <<k>> \o <<>> = <<k>>
  OBVIOUS
<1> QED
  BY <1>1, <1>2, <1>3

\* Three locks in their order.
LEMMA InFrontOfThree ==
    ASSUME NEW k \in G!Locks, NEW a \in G!Locks, NEW b \in G!Locks, NEW c \in G!Locks
    PROVE  <<k>> \o <<a, b, c>> = <<k, a, b, c>>
<1> DEFINE n == <<k>> \o <<a, b, c>>
<1>1. n \in Seq(G!Locks) /\ Len(n) = 4
  OBVIOUS
<1>2. n[1] = k /\ n[2] = a /\ n[3] = b /\ n[4] = c
  OBVIOUS
<1> HIDE DEF n
<1>3. n = <<k, a, b, c>>
  BY <1>1, <1>2
<1> QED
  BY <1>3 DEF n

\* A queue without its first element.
LEMMA HeadAndTail ==
    ASSUME NEW S, NEW k \in S, NEW a \in S
    PROVE  /\ Head(<<k>>) = k /\ Tail(<<k>>) = <<>> /\ Len(<<k>>) = 1
           /\ Head(<<k, a>>) = k /\ Tail(<<k, a>>) = <<a>> /\ Len(<<k, a>>) = 2
OBVIOUS

\* SET NX gives a task the next lock it needs; with the last one the body of
\* its command starts.
LEMMA AcquireDoes ==
    ASSUME WhitelistInv, NEW t \in Calls, G!Acquire(t)
    PROVE  \E k \in G!Locks :
               /\ lock[k] = None /\ lock' = [lock EXCEPT ![k] = t]
               /\ k = Head(task[t].need)
               /\ task' \in [Calls -> TaskType]
               /\ task'[t].kind = task[t].kind /\ task'[t].chat = task[t].chat
               /\ task'[t].held # <<>>
               /\ \A j : Holds(task'[t], j) <=> (j = k \/ Holds(task[t], j))
               /\ \A u \in Calls \ {t} : task'[u] = task[u]
               /\ task'[t].pc \in {"lock", "recheck", "entries", "find", "write"}
               /\ Shape(task'[t])
<1> DEFINE k == Head(task[t].need)
           body == CASE task[t].kind = "lookup" -> "recheck"
                     [] task[t].kind = "migrate" -> IF k[1] = "migration" THEN "entries" ELSE "find"
                     [] OTHER -> "write"
           next == IF Len(task[t].need) = 1 THEN body ELSE "lock"
<1>1. /\ task[t].pc = "lock" /\ lock[k] = None /\ lock' = [lock EXCEPT ![k] = t]
      /\ task' = [task EXCEPT ![t].need = Tail(@), ![t].held = <<k>> \o @, ![t].pc = next]
  BY DEF G!Acquire
<1>2. Shape(task[t]) /\ task[t] \in TaskType /\ task[t].chat \in G!Chats
  BY DEF WhitelistInv, Shaped, EntryTyped, TaskType
<1> DEFINE c == task[t].chat
           Situation(need, held) == task[t].need = need /\ task[t].held = held
<1>3. \/ task[t].kind \in {"add", "remove"} /\ Situation(<<G!Migration(c), G!Membership(c)>>, <<>>)
      \/ task[t].kind \in {"add", "remove"} /\ Situation(<<G!Membership(c)>>, <<G!Migration(c)>>)
      \/ task[t].kind = "lookup" /\ Situation(<<G!Membership(c)>>, <<>>)
      \/ task[t].kind = "migrate" /\ Situation(<<G!Migration("old"), G!Migration("new")>>, <<>>)
      \/ task[t].kind = "migrate" /\ Situation(<<G!Migration("new")>>, <<G!Migration("old")>>)
      \/ task[t].kind = "migrate" /\ Situation(<<G!Membership("old"), G!Membership("new")>>, BothMigrations)
      \/ /\ task[t].kind = "migrate"
         /\ Situation(<<G!Membership("new")>>, <<G!Membership("old"), G!Migration("new"), G!Migration("old")>>)
  BY <1>1, <1>2 DEF Shape, MutationShape, LookupShape, MigrationShape, TaskType
<1>4. \E a, b \in G!Locks : task[t].need = <<a>> \/ task[t].need = <<a, b>>
  BY <1>2, <1>3, LocksDiffer
<1>5. k \in G!Locks /\ Tail(task[t].need) \in Seq(G!Locks)
  <2>1. PICK a \in G!Locks, b \in G!Locks : task[t].need = <<a>> \/ task[t].need = <<a, b>>
    BY <1>4
  <2>2. k = a /\ (Tail(task[t].need) = <<>> \/ Tail(task[t].need) = <<b>>)
    BY <2>1, HeadAndTail
  <2>3. <<>> \in Seq(G!Locks) /\ <<b>> \in Seq(G!Locks)
    OBVIOUS
  <2>4. Tail(task[t].need) \in Seq(G!Locks)
    BY <2>2, <2>3
  <2>5. k \in G!Locks
    BY <2>2
  <2> QED
    BY <2>4, <2>5
<1>6. next \in {"lock", "recheck", "entries", "find", "write"}
  OBVIOUS
<1> HIDE DEF next, body, k
<1>7. <<k>> \o task[t].held \in Seq(G!Locks)
  BY <1>2, <1>5 DEF TaskType
<1>8. /\ task'[t] = [task[t] EXCEPT !.need = Tail(@), !.held = <<k>> \o @, !.pc = next]
      /\ \A u \in Calls \ {t} : task'[u] = task[u]
  BY <1>1 DEF WhitelistInv, EntryTyped
<1>9. /\ task'[t] \in TaskType
      /\ task'[t].kind = task[t].kind /\ task'[t].chat = task[t].chat
      /\ task'[t].need = Tail(task[t].need) /\ task'[t].held = <<k>> \o task[t].held
      /\ task'[t].pc = next
  BY <1>2, <1>5, <1>6, <1>7, <1>8 DEF TaskType, PCs
<1>10. task' \in [Calls -> TaskType]
  BY <1>1, <1>9 DEF WhitelistInv, EntryTyped
<1>11. \A j : Holds(task'[t], j) <=> (j = k \/ Holds(task[t], j))
  <2> TAKE j
  <2>1. task[t].held \in Seq(G!Locks)
    BY <1>2 DEF TaskType
  <2> DEFINE h == task[t].held
  <2>2. h \in Seq(G!Locks)
    BY <2>1
  <2> HIDE DEF h
  <2>4. (\E i \in DOMAIN (<<k>> \o h) : (<<k>> \o h)[i] = j) <=> (j = k \/ \E i \in DOMAIN h : h[i] = j)
    BY <1>5, <2>2, OneMoreInFront
  <2>3. task'[t].held = <<k>> \o task[t].held
    BY <1>9
  <2> QED
    BY <2>3, <2>4, Zenon DEF Holds, h
<1>12. task'[t].held # <<>>
  BY <1>11 DEF Holds
<1>13. Shape(task'[t])
  <2>1. CASE task[t].kind \in {"add", "remove"} /\ Situation(<<G!Migration(c), G!Membership(c)>>, <<>>)
    <3>1. k = G!Migration(c) /\ Tail(task[t].need) = <<G!Membership(c)>> /\ next = "lock"
      BY <1>2, <2>1, LocksDiffer, HeadAndTail DEF k, next
    <3>2. <<k>> \o <<>> = <<G!Migration(c)>>
      BY <1>5, <3>1, InFrontOf
    <3> QED
      BY <1>9, <2>1, <3>1, <3>2 DEF Shape, MutationShape
  <2>2. CASE task[t].kind \in {"add", "remove"} /\ Situation(<<G!Membership(c)>>, <<G!Migration(c)>>)
    <3>1. k = G!Membership(c) /\ next = "write"
      BY <1>2, <2>2, LocksDiffer, HeadAndTail DEF k, next, body
    <3>2. <<k>> \o <<G!Migration(c)>> = <<G!Membership(c), G!Migration(c)>>
      BY <1>2, <3>1, LocksDiffer, InFrontOf
    <3> QED
      BY <1>9, <2>2, <3>1, <3>2 DEF Shape, MutationShape
  <2>3. CASE task[t].kind = "lookup" /\ Situation(<<G!Membership(c)>>, <<>>)
    <3>1. next = "recheck"
      BY <1>2, <2>3, LocksDiffer, HeadAndTail DEF next, body
    <3> QED
      BY <1>9, <2>3, <3>1 DEF Shape, LookupShape
  <2>4. CASE task[t].kind = "migrate" /\ Situation(<<G!Migration("old"), G!Migration("new")>>, <<>>)
    <3>1. k = G!Migration("old") /\ Tail(task[t].need) = <<G!Migration("new")>> /\ next = "lock"
      BY <2>4, LocksDiffer, HeadAndTail DEF k, next
    <3>2. <<k>> \o <<>> = <<G!Migration("old")>>
      BY <1>5, <3>1, InFrontOf
    <3> QED
      BY <1>9, <2>4, <3>1, <3>2 DEF Shape, MigrationShape
  <2>5. CASE task[t].kind = "migrate" /\ Situation(<<G!Migration("new")>>, <<G!Migration("old")>>)
    <3>1. k = G!Migration("new") /\ next = "entries"
      BY <2>5, LocksDiffer, HeadAndTail DEF k, next, body
    <3>2. <<k>> \o <<G!Migration("old")>> = BothMigrations
      <4>1. <<G!Migration("new")>> \o <<G!Migration("old")>> = <<G!Migration("new"), G!Migration("old")>>
        BY LocksDiffer, InFrontOf
      <4> QED
        BY <3>1, <4>1 DEF BothMigrations
    <3> QED
      BY <1>9, <2>5, <3>1, <3>2 DEF Shape, MigrationShape
  <2>6. CASE task[t].kind = "migrate" /\ Situation(<<G!Membership("old"), G!Membership("new")>>, BothMigrations)
    <3>1. k = G!Membership("old") /\ Tail(task[t].need) = <<G!Membership("new")>> /\ next = "lock"
      BY <2>6, LocksDiffer, HeadAndTail DEF k, next
    <3>2. <<k>> \o BothMigrations = <<G!Membership("old"), G!Migration("new"), G!Migration("old")>>
      <4>1. G!Membership("old") \in G!Locks /\ G!Migration("new") \in G!Locks /\ G!Migration("old") \in G!Locks
        BY LocksDiffer
      <4>2. <<G!Membership("old")>> \o <<G!Migration("new"), G!Migration("old")>>
            = <<G!Membership("old"), G!Migration("new"), G!Migration("old")>>
        BY <4>1, InFrontOf
      <4> QED
        BY <3>1, <4>2 DEF BothMigrations
    <3> QED
      BY <1>9, <2>6, <3>1, <3>2 DEF Shape, MigrationShape
  <2>7. CASE /\ task[t].kind = "migrate"
             /\ Situation(<<G!Membership("new")>>, <<G!Membership("old"), G!Migration("new"), G!Migration("old")>>)
    <3>1. k = G!Membership("new") /\ next = "find"
      BY <2>7, LocksDiffer, HeadAndTail DEF k, next, body
    <3>2. <<k>> \o <<G!Membership("old"), G!Migration("new"), G!Migration("old")>> = AllLocks
      <4>1. G!Membership("new") \in G!Locks /\ G!Membership("old") \in G!Locks
            /\ G!Migration("new") \in G!Locks /\ G!Migration("old") \in G!Locks
        BY LocksDiffer
      <4>2. <<G!Membership("new")>> \o <<G!Membership("old"), G!Migration("new"), G!Migration("old")>>
            = <<G!Membership("new"), G!Membership("old"), G!Migration("new"), G!Migration("old")>>
        BY <4>1, InFrontOfThree
      <4> QED
        BY <3>1, <4>2 DEF AllLocks
    <3> QED
      BY <1>9, <2>7, <3>1, <3>2 DEF Shape, MigrationShape
  <2> QED
    BY <1>3, <2>1, <2>2, <2>3, <2>4, <2>5, <2>6, <2>7
<1> QED
  BY <1>1, <1>5, <1>6, <1>8, <1>9, <1>10, <1>11, <1>12, <1>13 DEF k

\* A task gets a lock.
LEMMA AcquireKeeps ==
    ASSUME NoneIsNoTask, WhitelistInv, NEW t \in Calls, G!Acquire(t) PROVE WhitelistInv'
<1>1. /\ task[t].pc = "lock"
      /\ excuse' = IF G!Behind(t) THEN excuse \cup {"behind"} ELSE excuse
      /\ entry' = entry /\ cached' = cached /\ chat' = chat /\ lapses' = lapses /\ wanted' = wanted
  BY DEF G!Acquire
<1>2. PICK k \in G!Locks :
          /\ lock[k] = None /\ lock' = [lock EXCEPT ![k] = t]
          /\ k = Head(task[t].need)
          /\ task' \in [Calls -> TaskType]
          /\ task'[t].kind = task[t].kind /\ task'[t].chat = task[t].chat
          /\ task'[t].held # <<>>
          /\ \A j : Holds(task'[t], j) <=> (j = k \/ Holds(task[t], j))
          /\ \A u \in Calls \ {t} : task'[u] = task[u]
          /\ task'[t].pc \in {"lock", "recheck", "entries", "find", "write"}
          /\ Shape(task'[t])
  BY AcquireDoes
<1>3. Shape(task[t]) /\ task[t] \in TaskType
  BY DEF WhitelistInv, Shaped, EntryTyped
<1>4. /\ lock' \in [G!Locks -> {None} \cup Calls] /\ lock'[k] = t
      /\ \A j \in G!Locks : j # k => lock'[j] = lock[j]
  BY <1>2 DEF WhitelistInv, EntryTyped
<1>5. EntryTyped'
  BY <1>1, <1>2, <1>4 DEF WhitelistInv, EntryTyped
<1>6. Shaped'
  BY <1>2 DEF WhitelistInv, Shaped
<1>7. Owned'
  <2> SUFFICES ASSUME NEW j \in G!Locks, NEW u \in Calls, lock'[j] = u PROVE Holds(task'[u], j)
    BY DEF Owned, Holds
  <2>1. CASE j = k
    BY <1>2, <1>4, <2>1
  <2>2. CASE j # k
    <3>1. Holds(task[u], j)
      BY <1>4, <2>2 DEF WhitelistInv, Owned
    <3> QED
      BY <1>2, <3>1
  <2> QED
    BY <2>1, <2>2
<1>8. "late" \notin excuse' => "late" \notin excuse
  BY <1>1
<1>9. WritersHold'
  <2> SUFFICES ASSUME "late" \notin excuse', NEW u \in Calls, NEW j \in G!Locks,
                      Writes(task'[u]), Holds(task'[u], j)
               PROVE  lock'[j] = u
    BY DEF WritersHold, Writes, Holds
  <2>1. CASE u = t
    <3>1. CASE j = k
      BY <1>4, <2>1, <3>1
    <3>2. CASE j # k
      <4>1. Holds(task[t], j) /\ Writes(task[t])
        BY <1>1, <1>2, <2>1, <3>2 DEF Writes
      <4> QED
        BY <1>4, <1>8, <2>1, <3>2, <4>1 DEF WhitelistInv, WritersHold
    <3> QED
      BY <3>1, <3>2
  <2>2. CASE u # t
    <3>1. Writes(task[u]) /\ Holds(task[u], j)
      BY <1>2, <2>2
    <3>2. lock[j] = u
      BY <1>8, <3>1 DEF WhitelistInv, WritersHold
    <3>3. j # k
      BY <1>2, <3>2 DEF NoneIsNoTask
    <3> QED
      BY <1>4, <3>2, <3>3
  <2> QED
    BY <2>1, <2>2
<1>10. SeenHolds'
  <2> SUFFICES ASSUME "late" \notin excuse', NEW u \in Calls, task'[u].pc = "fill",
                      lock'[G!Membership(task'[u].chat)] = u
               PROVE  task'[u].seen <=> task'[u].chat \in entry
    BY <1>1 DEF SeenHolds
  <2>1. u # t /\ task'[u] = task[u]
    BY <1>2
  <2>2. G!Membership(task[u].chat) \in G!Locks
    BY LocksDiffer DEF WhitelistInv, EntryTyped, TaskType
  <2>3. lock[G!Membership(task[u].chat)] = u
    BY <1>4, <2>1, <2>2
  <2> QED
    BY <1>8, <2>1, <2>3 DEF WhitelistInv, SeenHolds
<1>11. G!CacheFollowsEntries'
  <2>1. excuse \subseteq excuse'
    BY <1>1
  <2> QED
    BY <1>1, <1>2, <2>1, QuietKeeps
<1>12. OneMigration'
  <2>1. \A u \in Calls : task'[u].kind = task[u].kind /\ task'[u].chat = task[u].chat
    BY <1>2
  <2> QED
    BY <1>1, <2>1 DEF WhitelistInv, OneMigration, Migrates
<1>13. OldSettled'
  <2> SUFFICES ASSUME excuse' = {}, chat = "new", ~ Starting', NEW u \in Calls, WritesOld(task'[u])
               PROVE  FALSE
    BY <1>1 DEF OldSettled, WritesOld
  <2>1. excuse = {} /\ ~ G!Behind(t)
    BY <1>1
  <2>2. CASE Starting /\ ~ Migrates(t)
    <3>1. PICK m \in Calls : Migrates(m) /\ task[m].pc = "lock" /\ task[m].held = <<>>
      BY <2>2 DEF Starting
    <3>2. m # t
      BY <2>2, <3>1
    <3> QED
      BY <1>2, <3>1, <3>2 DEF Starting, Migrates
  <2>3. CASE Starting /\ Migrates(t)
    <3>1. u # t /\ task'[u] = task[u] /\ WritesOld(task[u])
      BY <1>2, <2>3 DEF WritesOld, Migrates
    <3>2. task[t].pc = "lock" /\ task[t].held = <<>>
      BY <2>3 DEF Starting, WhitelistInv, OneMigration
    <3>3. k = G!Migration("old")
      <4>1. task[t].need = <<G!Migration("old"), G!Migration("new")>>
        BY <1>3, <2>3, <3>2 DEF Shape, MigrationShape, BothMigrations, Migrates
      <4> QED
        BY <1>2, <4>1
    <3>4. Holds(task[u], G!Migration("old")) /\ Writes(task[u])
      <4>1. Shape(task[u]) /\ task[u] \in TaskType
        BY DEF WhitelistInv, Shaped, EntryTyped
      <4>2. \/ task[u].held = <<G!Migration("old")>>
            \/ task[u].held = <<G!Membership("old"), G!Migration("old")>>
        BY <3>1, <4>1 DEF WritesOld, Shape, MutationShape
      <4>3. \E i \in DOMAIN task[u].held : task[u].held[i] = G!Migration("old")
        <5>1. CASE task[u].held = <<G!Migration("old")>>
          <6>1. 1 \in DOMAIN task[u].held /\ task[u].held[1] = G!Migration("old")
            BY <5>1
          <6> QED
            BY <6>1
        <5>2. CASE task[u].held = <<G!Membership("old"), G!Migration("old")>>
          <6>1. 2 \in DOMAIN task[u].held /\ task[u].held[2] = G!Migration("old")
            BY <5>2
          <6> QED
            BY <6>1
        <5> QED
          BY <4>2, <5>1, <5>2
      <4> QED
        BY <3>1, <4>3 DEF Holds, Writes, WritesOld
    <3>5. lock[k] = u
      BY <2>1, <3>3, <3>4 DEF WhitelistInv, WritersHold
    <3> QED
      BY <1>2, <3>5 DEF NoneIsNoTask
  <2>4. CASE ~ Starting
    <3>1. ~ WritesOld(task[u])
      BY <2>1, <2>4 DEF WhitelistInv, OldSettled
    <3>2. u = t
      BY <1>2, <3>1
    <3>3. task[t].held = <<>> /\ task[t].kind \in {"add", "remove"} /\ task[t].chat = "old"
      BY <1>1, <1>2, <3>1, <3>2 DEF WritesOld
    <3> QED
      BY <2>1, <2>4, <3>3 DEF G!Behind, Starting, Migrates
  <2> QED
    BY <2>2, <2>3, <2>4
<1>14. EntryIntent'
  <2>1. CASE task[t].kind = "migrate"
    <3>1. excuse' = excuse
      BY <1>1, <2>1 DEF G!Behind
    <3>2. excuse = {} => Before
      BY <1>1, <2>1 DEF WhitelistInv, EntryIntent, Migrates
    <3>3. Before => Before'
      BY <1>1 DEF Before
    <3> QED
      BY <1>1, <1>2, <2>1, <3>1, <3>2, <3>3, MigrationIntent DEF Migrates
  <2>2. CASE task[t].kind # "migrate"
    <3>1. excuse \subseteq excuse'
      BY <1>1
    <3> QED
      BY <1>1, <1>2, <2>2, <3>1, UntouchedIntent
  <2> QED
    BY <2>1, <2>2
<1> QED
  BY <1>5, <1>6, <1>7, <1>9, <1>10, <1>11, <1>12, <1>13, <1>14 DEF WhitelistInv

\* A task that gives back its last lock deletes it only if it is its own.
LEMMA ReleaseKeeps ==
    ASSUME NoneIsNoTask, WhitelistInv, NEW t \in Calls, G!Release(t) PROVE WhitelistInv'
<1>1. /\ task[t].pc = "release"
      /\ entry' = entry /\ cached' = cached /\ chat' = chat /\ lapses' = lapses
      /\ wanted' = wanted /\ excuse' = excuse
  BY DEF G!Release
<1>2. Shape(task[t]) /\ task[t] \in TaskType /\ task[t].held \in Seq(G!Locks)
  BY DEF WhitelistInv, Shaped, EntryTyped, TaskType
<1>3. /\ task' \in [Calls -> TaskType]
      /\ \A u \in Calls \ {t} : task'[u] = task[u]
      /\ \/ task'[t].pc = "release" /\ task'[t].kind = task[t].kind /\ task'[t].chat = task[t].chat
         \/ task'[t].pc = "done" /\ task'[t].kind = "none" /\ task'[t].chat = "old" /\ task'[t].held = <<>>
      /\ lock' \in [G!Locks -> {None} \cup Calls]
      /\ \A j \in G!Locks : lock'[j] = lock[j] \/ (lock[j] = t /\ lock'[j] = None)
      /\ \A j \in G!Locks : lock'[j] = t => Holds(task'[t], j)
  <2>1. CASE task[t].held = <<>>
    <3>1. task' = [task EXCEPT ![t] = G!At("done")] /\ lock' = lock
      BY <2>1 DEF G!Release
    <3>2. /\ G!At("done") \in TaskType /\ G!At("done").pc = "done" /\ G!At("done").kind = "none"
          /\ G!At("done").held = <<>> /\ G!At("done").chat = "old"
      BY AtTyped DEF PCs, G!At
    <3>3. \A j \in G!Locks : lock[j] # t
      BY <2>1 DEF WhitelistInv, Owned, Holds
    <3>4. task'[t] = G!At("done") /\ \A u \in Calls \ {t} : task'[u] = task[u]
      BY <3>1 DEF WhitelistInv, EntryTyped
    <3>5. task' \in [Calls -> TaskType] /\ lock' \in [G!Locks -> {None} \cup Calls]
      BY <3>1, <3>2 DEF WhitelistInv, EntryTyped
    <3>6. /\ task'[t].pc = "done" /\ task'[t].kind = "none" /\ task'[t].chat = "old"
          /\ task'[t].held = <<>>
      BY <3>2, <3>4
    <3>7. \A j \in G!Locks : lock'[j] = lock[j] /\ lock'[j] # t
      BY <3>1, <3>3
    <3> QED
      BY <3>4, <3>5, <3>6, <3>7
  <2>2. CASE task[t].held # <<>>
    <3> DEFINE h == Head(task[t].held)
    <3>1. /\ task' = [task EXCEPT ![t].held = Tail(@)]
          /\ lock' = [lock EXCEPT ![h] = IF @ = t THEN None ELSE @]
      BY <2>2 DEF G!Release
    <3>2. /\ h \in G!Locks /\ Tail(task[t].held) \in Seq(G!Locks) /\ h = task[t].held[1]
          /\ \A i \in DOMAIN task[t].held :
                 i # 1 => i - 1 \in DOMAIN Tail(task[t].held) /\ Tail(task[t].held)[i - 1] = task[t].held[i]
      BY <1>2, <2>2
    <3> HIDE DEF h
    <3>3. /\ task'[t] = [task[t] EXCEPT !.held = Tail(@)]
          /\ \A u \in Calls \ {t} : task'[u] = task[u]
      BY <3>1 DEF WhitelistInv, EntryTyped
    <3>4. /\ task'[t] \in TaskType /\ task'[t].held = Tail(task[t].held)
          /\ task'[t].pc = "release" /\ task'[t].kind = task[t].kind /\ task'[t].chat = task[t].chat
      BY <1>1, <1>2, <3>2, <3>3 DEF TaskType
    <3>5. task' \in [Calls -> TaskType]
      BY <3>1, <3>4 DEF WhitelistInv, EntryTyped
    <3>6. /\ lock' \in [G!Locks -> {None} \cup Calls]
          /\ \A j \in G!Locks : j # h => lock'[j] = lock[j]
          /\ lock'[h] = IF lock[h] = t THEN None ELSE lock[h]
      BY <3>1, <3>2 DEF WhitelistInv, EntryTyped
    <3>7. ASSUME NEW j \in G!Locks, lock'[j] = t PROVE Holds(task'[t], j)
      <4>1. j # h /\ lock[j] = t
        BY <3>6, <3>7 DEF NoneIsNoTask
      <4>2. PICK i \in DOMAIN task[t].held : task[t].held[i] = j
        BY <4>1 DEF WhitelistInv, Owned, Holds
      <4>3. i # 1
        BY <3>2, <4>1, <4>2
      <4> QED
        BY <3>2, <3>4, <4>2, <4>3 DEF Holds
    <3>8. \A j \in G!Locks : lock'[j] = lock[j] \/ (lock[j] = t /\ lock'[j] = None)
      BY <3>6
    <3>9. \A u \in Calls \ {t} : task'[u] = task[u]
      BY <3>3
    <3>10. lock' \in [G!Locks -> {None} \cup Calls]
      BY <3>6
    <3>11. task'[t].pc = "release" /\ task'[t].kind = task[t].kind /\ task'[t].chat = task[t].chat
      BY <3>4
    <3> QED
      BY <3>5, <3>7, <3>8, <3>9, <3>10, <3>11, Zenon
  <2> QED
    BY <2>1, <2>2
<1>4. EntryTyped'
  BY <1>1, <1>3 DEF WhitelistInv, EntryTyped
<1>5. Shaped'
  <2>1. task[t].kind # "none"
    BY <1>1, <1>2 DEF Shape
  <2>2. CASE task'[t].pc = "release"
    <3>1. task'[t].kind = task[t].kind /\ task[t].kind # "none"
      BY <1>3, <2>1, <2>2
    <3>2. MutationShape(task'[t]) /\ LookupShape(task'[t]) /\ MigrationShape(task'[t])
      BY <2>2 DEF MutationShape, LookupShape, MigrationShape
    <3>3. Shape(task'[t])
      BY <2>2, <3>1, <3>2 DEF Shape
    <3> QED
      BY <1>3, <3>3 DEF WhitelistInv, Shaped
  <2>3. CASE task'[t].pc = "done"
    <3>1. Shape(task'[t])
      BY <1>3, <2>3 DEF Shape, MutationShape, LookupShape, MigrationShape
    <3> QED
      BY <1>3, <3>1 DEF WhitelistInv, Shaped
  <2> QED
    BY <1>3, <2>2, <2>3
<1>6. Owned'
  <2> SUFFICES ASSUME NEW j \in G!Locks, NEW u \in Calls, lock'[j] = u PROVE Holds(task'[u], j)
    BY DEF Owned, Holds
  <2>1. CASE u = t
    BY <1>3, <2>1
  <2>2. CASE u # t
    BY <1>3, <2>2 DEF WhitelistInv, Owned, NoneIsNoTask
  <2> QED
    BY <2>1, <2>2
<1>7. WritersHold'
  <2> SUFFICES ASSUME "late" \notin excuse, NEW u \in Calls, NEW j \in G!Locks,
                      Writes(task'[u]), Holds(task'[u], j)
               PROVE  lock'[j] = u
    BY <1>1 DEF WritersHold, Writes, Holds
  <2>1. u # t
    BY <1>3 DEF Writes
  <2>2. lock[j] = u
    BY <1>3, <2>1 DEF WhitelistInv, WritersHold
  <2> QED
    BY <1>3, <2>1, <2>2
<1>8. SeenHolds'
  <2> SUFFICES ASSUME "late" \notin excuse, NEW u \in Calls, task'[u].pc = "fill",
                      lock'[G!Membership(task'[u].chat)] = u
               PROVE  task'[u].seen <=> task'[u].chat \in entry
    BY <1>1 DEF SeenHolds
  <2>1. u # t /\ task'[u] = task[u]
    BY <1>3
  <2>2. G!Membership(task[u].chat) \in G!Locks
    BY LocksDiffer DEF WhitelistInv, EntryTyped, TaskType
  <2>3. lock[G!Membership(task[u].chat)] = u
    BY <1>3, <2>1, <2>2 DEF NoneIsNoTask
  <2> QED
    BY <2>1, <2>3 DEF WhitelistInv, SeenHolds
<1>9. G!CacheFollowsEntries'
  BY <1>1, <1>3, QuietKeeps
<1>10. OneMigration'
  BY <1>1, <1>3 DEF WhitelistInv, OneMigration, Migrates
<1>11. OldSettled'
  <2>1. Starting => Starting'
    BY <1>1, <1>3 DEF Starting, Migrates
  <2>2. ~ WritesOld(task'[t])
    BY <1>3 DEF WritesOld
  <2> QED
    BY <1>1, <1>3, <2>1, <2>2 DEF WhitelistInv, OldSettled, WritesOld
<1>12. EntryIntent'
  <2>1. CASE task[t].kind # "migrate"
    BY <1>1, <1>3, <2>1, UntouchedIntent
  <2>2. CASE task[t].kind = "migrate"
    <3>1. excuse = {} => After
      BY <1>1, <2>2 DEF WhitelistInv, EntryIntent, Migrates
    <3>2. After => After'
      BY <1>1 DEF After
    <3>3. chat' # "old"
      BY <1>1, <2>2 DEF WhitelistInv, OneMigration, Migrates
    <3>4. \A u \in Calls : Migrates(u)' => u = t /\ task'[t].pc = "release"
      BY <1>3, <2>2 DEF WhitelistInv, OneMigration, Migrates
    <3> QED
      BY <1>1, <3>1, <3>2, <3>3, <3>4 DEF EntryIntent
  <2> QED
    BY <2>1, <2>2
<1> QED
  BY <1>4, <1>5, <1>6, <1>7, <1>8, <1>9, <1>10, <1>11, <1>12 DEF WhitelistInv

\* A lock's ten seconds are over: nobody writes under it unless it was a
\* mutation's, which is then excused.
LEMMA LapseKeeps ==
    ASSUME NoneIsNoTask, WhitelistInv, NEW k \in G!Locks, G!Lapse(k) PROVE WhitelistInv'
<1>1. /\ lock[k] # None /\ lock' = [lock EXCEPT ![k] = None] /\ lapses' = lapses + 1
      /\ excuse' = IF task[lock[k]].kind = "lookup" \/ task[lock[k]].pc = "release"
                   THEN excuse ELSE excuse \cup {"late"}
      /\ entry' = entry /\ cached' = cached /\ chat' = chat /\ task' = task /\ wanted' = wanted
  BY DEF G!Lapse
<1>2. /\ lock' \in [G!Locks -> {None} \cup Calls] /\ lock'[k] = None
      /\ \A j \in G!Locks : j # k => lock'[j] = lock[j]
  BY <1>1 DEF WhitelistInv, EntryTyped
<1>3. EntryTyped'
  BY <1>1, <1>2 DEF WhitelistInv, EntryTyped
<1>4. Shaped'
  BY <1>1 DEF WhitelistInv, Shaped
<1>5. Owned'
  BY <1>1, <1>2 DEF WhitelistInv, Owned, NoneIsNoTask
<1>6. WritersHold'
  <2> SUFFICES ASSUME "late" \notin excuse', NEW u \in Calls, NEW j \in G!Locks,
                      Writes(task[u]), Holds(task[u], j)
               PROVE  lock'[j] = u
    BY <1>1 DEF WritersHold, Writes, Holds
  <2>1. lock[j] = u
    BY <1>1 DEF WhitelistInv, WritersHold
  <2>2. j # k
    BY <1>1, <2>1 DEF Writes
  <2> QED
    BY <1>2, <2>1, <2>2
<1>7. SeenHolds'
  <2> SUFFICES ASSUME "late" \notin excuse', NEW u \in Calls, task[u].pc = "fill",
                      lock'[G!Membership(task[u].chat)] = u
               PROVE  task[u].seen <=> task[u].chat \in entry
    BY <1>1 DEF SeenHolds
  <2>1. G!Membership(task[u].chat) \in G!Locks
    BY LocksDiffer DEF WhitelistInv, EntryTyped, TaskType
  <2>2. lock[G!Membership(task[u].chat)] = u /\ "late" \notin excuse
    BY <1>1, <1>2, <2>1 DEF NoneIsNoTask
  <2> QED
    BY <2>2 DEF WhitelistInv, SeenHolds
<1>8. G!CacheFollowsEntries'
  BY <1>1 DEF WhitelistInv, G!CacheFollowsEntries, G!Pending
<1>9. OneMigration'
  BY <1>1 DEF WhitelistInv, OneMigration, Migrates
<1>10. OldSettled' /\ EntryIntent'
  <2>1. excuse' = {} => excuse = {}
    BY <1>1
  <2> QED
    BY <1>1, <2>1 DEF WhitelistInv, OldSettled, EntryIntent, Starting, Migrates, WritesOld,
        Before, After
<1> QED
  BY <1>3, <1>4, <1>5, <1>6, <1>7, <1>8, <1>9, <1>10 DEF WhitelistInv

\* A cached entry expires.
LEMMA KeyExpireKeeps ==
    ASSUME WhitelistInv, NEW c \in G!Chats, G!Expire(c) PROVE WhitelistInv'
<1>1. /\ cached' = [cached EXCEPT ![c] = "none"]
      /\ entry' = entry /\ lock' = lock /\ chat' = chat /\ task' = task /\ lapses' = lapses
      /\ wanted' = wanted /\ excuse' = excuse
  BY DEF G!Expire
<1>2. G!CacheFollowsEntries'
  BY <1>1 DEF WhitelistInv, G!CacheFollowsEntries, G!Pending, EntryTyped
<1>3. EntryTyped'
  BY <1>1 DEF WhitelistInv, EntryTyped
<1>4. /\ Shaped' /\ Owned' /\ WritersHold' /\ SeenHolds' /\ OneMigration'
  BY <1>1 DEF WhitelistInv, Shaped, Owned, WritersHold, SeenHolds, OneMigration, Migrates
<1>5. OldSettled' /\ EntryIntent'
  BY <1>1 DEF WhitelistInv, OldSettled, EntryIntent, Starting, Migrates, Before, After
<1> QED
  BY <1>2, <1>3, <1>4, <1>5 DEF WhitelistInv

--------------------------------------------------------------------------------
(* The theorems *)

\* The invariant of GroupWhitelist holds at the beginning.
LEMMA EntryBegins == ASSUME NoneIsNoTask PROVE G!Init => WhitelistInv
<1> SUFFICES ASSUME G!Init PROVE WhitelistInv
  OBVIOUS
<1>1. G!At("new") \in TaskType /\ G!At("new").pc = "new" /\ G!At("new").kind = "none" /\ G!At("new").held = <<>>
  BY AtTyped DEF PCs
<1>2. G!At("new").chat = "old"
  BY DEF G!At
<1>3. \A t \in Calls : task[t] = G!At("new")
  BY DEF G!Init
<1>4. EntryTyped
  BY <1>1 DEF G!Init, EntryTyped, G!Chats
<1>5. Shaped
  BY <1>1, <1>3 DEF Shaped, Shape
<1>6. WritersHold /\ SeenHolds /\ G!CacheFollowsEntries
  BY <1>1, <1>3 DEF G!Init, WritersHold, Writes, SeenHolds, G!CacheFollowsEntries
<1>7. OneMigration
  BY <1>1, <1>2, <1>3 DEF OneMigration, Migrates, G!Init
<1>8. OldSettled /\ EntryIntent
  BY <1>1, <1>3 DEF G!Init, OldSettled, EntryIntent, Migrates, Before
<1>9. Owned
  BY DEF G!Init, Owned, NoneIsNoTask
<1> QED
  BY <1>4, <1>5, <1>6, <1>7, <1>8, <1>9 DEF WhitelistInv

\* The invariant of GroupWhitelist holds after every step.
LEMMA EntryNextPreserves ==
    ASSUME NoneIsNoTask, WhitelistInv, [G!Next]_(G!vars) PROVE WhitelistInv'
<1>1. CASE \E t \in Calls : G!Receive(t) \/ G!GiveUp(t)
  BY <1>1, LookOrMutateKeeps, GiveUpKeeps
<1>2. CASE \E t \in Calls : G!Acquire(t) \/ G!Release(t)
  BY <1>2, AcquireKeeps, ReleaseKeeps
<1>3. CASE \E t \in Calls : G!Write(t) \/ G!Forget(t) \/ G!Recheck(t) \/ G!Read(t) \/ G!Fill(t)
  BY <1>3, WriteKeeps, ForgetKeeps, LookupKeeps, FillKeeps
<1>4. CASE \E t \in Calls : G!Entries(t) \/ G!Find(t) \/ G!Move(t) \/ G!Drop(t)
  BY <1>4, EntriesKeeps, MoveKeeps
<1>5. CASE \E k \in G!Locks : G!Lapse(k)
  BY <1>5, LapseKeeps
<1>6. CASE \E c \in G!Chats : G!Expire(c)
  BY <1>6, KeyExpireKeeps
<1>7. CASE UNCHANGED G!vars
  <2>1. /\ cached' = cached /\ entry' = entry /\ lock' = lock /\ chat' = chat /\ task' = task
        /\ lapses' = lapses /\ wanted' = wanted /\ excuse' = excuse
    BY <1>7 DEF G!vars
  <2>2. /\ EntryTyped' /\ Shaped' /\ Owned' /\ WritersHold' /\ SeenHolds' /\ OneMigration'
    BY <2>1 DEF WhitelistInv, EntryTyped, Shaped, Owned, WritersHold, SeenHolds, OneMigration,
        Migrates
  <2>3. OldSettled' /\ EntryIntent' /\ G!CacheFollowsEntries'
    BY <2>1 DEF WhitelistInv, OldSettled, EntryIntent, Starting, Migrates, Before, After,
                G!CacheFollowsEntries, G!Pending
  <2> QED
    BY <2>2, <2>3 DEF WhitelistInv
<1> QED
  BY <1>1, <1>2, <1>3, <1>4, <1>5, <1>6, <1>7 DEF G!Next, G!Step

\* Nobody migrates any more, so the entry is what was asked for.
LEMMA InvMeansIntent == WhitelistInv => G!MigrationKeepsIntent
<1> SUFFICES ASSUME WhitelistInv, excuse = {}, chat = "new", \A t \in Calls : task[t].pc \in {"new", "done"}
             PROVE  After
  BY DEF G!MigrationKeepsIntent, After
<1>1. \A t \in Calls : ~ Migrates(t)
  BY DEF WhitelistInv, Shaped, Shape, Migrates
<1> QED
  BY <1>1 DEF WhitelistInv, EntryIntent

\* What a task waits for comes after everything it holds: the migration locks
\* before the membership locks, and the old id's before the new one's.
Rank(k) ==
    IF k = G!Migration("old") THEN 1
    ELSE IF k = G!Migration("new") THEN 2
    ELSE IF k = G!Membership("old") THEN 3 ELSE 4

\* A task waits for a lock greater than those it holds.
LEMMA InOrder ==
    ASSUME WhitelistInv, NEW t \in Calls, task[t].pc = "lock"
    PROVE  /\ Head(task[t].need) \in G!Locks
           /\ \A k \in G!Locks : Holds(task[t], k) => Rank(k) < Rank(Head(task[t].need))
<1>1. Shape(task[t]) /\ task[t] \in TaskType /\ task[t].chat \in G!Chats
  BY DEF WhitelistInv, Shaped, EntryTyped, TaskType
<1>2. /\ Rank(G!Migration("old")) = 1 /\ Rank(G!Migration("new")) = 2
      /\ Rank(G!Membership("old")) = 3 /\ Rank(G!Membership("new")) = 4
      /\ G!Migration("old") \in G!Locks /\ G!Migration("new") \in G!Locks
      /\ G!Membership("old") \in G!Locks /\ G!Membership("new") \in G!Locks
  BY LocksDiffer DEF Rank
<1>3. task[t].chat = "old" \/ task[t].chat = "new"
  BY <1>1 DEF G!Chats
<1> DEFINE Situation(k, held) == Head(task[t].need) = k /\ task[t].held = held
<1>4. \/ Situation(Head(task[t].need), <<>>) /\ Head(task[t].need) \in G!Locks
      \/ Situation(G!Membership("old"), <<G!Migration("old")>>)
      \/ Situation(G!Membership("new"), <<G!Migration("new")>>)
      \/ Situation(G!Migration("new"), <<G!Migration("old")>>)
      \/ Situation(G!Membership("old"), <<G!Migration("new"), G!Migration("old")>>)
      \/ Situation(G!Membership("new"), <<G!Membership("old"), G!Migration("new"), G!Migration("old")>>)
  <2>1. CASE task[t].kind \in {"add", "remove"}
    BY <1>1, <1>2, <1>3, <2>1, HeadAndTail, LocksDiffer DEF Shape, MutationShape
  <2>2. CASE task[t].kind = "lookup"
    BY <1>1, <1>2, <1>3, <2>2, HeadAndTail, LocksDiffer DEF Shape, LookupShape
  <2>3. CASE task[t].kind = "migrate"
    BY <1>1, <1>2, <1>3, <2>3, HeadAndTail, LocksDiffer DEF Shape, MigrationShape, BothMigrations
  <2> QED
    BY <1>1, <2>1, <2>2, <2>3 DEF Shape, TaskType
<1>6. CASE task[t].held = <<>>
  BY <1>2, <1>4, <1>6 DEF Holds
<1>7. CASE Situation(G!Membership("old"), <<G!Migration("old")>>)
  BY <1>2, <1>7 DEF Holds
<1>8. CASE Situation(G!Membership("new"), <<G!Migration("new")>>)
  BY <1>2, <1>8 DEF Holds
<1>9. CASE Situation(G!Migration("new"), <<G!Migration("old")>>)
  BY <1>2, <1>9 DEF Holds
<1>10. CASE Situation(G!Membership("old"), <<G!Migration("new"), G!Migration("old")>>)
  BY <1>2, <1>10 DEF Holds
<1>11. CASE Situation(G!Membership("new"), <<G!Membership("old"), G!Migration("new"), G!Migration("old")>>)
  BY <1>2, <1>11 DEF Holds
<1> QED
  BY <1>4, <1>6, <1>7, <1>8, <1>9, <1>10, <1>11

\* Of the locks that are waited for and taken, the holder of the last one in
\* the order goes on, or waits for a lock that nobody has.
LEMMA InvMeansSomebodyGoesOn ==
    ASSUME NoneIsNoTask, WhitelistInv PROVE G!SomebodyGoesOn
<1> DEFINE busy == {t \in Calls : task[t].pc \notin {"new", "done"}}
           Stuck(t) == task[t].pc = "lock" /\ lock[Head(task[t].need)] # None
<1> SUFFICES ASSUME busy # {}, \A t \in busy : Stuck(t) PROVE FALSE
  BY DEF G!SomebodyGoesOn
<1>1. ASSUME NEW t \in busy
      PROVE  \E u \in busy : Rank(Head(task[t].need)) < Rank(Head(task[u].need))
  <2>1. t \in Calls /\ task[t].pc = "lock" /\ lock[Head(task[t].need)] # None
    BY <1>1
  <2>2. Head(task[t].need) \in G!Locks
    BY <2>1, InOrder
  <2>3. PICK u \in Calls : lock[Head(task[t].need)] = u
    BY <2>1, <2>2 DEF WhitelistInv, EntryTyped
  <2>4. Holds(task[u], Head(task[t].need))
    BY <2>2, <2>3 DEF WhitelistInv, Owned
  <2>5. u \in busy
    BY <2>4 DEF WhitelistInv, Shaped, Shape, Holds
  <2>6. task[u].pc = "lock"
    BY <2>5
  <2> QED
    BY <2>2, <2>4, <2>5, <2>6, InOrder
<1>2. \A k : Rank(k) \in {1, 2, 3, 4}
  BY DEF Rank
<1>3. PICK t1 \in busy : TRUE
  OBVIOUS
<1>4. PICK t2 \in busy : Rank(Head(task[t1].need)) < Rank(Head(task[t2].need))
  BY <1>1
<1>5. PICK t3 \in busy : Rank(Head(task[t2].need)) < Rank(Head(task[t3].need))
  BY <1>1
<1>6. PICK t4 \in busy : Rank(Head(task[t3].need)) < Rank(Head(task[t4].need))
  BY <1>1
<1>7. PICK t5 \in busy : Rank(Head(task[t4].need)) < Rank(Head(task[t5].need))
  BY <1>1
<1> QED
  BY <1>2, <1>4, <1>5, <1>6, <1>7

\* The types, the shapes, who holds what and what the entry says.
THEOREM WhitelistInvariance ==
    ASSUME NoneIsNoTask PROVE G!Spec => []WhitelistInv
<1>1. G!Init => WhitelistInv
  BY EntryBegins
<1>2. WhitelistInv /\ [G!Next]_(G!vars) => WhitelistInv'
  BY EntryNextPreserves
<1> QED
  BY <1>1, <1>2, PTL DEF G!Spec

\* The cache disagrees with the database only while a mutation is between its
\* write and its deletion of the key, however many tasks look up, mutate and
\* migrate, and however long they stall.
THEOREM WhitelistCacheFollows ==
    ASSUME NoneIsNoTask PROVE G!Spec => []G!CacheFollowsEntries
<1>1. WhitelistInv => G!CacheFollowsEntries
  BY DEF WhitelistInv
<1> QED
  BY <1>1, WhitelistInvariance, PTL

\* After the migration the new id has the entry exactly if the last mutation
\* asked for it.
THEOREM WhitelistIntentKept ==
    ASSUME NoneIsNoTask PROVE G!Spec => []G!MigrationKeepsIntent
<1>1. WhitelistInv => G!MigrationKeepsIntent
  BY InvMeansIntent
<1> QED
  BY <1>1, WhitelistInvariance, PTL

\* The locks never make everybody wait for a lapse.
THEOREM WhitelistNoDeadlock ==
    ASSUME NoneIsNoTask PROVE G!Spec => []G!SomebodyGoesOn
<1>1. WhitelistInv => G!SomebodyGoesOn
  BY InvMeansSomebodyGoesOn
<1> QED
  BY <1>1, WhitelistInvariance, PTL

-----------------------------------------------------------------------------
(* MediaGroups, by its own names of the slots *)

pushed == v1
recent == v2
flusher == v3
expiry == v4
tick == v5
update == v6
albums == v7
troubles == v8

USE DEF pushed, recent, flusher, expiry, tick, update, albums, troubles

AlbumUsual ==
    /\ Items # {} /\ Items \subseteq Int /\ IsFiniteSet(Items)
    /\ None \notin Int /\ FlushDelay \in Nat /\ LastTick \in Nat

AlbumSteps == {"new", "push", "lock", "last", "clock", "sleep", "group", "handle", "delete", "release", "done"}

AlbumUpdates == [pc : AlbumSteps, time : Int, album : Seq(Items)]

\* The items that are in the list, or were.
Pushed == {i \in Items : update[i].pc \notin {"new", "push"}}

AlbumAt(i, S) == update[i].pc \in S

Flushing == {"last", "clock", "sleep", "group", "handle"}

AlbumTyped ==
    /\ pushed \in Seq(Items)
    /\ recent \in {None} \cup 0 .. LastTick
    /\ recent = None <=> pushed = <<>>
    /\ flusher \in {None} \cup Items
    /\ tick \in 0 .. LastTick
    /\ update \in [Items -> AlbumUpdates]
    /\ \A i \in Items : AlbumAt(i, {"push"}) => update[i].time \in 0 .. LastTick
    /\ albums \in Seq(Seq(Items))
    /\ troubles \in SUBSET {"slow", "pause", "lapse", "crash"}

\* Who flushes has the lock.
OneFlusher ==
    "lapse" \notin troubles =>
        \A i \in Items : AlbumAt(i, Flushing \cup {"delete", "release"}) => flusher = i

ListIsPushed == Album!ToSet(pushed) \subseteq Pushed

\* What the handler has returned from is deleted before more is handled.
Apart ==
    troubles \cap {"crash", "lapse"} = {} =>
        /\ \A m \in DOMAIN albums :
            /\ Album!ToSet(albums[m]) \subseteq Pushed
            /\ m = Len(albums) => (\E i \in Items : AlbumAt(i, {"delete"})) \/ Album!ToSet(albums[m]) \cap Album!ToSet(pushed) = {}
            /\ m # Len(albums) => Album!ToSet(albums[m]) \cap Album!ToSet(pushed) = {}
            /\ \A n \in DOMAIN albums : m # n => Album!ToSet(albums[m]) \cap Album!ToSet(albums[n]) = {}
        /\ \A i \in Items : AlbumAt(i, {"handle"}) => Album!ToSet(update[i].album) \subseteq Album!ToSet(pushed)

\* Before the album is handled ...
Gathering ==
    /\ Album!ToSet(pushed) = Pushed
    /\ \A i \in Items : ~AlbumAt(i, {"release", "delete"})
    /\ flusher # None => AlbumAt(flusher, Flushing)
    /\ Pushed # {} => \E i \in Items : AlbumAt(i, Flushing \cup {"lock"})

\* ... and afterwards.
Gathered ==
    /\ albums = <<Album!InOrder(Pushed)>>
    /\ \A i \in Items : ~AlbumAt(i, {"clock", "sleep", "group", "handle"})
    /\ pushed = <<>> \/ \E i \in Items : AlbumAt(i, {"delete"})

\* After this one an item would have been late.
Quiet == recent # None /\ tick >= recent + FlushDelay

\* What an update knows of the time is so as long as no time passes.
Timely(i) ==
    /\ AlbumAt(i, {"push"}) => update[i].time = tick
    /\ AlbumAt(i, {"group", "handle"}) => Quiet
    /\ AlbumAt(i, {"clock"}) => recent # None /\ (tick - update[i].time >= FlushDelay => recent = update[i].time)
    /\ AlbumAt(i, {"handle"}) => update[i].album = Album!InOrder(Pushed)

Whole ==
    troubles = {} =>
        /\ albums = <<>> => Gathering
        /\ albums # <<>> => Gathered
        /\ \A i \in Items : Timely(i)

AlbumInv == AlbumTyped /\ OneFlusher /\ ListIsPushed /\ Apart /\ Whole

-----------------------------------------------------------------------------

\* MediaGroups counts as everybody does.
LEMMA AlbumCardinality ==
    ASSUME NEW S PROVE Album!Cardinality(S) = Cardinality(S)
BY DEF Album!Cardinality, Cardinality, Album!IsFiniteSet, IsFiniteSet

\* A finite set of numbers is sorted by how many of it are smaller.
LEMMA Sorted ==
    ASSUME NEW S, S \subseteq Int, IsFiniteSet(S)
    PROVE  \E s \in Album!SetToSeqs(S) : \A m, n \in DOMAIN s : m < n => s[m] < s[n]
<1> DEFINE N == Cardinality(S)
           Below(x) == {y \in S : y < x}
           rank == [x \in S |-> Cardinality(Below(x)) + 1]
           s == [k \in 1 .. N |-> CHOOSE x \in S : rank[x] = k]
<1>1. N \in Nat
  BY FS_CardinalityType
<1>2. \A x, y \in S : x < y => Cardinality(Below(x)) < Cardinality(Below(y))
  <2> TAKE x, y \in S
  <2> HAVE x < y
  <2>1. Below(x) \subseteq Below(y) /\ x \in Below(y) /\ x \notin Below(x)
    <3>1. x \in Int /\ y \in Int /\ \A z \in S : z \in Int
      OBVIOUS
    <3>2. \A z \in Int : z < x => z < y
      BY <3>1
    <3>3. x < y /\ ~ (x < x)
      BY <3>1
    <3> QED
      BY <3>1, <3>2, <3>3
  <2>2. IsFiniteSet(Below(y)) /\ IsFiniteSet(Below(x))
    BY FS_Subset
  <2>3. /\ Cardinality(Below(x)) <= Cardinality(Below(y))
        /\ Cardinality(Below(x)) = Cardinality(Below(y)) => Below(x) = Below(y)
    BY <2>1, <2>2, FS_Subset
  <2>4. Cardinality(Below(x)) # Cardinality(Below(y))
    BY <2>1, <2>3
  <2>5. Cardinality(Below(x)) \in Nat /\ Cardinality(Below(y)) \in Nat
    BY <2>2, FS_CardinalityType
  <2> HIDE DEF Below
  <2> QED
    BY <2>3, <2>4, <2>5
<1>3. \A x \in S : Cardinality(Below(x)) \in Nat /\ Cardinality(Below(x)) < N
  <2> TAKE x \in S
  <2>1. Below(x) \subseteq S /\ x \notin Below(x)
    OBVIOUS
  <2>2. IsFiniteSet(Below(x)) /\ Cardinality(Below(x)) <= N /\ Cardinality(Below(x)) # N
    BY <2>1, FS_Subset
  <2>3. Cardinality(Below(x)) \in Nat
    BY <2>2, FS_CardinalityType
  <2> HIDE DEF Below, N
  <2> QED
    BY <2>2, <2>3, <1>1
<1> HIDE DEF Below, N
<1>4. rank \in [S -> 1 .. N] /\ \A x, y \in S : x # y => rank[x] # rank[y]
  <2>1. rank \in [S -> 1 .. N]
    BY <1>1, <1>3
  <2>2. ASSUME NEW x \in S, NEW y \in S, x # y PROVE rank[x] # rank[y]
    <3>1. x \in Int /\ y \in Int
      OBVIOUS
    <3>2. Cardinality(Below(x)) # Cardinality(Below(y))
      BY <1>2, <1>3, <2>2, <3>1
    <3> QED
      BY <3>2, <1>3
  <2> QED
    BY <2>1, <2>2
<1>5. \A k \in 1 .. N : \E x \in S : rank[x] = k
  <2>1. rank \in Injection(S, 1 .. N)
    BY <1>4 DEF Injection, IsInjective
  <2>2. IsFiniteSet(1 .. N) /\ Cardinality(1 .. N) = N
    BY <1>1, FS_Interval
  <2>3. rank \in Surjection(S, 1 .. N)
    BY <2>1, <2>2, FS_Injection DEF N
  <2> QED
    BY <2>3 DEF Surjection
<1>6. \A k \in 1 .. N : s[k] \in S /\ rank[s[k]] = k
  BY <1>5
<1>7. s \in [1 .. N -> S]
  BY <1>6
<1>8. \A k, l \in 1 .. N : k # l => s[k] # s[l]
  BY <1>6
<1>9. \A k, l \in 1 .. N : k < l => s[k] < s[l]
  <2> SUFFICES ASSUME NEW k \in 1 .. N, NEW l \in 1 .. N, k < l, ~ (s[k] < s[l]) PROVE FALSE
    OBVIOUS
  <2>1. k # l
    OBVIOUS
  <2>2. s[k] \in Int /\ s[l] \in Int /\ s[k] # s[l] /\ rank[s[k]] = k /\ rank[s[l]] = l
    <3> HIDE DEF s, rank
    <3> QED
      BY <2>1, <1>6, <1>8
  <2>3. s[l] < s[k]
    BY <2>2
  <2>4. Cardinality(Below(s[l])) < Cardinality(Below(s[k]))
    BY <2>3, <1>2, <1>6
  <2>5. rank[s[l]] = Cardinality(Below(s[l])) + 1 /\ rank[s[k]] = Cardinality(Below(s[k])) + 1
    BY <1>6
  <2> HIDE DEF rank, s
  <2>6. Cardinality(Below(s[l])) \in Nat /\ Cardinality(Below(s[k])) \in Nat
    BY <1>3, <1>6
  <2> QED
    BY <2>2, <2>4, <2>5, <2>6
<1> HIDE DEF s
<1>10. s \in Album!SetToSeqs(S)
  BY <1>7, <1>8, AlbumCardinality DEF Album!SetToSeqs, N
<1> QED
  BY <1>7, <1>9, <1>10

\* What InOrder returns.
LEMMA InOrderIs ==
    ASSUME NEW S, S \subseteq Int, IsFiniteSet(S)
    PROVE  Album!InOrder(S) \in Seq(S)
<1>1. Album!InOrder(S) \in Album!SetToSeqs(S)
  BY Sorted DEF Album!InOrder
<1>2. Album!InOrder(S) \in [1 .. Cardinality(S) -> S] /\ Cardinality(S) \in Nat
  BY <1>1, AlbumCardinality, FS_CardinalityType DEF Album!SetToSeqs
<1> QED
  BY <1>2

\* The items of a list with one more.
LEMMA Appended ==
    ASSUME NEW s \in Seq(Items), NEW i \in Items
    PROVE  Album!ToSet(Append(s, i)) = Album!ToSet(s) \cup {i} /\ Append(s, i) \in Seq(Items) /\ Append(s, i) # <<>>
<1>1. /\ Len(s) \in Nat /\ DOMAIN s = 1 .. Len(s) /\ DOMAIN Append(s, i) = 1 .. Len(s) + 1
      /\ \A k \in 1 .. Len(s) : Append(s, i)[k] = s[k]
      /\ Append(s, i)[Len(s) + 1] = i
      /\ Append(s, i) \in Seq(Items) /\ Len(Append(s, i)) # Len(<<>>)
  OBVIOUS
<1>2. 1 .. Len(s) + 1 = 1 .. Len(s) \cup {Len(s) + 1}
  BY <1>1
<1> QED
  BY <1>1, <1>2 DEF Album!ToSet

\* What is in a list of items are items.
LEMMA Sequenced ==
    ASSUME NEW s \in Seq(Items)
    PROVE  Album!ToSet(s) \subseteq Items
BY DEF Album!ToSet

\* Records of updates.
LEMMA AlbumSets ==
    ASSUME AlbumTyped, NEW i \in Items, NEW s \in AlbumSteps, NEW n \in Int,
           update' = [update EXCEPT ![i].pc = s, ![i].time = n]
    PROVE  /\ update' \in [Items -> AlbumUpdates]
           /\ update'[i] = [pc |-> s, time |-> n, album |-> update[i].album]
           /\ \A j \in Items \ {i} : update'[j] = update[j]
<1>1. update \in [Items -> AlbumUpdates]
  BY DEF AlbumTyped
<1> PICK new : new = [update[i] EXCEPT !.pc = s, !.time = n]
  OBVIOUS
<1>2. new = [pc |-> s, time |-> n, album |-> update[i].album]
  BY <1>1 DEF AlbumUpdates
<1>3. new \in AlbumUpdates
  BY <1>1, <1>2 DEF AlbumUpdates
<1>4. update' = [update EXCEPT ![i] = new]
  BY <1>1
<1>5. update'[i] = new /\ \A j \in Items \ {i} : update'[j] = update[j]
  BY <1>1, <1>4
<1>6. update' \in [Items -> AlbumUpdates]
  BY <1>1, <1>3, <1>4
<1> QED
  BY <1>2, <1>5, <1>6

\* An update goes on.
LEMMA AlbumGoes ==
    ASSUME AlbumTyped, NEW i \in Items, NEW s \in AlbumSteps, Album!Go(i, s)
    PROVE  /\ update' \in [Items -> AlbumUpdates]
           /\ update'[i] = [pc |-> s, time |-> 0, album |-> update[i].album]
           /\ \A j \in Items \ {i} : update'[j] = update[j]
<1>1. update' = [update EXCEPT ![i].pc = s, ![i].time = 0] /\ 0 \in Int
  BY DEF Album!Go
<1> QED
  BY <1>1, AlbumSets, Zenon

\* The list in Redis is a finite set of items.
LEMMA ListFinite ==
    ASSUME AlbumUsual, AlbumTyped
    PROVE  /\ Album!ToSet(pushed) \subseteq Items /\ Album!ToSet(pushed) \subseteq Int /\ IsFiniteSet(Album!ToSet(pushed))
           /\ \A s \in Seq(Items) : Album!ToSet(s) \subseteq Items
           /\ pushed # <<>> <=> Album!ToSet(pushed) # {}
<1>1. \A s \in Seq(Items) : Album!ToSet(s) \subseteq Items
  BY Sequenced
<1>2. IsFiniteSet(Album!ToSet(pushed))
  BY <1>1, FS_Subset DEF AlbumUsual, AlbumTyped
<1>3. pushed # <<>> <=> Album!ToSet(pushed) # {}
  <2>1. /\ Len(pushed) \in Nat /\ DOMAIN pushed = 1 .. Len(pushed)
        /\ pushed = <<>> <=> Len(pushed) = 0
    BY DEF AlbumTyped
  <2> QED
    BY <2>1 DEF Album!ToSet
<1> QED
  BY <1>1, <1>2, <1>3 DEF AlbumUsual, AlbumTyped

\* The invariant of MediaGroups holds at the beginning.
LEMMA AlbumBegins ==
    ASSUME AlbumUsual, Album!Init PROVE AlbumInv
<1>1. AlbumTyped
  BY DEF Album!Init, AlbumUsual, AlbumTyped, AlbumSteps, AlbumAt, AlbumUpdates
<1>2. OneFlusher /\ ListIsPushed
  BY DEF Album!Init, OneFlusher, ListIsPushed, AlbumAt, Flushing, Pushed, Album!ToSet
<1>3. Apart
  BY DEF Album!Init, Apart, AlbumAt
<1>4. Gathering
  BY DEF Album!Init, Gathering, Pushed, Album!ToSet, AlbumAt
<1> QED
  BY <1>1, <1>2, <1>3, <1>4 DEF Album!Init, Whole, Timely, AlbumAt, AlbumInv

\* The update of an item arrives.
LEMMA ArriveKeeps ==
    ASSUME AlbumUsual, AlbumInv, NEW i \in Items, Album!Arrive(i) PROVE AlbumInv'
<1> USE DEF AlbumInv
<1>1. /\ update' \in [Items -> AlbumUpdates]
      /\ update[i].pc = "new" /\ update'[i].pc = "push" /\ update'[i].time = tick
      /\ \A j \in Items \ {i} : update'[j] = update[j]
      /\ UNCHANGED <<pushed, recent, flusher, expiry, tick, albums, troubles>>
  <2>1. "push" \in AlbumSteps /\ tick \in Int
    BY DEF AlbumSteps, AlbumTyped, AlbumUsual
  <2>2. update' = [update EXCEPT ![i].pc = "push", ![i].time = tick]
    BY DEF Album!Arrive
  <2>3. /\ update' \in [Items -> AlbumUpdates]
        /\ update'[i] = [pc |-> "push", time |-> tick, album |-> update[i].album]
        /\ \A j \in Items \ {i} : update'[j] = update[j]
    BY <2>1, <2>2, AlbumSets, Zenon
  <2> QED
    BY <2>3 DEF Album!Arrive
<1>2. Pushed' = Pushed
  BY <1>1 DEF Pushed
<1>3. \A j \in Items : \A S \in SUBSET (AlbumSteps \ {"new", "push"}) : AlbumAt(j, S)' <=> AlbumAt(j, S)
  BY <1>1 DEF AlbumAt
<1>4. AlbumTyped'
  BY <1>1 DEF AlbumTyped, AlbumAt
<1>5. OneFlusher'
  BY <1>1 DEF OneFlusher, AlbumAt, Flushing
<1>6. ListIsPushed'
  BY <1>1, <1>2 DEF ListIsPushed
<1>7. Apart'
  BY <1>1, <1>2 DEF Apart, AlbumAt
<1>8. ASSUME troubles' = {}, albums' = <<>> PROVE Gathering'
  <2>1. Gathering
    BY <1>1, <1>8 DEF Whole
  <2>2. ASSUME NEW j \in Items, AlbumAt(j, Flushing \cup {"lock"}) PROVE AlbumAt(j, Flushing \cup {"lock"})'
    BY <1>1, <2>2 DEF AlbumAt, Flushing
  <2>3. flusher' # None => AlbumAt(flusher, Flushing)'
    BY <1>1, <2>1, <2>2 DEF Gathering, AlbumAt, Flushing, AlbumTyped
  <2>4. \A j \in Items : ~AlbumAt(j, {"release", "delete"})'
    BY <1>1, <2>1 DEF Gathering, AlbumAt
  <2> QED
    BY <1>1, <1>2, <2>1, <2>2, <2>3, <2>4 DEF Gathering
<1>9. ASSUME troubles' = {}, albums' # <<>> PROVE Gathered'
  <2>1. Gathered
    BY <1>1, <1>9 DEF Whole
  <2> QED
    BY <1>1, <1>2, <2>1 DEF Gathered, AlbumAt
<1>10. Whole'
  <2>1. ASSUME troubles' = {}, NEW j \in Items PROVE Timely(j)'
    BY <1>1, <1>2, <2>1 DEF Whole, Timely, AlbumAt, Quiet
  <2> QED
    BY <1>8, <1>9, <2>1 DEF Whole
<1> QED
  BY <1>4, <1>5, <1>6, <1>7, <1>10

\* It pushes its item, and writes when.
LEMMA PushKeeps ==
    ASSUME AlbumUsual, AlbumInv, NEW i \in Items, Album!Push(i) PROVE AlbumInv'
<1> USE DEF AlbumInv
<1>1. /\ update' \in [Items -> AlbumUpdates]
      /\ update[i].pc = "push" /\ update'[i].pc = "lock"
      /\ \A j \in Items \ {i} : update'[j] = update[j]
      /\ pushed' = Append(pushed, i) /\ recent' = update[i].time /\ recent' \in 0 .. LastTick
      /\ UNCHANGED <<flusher, expiry, tick, albums>>
      /\ troubles \subseteq troubles' /\ troubles' \in SUBSET {"slow", "pause", "lapse", "crash"}
      /\ "crash" \in troubles' <=> "crash" \in troubles
      /\ "lapse" \in troubles' <=> "lapse" \in troubles
      /\ troubles' = {} => albums = <<>> /\ (recent # None => ~ (tick >= recent + FlushDelay))
  <2>1. "lock" \in AlbumSteps
    BY DEF AlbumSteps
  <2>2. update[i].pc = "push" /\ Album!Go(i, "lock")
    BY DEF Album!Push
  <2>3. update[i].time \in 0 .. LastTick
    BY <2>2 DEF AlbumTyped, AlbumAt
  <2>4. /\ troubles \subseteq troubles' /\ troubles' \in SUBSET {"slow", "pause", "lapse", "crash"}
        /\ "crash" \in troubles' <=> "crash" \in troubles
        /\ "lapse" \in troubles' <=> "lapse" \in troubles
        /\ troubles' = {} => albums = <<>> /\ (recent # None => ~ (tick >= recent + FlushDelay))
    BY DEF Album!Push, AlbumTyped
  <2> QED
    <3>1. /\ update' \in [Items -> AlbumUpdates]
          /\ update'[i] = [pc |-> "lock", time |-> 0, album |-> update[i].album]
          /\ \A j \in Items \ {i} : update'[j] = update[j]
      BY <2>1, <2>2, AlbumGoes, Zenon
    <3> QED
      BY <2>2, <2>3, <2>4, <3>1 DEF Album!Push
<1>2. Pushed' = Pushed \cup {i} /\ i \notin Pushed
  BY <1>1 DEF Pushed
<1>3. Album!ToSet(pushed') = Album!ToSet(pushed) \cup {i} /\ pushed' \in Seq(Items) /\ pushed' # <<>>
  BY <1>1, Appended DEF AlbumTyped
<1>4. AlbumTyped'
  BY <1>1, <1>3 DEF AlbumTyped, AlbumAt, AlbumUsual
<1>5. OneFlusher'
  BY <1>1 DEF OneFlusher, AlbumAt, Flushing
<1>6. ListIsPushed'
  BY <1>2, <1>3 DEF ListIsPushed
<1>7. Apart'
  <2> SUFFICES ASSUME troubles' \cap {"crash", "lapse"} = {}
               PROVE  /\ \A m \in DOMAIN albums :
                            /\ Album!ToSet(albums[m]) \subseteq Pushed'
                            /\ m = Len(albums) =>
                                 (\E j \in Items : AlbumAt(j, {"delete"})') \/ Album!ToSet(albums[m]) \cap Album!ToSet(pushed') = {}
                            /\ m # Len(albums) => Album!ToSet(albums[m]) \cap Album!ToSet(pushed') = {}
                            /\ \A n \in DOMAIN albums : m # n => Album!ToSet(albums[m]) \cap Album!ToSet(albums[n]) = {}
                      /\ \A j \in Items : AlbumAt(j, {"handle"})' => Album!ToSet(update'[j].album) \subseteq Album!ToSet(pushed')
    BY <1>1 DEF Apart
  <2>1. troubles \cap {"crash", "lapse"} = {}
    BY <1>1
  <2>2. \A j \in Items : AlbumAt(j, {"delete"}) => AlbumAt(j, {"delete"})'
    BY <1>1 DEF AlbumAt
  <2>3. \A j \in Items : AlbumAt(j, {"handle"})' => j # i /\ update'[j] = update[j] /\ AlbumAt(j, {"handle"})
    BY <1>1 DEF AlbumAt
  <2> QED
    BY <2>1, <2>2, <2>3, <1>2, <1>3 DEF Apart
<1>8. ASSUME troubles' = {} PROVE Whole'
  <2>1. albums = <<>> /\ albums' = <<>> /\ Gathering
    BY <1>1, <1>8 DEF Whole
  <2>2. Gathering'
    <3>1. \A j \in Items : ~AlbumAt(j, {"release", "delete"})'
      BY <1>1, <2>1 DEF Gathering, AlbumAt
    <3>2. flusher' # None => AlbumAt(flusher, Flushing)'
      BY <1>1, <2>1 DEF Gathering, AlbumAt, Flushing, AlbumTyped
    <3>3. AlbumAt(i, Flushing \cup {"lock"})'
      BY <1>1 DEF AlbumAt
    <3> QED
      BY <1>2, <1>3, <2>1, <3>1, <3>2, <3>3 DEF Gathering
  <2>3. update[i].time = tick /\ tick \in Nat
    BY <1>1, <1>8 DEF Whole, Timely, AlbumAt, AlbumTyped, AlbumUsual
  <2>4. ASSUME NEW j \in Items PROVE Timely(j)'
    <3>1. CASE j = i
      BY <3>1, <1>1 DEF Timely, AlbumAt
    <3>2. CASE j # i
      <4>1. update'[j] = update[j] /\ troubles = {}
        BY <3>2, <1>1, <1>8
      <4>2. ~AlbumAt(j, {"group", "handle"})
        BY <1>1, <1>8, <4>1 DEF Whole, Timely, Quiet
      <4>3. AlbumAt(j, {"clock"}) => recent # None /\ ~ (tick - update[j].time >= FlushDelay)
        <5>1. SUFFICES ASSUME AlbumAt(j, {"clock"}), tick - update[j].time >= FlushDelay PROVE FALSE
          BY <4>1 DEF Whole, Timely
        <5>2. recent # None /\ recent = update[j].time /\ recent \in 0 .. LastTick
          BY <5>1, <4>1 DEF Whole, Timely, AlbumTyped
        <5> QED
          BY <5>1, <5>2, <1>1, <1>8, <2>3 DEF AlbumUsual
      <4>4. recent' # None
        BY <1>1 DEF AlbumUsual
      <4>5. AlbumAt(j, {"push"}) => update[j].time = tick
        BY <4>1 DEF Whole, Timely
      <4> QED
        BY <1>1, <4>1, <4>2, <4>3, <4>4, <4>5 DEF Timely, AlbumAt
    <3> QED
      BY <3>1, <3>2
  <2> QED
    BY <2>1, <2>2, <2>4 DEF Whole, Timely
<1>9. Whole'
  BY <1>8 DEF Whole, Timely
<1> QED
  BY <1>4, <1>5, <1>6, <1>7, <1>9

\* An update goes on behind the push.
LEMMA AlbumMoves ==
    ASSUME AlbumUsual, AlbumInv, NEW i \in Items,
           update' \in [Items -> AlbumUpdates], \A j \in Items \ {i} : update'[j] = update[j],
           update[i].pc \notin {"new", "push", "delete"},
           update'[i].pc \notin {"new", "push", "delete"},
           update'[i].pc = "handle" => Album!ToSet(update'[i].album) \subseteq Album!ToSet(pushed),
           flusher' \in {None} \cup Items,
           UNCHANGED <<pushed, recent, tick, albums, troubles>>
    PROVE  /\ AlbumTyped' /\ Pushed' = Pushed /\ ListIsPushed' /\ Apart'
           /\ troubles' = {} => \A j \in Items \ {i} : Timely(j)'
<1> USE DEF AlbumInv
<1>1. Pushed' = Pushed
  BY DEF Pushed
<1>2. AlbumTyped'
  BY DEF AlbumTyped, AlbumAt
<1>3. ListIsPushed'
  BY <1>1 DEF ListIsPushed
<1>4. \A j \in Items : AlbumAt(j, {"delete"}) => AlbumAt(j, {"delete"})'
  BY DEF AlbumAt
<1>5. ASSUME NEW j \in Items, AlbumAt(j, {"handle"})'
      PROVE  \/ Album!ToSet(update'[j].album) \subseteq Album!ToSet(pushed)
             \/ AlbumAt(j, {"handle"}) /\ update'[j] = update[j]
  <2>1. CASE j = i
    BY <1>5, <2>1 DEF AlbumAt
  <2>2. CASE j # i
    BY <1>5, <2>2 DEF AlbumAt
  <2> QED
    BY <2>1, <2>2
<1>6. Apart'
  BY <1>1, <1>4, <1>5 DEF Apart
<1>7. ASSUME troubles' = {}, NEW j \in Items \ {i} PROVE Timely(j)'
  BY <1>1, <1>7 DEF Whole, Timely, AlbumAt, Quiet
<1> QED
  BY <1>1, <1>2, <1>3, <1>6, <1>7

\* While it flushes, nobody else does.
LEMMA AlbumAlone ==
    ASSUME AlbumInv, "lapse" \notin troubles, NEW i \in Items, flusher = i \/ AlbumAt(i, Flushing \cup {"delete", "release"})
    PROVE  \A j \in Items \ {i} : ~AlbumAt(j, Flushing \cup {"delete", "release"})
BY DEF AlbumInv, OneFlusher

\* The flusher goes on among its steps.
LEMMA FlusherMoves ==
    ASSUME AlbumUsual, AlbumInv, NEW i \in Items,
           update' \in [Items -> AlbumUpdates], \A j \in Items \ {i} : update'[j] = update[j],
           AlbumAt(i, Flushing), update'[i].pc \in Flushing,
           update'[i].pc = "handle" => Album!ToSet(update'[i].album) \subseteq Album!ToSet(pushed),
           UNCHANGED <<pushed, recent, flusher, tick, albums, troubles>>,
           troubles = {} => Timely(i)' /\ (albums # <<>> => update'[i].pc = "last")
    PROVE  AlbumInv'
<1> USE DEF AlbumInv
<1>1. /\ AlbumTyped' /\ Pushed' = Pushed /\ ListIsPushed' /\ Apart'
      /\ troubles' = {} => \A j \in Items \ {i} : Timely(j)'
  <2>1. update[i].pc \notin {"new", "push", "delete"} /\ update'[i].pc \notin {"new", "push", "delete"}
    BY DEF AlbumAt, Flushing
  <2>2. flusher' \in {None} \cup Items
    BY DEF AlbumTyped
  <2> QED
    BY <2>1, <2>2, AlbumMoves
<1>2. OneFlusher'
  BY DEF OneFlusher, AlbumAt
<1>3. ASSUME troubles' = {}, albums' = <<>> PROVE Gathering'
  <2>1. Gathering
    BY <1>3 DEF Whole
  <2>2. \A j \in Items : ~AlbumAt(j, {"release", "delete"})'
    BY <2>1 DEF Gathering, AlbumAt, Flushing
  <2>3. flusher' # None => AlbumAt(flusher, Flushing)'
    BY <2>1 DEF Gathering, AlbumAt, AlbumTyped
  <2>4. AlbumAt(i, Flushing \cup {"lock"})'
    BY DEF AlbumAt
  <2> QED
    BY <1>1, <2>1, <2>2, <2>3, <2>4 DEF Gathering
<1>4. ASSUME troubles' = {}, albums' # <<>> PROVE Gathered'
  <2>1. Gathered
    BY <1>4 DEF Whole
  <2>2. \A j \in Items : ~AlbumAt(j, {"clock", "sleep", "group", "handle"})'
    BY <1>4, <2>1 DEF Gathered, AlbumAt
  <2>3. \A j \in Items : AlbumAt(j, {"delete"}) => AlbumAt(j, {"delete"})'
    BY DEF AlbumAt, Flushing
  <2> QED
    BY <1>1, <2>1, <2>2, <2>3 DEF Gathered
<1> QED
  BY <1>1, <1>2, <1>3, <1>4 DEF Whole

\* It tries to become the one that flushes.
LEMMA LockKeeps ==
    ASSUME AlbumUsual, AlbumInv, NEW i \in Items, Album!Lock(i) PROVE AlbumInv'
<1> USE DEF AlbumInv
<1>1. update[i].pc = "lock" /\ UNCHANGED <<pushed, recent, tick, albums, troubles>>
  BY DEF Album!Lock
<1>2. \A j \in Items : j # None
  BY DEF AlbumUsual
<1>3. CASE flusher = None
  <2>1. flusher' = i /\ Album!Go(i, "last") /\ "last" \in AlbumSteps
    BY <1>3 DEF Album!Lock, AlbumSteps
  <2>2. /\ update' \in [Items -> AlbumUpdates] /\ \A j \in Items \ {i} : update'[j] = update[j]
        /\ update'[i] = [pc |-> "last", time |-> 0, album |-> update[i].album]
    BY <2>1, AlbumGoes, Zenon
  <2>3. /\ AlbumTyped' /\ Pushed' = Pushed /\ ListIsPushed' /\ Apart'
        /\ troubles' = {} => \A j \in Items \ {i} : Timely(j)'
    BY <1>1, <2>1, <2>2, AlbumMoves
  <2>4. OneFlusher'
    BY <1>1, <1>2, <1>3, <2>1, <2>2 DEF OneFlusher, AlbumAt
  <2>5. Timely(i)'
    BY <2>2 DEF Timely, AlbumAt
  <2>6. ASSUME troubles' = {}, albums' = <<>> PROVE Gathering'
    <3>1. Gathering
      BY <1>1, <2>6 DEF Whole
    <3>2. AlbumAt(i, Flushing)'
      BY <2>2 DEF AlbumAt, Flushing
    <3>3. \A j \in Items : ~AlbumAt(j, {"release", "delete"})'
      BY <2>2, <3>1 DEF Gathering, AlbumAt
    <3> QED
      BY <1>1, <2>1, <2>3, <3>1, <3>2, <3>3 DEF Gathering, AlbumAt
  <2>7. ASSUME troubles' = {}, albums' # <<>> PROVE Gathered'
    <3>1. Gathered
      BY <1>1, <2>7 DEF Whole
    <3> QED
      BY <1>1, <2>2, <2>3, <3>1 DEF Gathered, AlbumAt
  <2> QED
    BY <2>3, <2>4, <2>5, <2>6, <2>7 DEF Whole
<1>4. CASE flusher # None
  <2>1. UNCHANGED flusher /\ Album!Go(i, "done") /\ "done" \in AlbumSteps
    BY <1>4 DEF Album!Lock, AlbumSteps
  <2>2. /\ update' \in [Items -> AlbumUpdates] /\ \A j \in Items \ {i} : update'[j] = update[j]
        /\ update'[i] = [pc |-> "done", time |-> 0, album |-> update[i].album]
    BY <2>1, AlbumGoes, Zenon
  <2>3. flusher' \in {None} \cup Items
    BY <2>1 DEF AlbumTyped
  <2>4. /\ AlbumTyped' /\ Pushed' = Pushed /\ ListIsPushed' /\ Apart'
        /\ troubles' = {} => \A j \in Items \ {i} : Timely(j)'
    BY <1>1, <2>2, <2>3, AlbumMoves
  <2>5. OneFlusher'
    BY <1>1, <2>1, <2>2 DEF OneFlusher, AlbumAt, Flushing
  <2>6. Timely(i)'
    BY <2>2 DEF Timely, AlbumAt
  <2>7. ASSUME troubles' = {}, albums' = <<>> PROVE Gathering'
    <3>1. Gathering
      BY <1>1, <2>7 DEF Whole
    <3>2. flusher \in Items /\ AlbumAt(flusher, Flushing)
      BY <1>4, <3>1 DEF Gathering, AlbumTyped
    <3>3. flusher # i
      BY <1>1, <3>2 DEF AlbumAt, Flushing
    <3>4. AlbumAt(flusher, Flushing)'
      BY <2>1, <2>2, <3>2, <3>3 DEF AlbumAt
    <3>5. \A j \in Items : ~AlbumAt(j, {"release", "delete"})'
      BY <2>2, <3>1 DEF Gathering, AlbumAt
    <3>6. AlbumAt(flusher, Flushing \cup {"lock"})'
      BY <3>4 DEF AlbumAt
    <3> QED
      BY <1>1, <2>1, <2>4, <3>1, <3>2, <3>4, <3>5, <3>6 DEF Gathering
  <2>8. ASSUME troubles' = {}, albums' # <<>> PROVE Gathered'
    <3>1. Gathered
      BY <1>1, <2>8 DEF Whole
    <3> QED
      BY <1>1, <2>2, <2>4, <3>1 DEF Gathered, AlbumAt
  <2> QED
    BY <2>4, <2>5, <2>6, <2>7, <2>8 DEF Whole
<1> QED
  BY <1>3, <1>4

\* Who looks at the list while it flushes finds its item there, unless the
\* album has been handled.
LEMMA FlusherFinds ==
    ASSUME AlbumUsual, AlbumInv, NEW i \in Items, AlbumAt(i, Flushing), troubles = {}, albums = <<>>
    PROVE  pushed # <<>> /\ recent # None /\ Album!ToSet(pushed) = Pushed
<1>1. i \in Pushed
  BY DEF Pushed, AlbumAt, Flushing
<1> QED
  BY <1>1, ListFinite DEF AlbumInv, Whole, Gathering, AlbumTyped

\* To give the lock back is to be done, or to be on the way there.
LEMMA AlbumGives ==
    ASSUME AlbumUsual, AlbumInv, NEW i \in Items,
           update' \in [Items -> AlbumUpdates], \A j \in Items \ {i} : update'[j] = update[j],
           AlbumAt(i, Flushing \cup {"release"}), update'[i].pc \in {"release", "done"},
           flusher' = flusher \/ (update'[i].pc = "done" /\ flusher' = None /\ flusher = i),
           UNCHANGED <<pushed, recent, tick, albums, troubles>>,
           albums # <<>> \/ troubles # {}
    PROVE  AlbumInv'
<1> USE DEF AlbumInv
<1>1. /\ AlbumTyped' /\ Pushed' = Pushed /\ ListIsPushed' /\ Apart'
      /\ troubles' = {} => \A j \in Items \ {i} : Timely(j)'
  <2>1. update[i].pc \notin {"new", "push", "delete"} /\ update'[i].pc \notin {"new", "push", "delete", "handle"}
    BY DEF AlbumAt, Flushing
  <2>2. flusher' \in {None} \cup Items
    BY DEF AlbumTyped
  <2> QED
    BY <2>1, <2>2, AlbumMoves
<1>2. OneFlusher'
  <2> SUFFICES ASSUME "lapse" \notin troubles', NEW j \in Items, AlbumAt(j, Flushing \cup {"delete", "release"})'
               PROVE  flusher' = j
    BY DEF OneFlusher
  <2>1. CASE j = i
    BY <2>1 DEF OneFlusher, AlbumAt, Flushing
  <2>2. CASE j # i
    <3>1. AlbumAt(j, Flushing \cup {"delete", "release"}) /\ AlbumAt(i, Flushing \cup {"delete", "release"})
      BY <2>2 DEF AlbumAt
    <3> QED
      BY <3>1, <2>2 DEF OneFlusher
  <2> QED
    BY <2>1, <2>2
<1>3. Timely(i)'
  BY DEF Timely, AlbumAt
<1>4. ASSUME troubles' = {} PROVE Gathered'
  <2>1. Gathered
    BY <1>4 DEF Whole
  <2>2. \A j \in Items : AlbumAt(j, {"delete"}) => AlbumAt(j, {"delete"})'
    BY DEF AlbumAt, Flushing
  <2> QED
    BY <1>1, <2>1, <2>2 DEF Gathered, AlbumAt
<1> QED
  BY <1>1, <1>2, <1>3, <1>4 DEF Whole

\* The flusher reads when the last item came.
LEMMA LastTimeKeeps ==
    ASSUME AlbumUsual, AlbumInv, NEW i \in Items, Album!LastTime(i) PROVE AlbumInv'
<1> USE DEF AlbumInv
<1>1. /\ update[i].pc = "last" /\ UNCHANGED <<pushed, recent, flusher, tick, albums, troubles>>
      /\ AlbumAt(i, Flushing) /\ AlbumAt(i, Flushing \cup {"release"})
  BY DEF Album!LastTime, AlbumAt, Flushing
<1>2. update \in [Items -> AlbumUpdates] /\ update[i] \in AlbumUpdates
  BY DEF AlbumTyped
<1>3. CASE recent = None
  <2>1. update' = [update EXCEPT ![i].pc = "release"] /\ "release" \in AlbumSteps
    BY <1>3 DEF Album!LastTime, AlbumSteps
  <2>2. /\ update' \in [Items -> AlbumUpdates] /\ \A j \in Items \ {i} : update'[j] = update[j]
        /\ update'[i].pc = "release"
    BY <2>1, <1>2 DEF AlbumUpdates
  <2>3. albums # <<>> \/ troubles # {}
    BY <1>1, <1>3, FlusherFinds
  <2> QED
    BY <1>1, <2>2, <2>3, AlbumGives
<1>4. CASE recent # None
  <2>1. /\ update' = [update EXCEPT ![i].pc = "clock", ![i].time = recent] /\ "clock" \in AlbumSteps
        /\ recent \in Int
    BY <1>4 DEF Album!LastTime, AlbumSteps, AlbumTyped
  <2>2. /\ update' \in [Items -> AlbumUpdates] /\ \A j \in Items \ {i} : update'[j] = update[j]
        /\ update'[i] = [pc |-> "clock", time |-> recent, album |-> update[i].album]
    BY <2>1, AlbumSets, Zenon
  <2>3. Timely(i)'
    BY <1>1, <1>4, <2>2 DEF Timely, AlbumAt
  <2>4. troubles = {} => albums = <<>>
    <3> SUFFICES ASSUME troubles = {}, albums # <<>> PROVE FALSE
      OBVIOUS
    <3>1. pushed = <<>> \/ \E j \in Items : AlbumAt(j, {"delete"})
      BY DEF Whole, Gathered
    <3>2. \A j \in Items : ~AlbumAt(j, {"delete"})
      BY <1>1, AlbumAlone DEF AlbumAt, Flushing
    <3> QED
      BY <3>1, <3>2, <1>4 DEF AlbumTyped
  <2>5. update'[i].pc \in Flushing /\ update'[i].pc # "handle"
    BY <2>2 DEF Flushing
  <2> QED
    BY <1>1, <2>2, <2>3, <2>4, <2>5, FlusherMoves
<1> QED
  BY <1>3, <1>4

\* It looks at the clock: it sleeps on, or flushes.
LEMMA ClockKeeps ==
    ASSUME AlbumUsual, AlbumInv, NEW i \in Items, Album!Clock(i) PROVE AlbumInv'
<1> USE DEF AlbumInv
<1>1. /\ update[i].pc = "clock" /\ UNCHANGED <<pushed, recent, flusher, tick, albums, troubles>>
      /\ AlbumAt(i, Flushing) /\ AlbumAt(i, {"clock"})
  BY DEF Album!Clock, AlbumAt, Flushing
<1>2. update[i] \in AlbumUpdates /\ update[i].time \in Int /\ tick \in Int /\ FlushDelay \in Int
  BY DEF AlbumTyped, AlbumUpdates, AlbumUsual
<1>3. troubles = {} => albums = <<>>
  BY <1>1 DEF Whole, Gathered, AlbumAt
<1>4. CASE tick - update[i].time >= FlushDelay
  <2>1. update' = [update EXCEPT ![i].pc = "group", ![i].time = 0] /\ "group" \in AlbumSteps /\ 0 \in Int
    BY <1>4 DEF Album!Clock, AlbumSteps
  <2>2. /\ update' \in [Items -> AlbumUpdates] /\ \A j \in Items \ {i} : update'[j] = update[j]
        /\ update'[i] = [pc |-> "group", time |-> 0, album |-> update[i].album]
    BY <2>1, AlbumSets, Zenon
  <2>3. troubles = {} => Quiet
    <3> SUFFICES ASSUME troubles = {} PROVE Quiet
      OBVIOUS
    <3>1. recent # None /\ recent = update[i].time
      BY <1>4, <1>1 DEF Whole, Timely
    <3> QED
      BY <3>1, <1>4, <1>2 DEF Quiet
  <2>4. troubles = {} => Timely(i)'
    BY <1>1, <2>2, <2>3 DEF Timely, AlbumAt, Quiet
  <2>5. update'[i].pc \in Flushing /\ update'[i].pc # "handle"
    BY <2>2 DEF Flushing
  <2> QED
    BY <1>1, <1>3, <2>2, <2>4, <2>5, FlusherMoves
<1>5. CASE ~ (tick - update[i].time >= FlushDelay)
  <2>1. /\ update' = [update EXCEPT ![i].pc = "sleep", ![i].time = @ + FlushDelay] /\ "sleep" \in AlbumSteps
        /\ update[i].time + FlushDelay \in Int
    BY <1>5, <1>2 DEF Album!Clock, AlbumSteps
  <2>2. update' = [update EXCEPT ![i].pc = "sleep", ![i].time = update[i].time + FlushDelay]
    <3>1. update \in [Items -> AlbumUpdates]
      BY DEF AlbumTyped
    <3> QED
      BY <2>1, <3>1 DEF AlbumUpdates
  <2>3. /\ update' \in [Items -> AlbumUpdates] /\ \A j \in Items \ {i} : update'[j] = update[j]
        /\ update'[i] = [pc |-> "sleep", time |-> update[i].time + FlushDelay, album |-> update[i].album]
    BY <2>1, <2>2, AlbumSets, Zenon
  <2>4. Timely(i)'
    BY <2>3 DEF Timely, AlbumAt
  <2>5. update'[i].pc \in Flushing /\ update'[i].pc # "handle"
    BY <2>3 DEF Flushing
  <2> QED
    BY <1>1, <1>3, <2>3, <2>4, <2>5, FlusherMoves
<1> QED
  BY <1>4, <1>5

\* It wakes up.
LEMMA WakeKeeps ==
    ASSUME AlbumUsual, AlbumInv, NEW i \in Items, Album!Wake(i) PROVE AlbumInv'
<1>1. /\ update[i].pc = "sleep" /\ UNCHANGED <<pushed, recent, flusher, tick, albums, troubles>>
      /\ AlbumAt(i, Flushing) /\ Album!Go(i, "last") /\ "last" \in AlbumSteps /\ AlbumTyped
  BY DEF Album!Wake, AlbumAt, Flushing, AlbumSteps, AlbumInv
<1>2. /\ update' \in [Items -> AlbumUpdates] /\ \A j \in Items \ {i} : update'[j] = update[j]
      /\ update'[i] = [pc |-> "last", time |-> 0, album |-> update[i].album]
  BY <1>1, AlbumGoes, Zenon
<1>3. Timely(i)'
  BY <1>2 DEF Timely, AlbumAt
<1>4. update'[i].pc \in Flushing /\ update'[i].pc = "last"
  BY <1>2 DEF Flushing
<1> QED
  BY <1>1, <1>2, <1>3, <1>4, FlusherMoves

\* It reads the list, and sorts what it holds.
LEMMA GroupKeeps ==
    ASSUME AlbumUsual, AlbumInv, NEW i \in Items, Album!Group(i) PROVE AlbumInv'
<1> USE DEF AlbumInv
<1>1. /\ update[i].pc = "group" /\ UNCHANGED <<pushed, recent, flusher, tick, albums, troubles>>
      /\ AlbumAt(i, Flushing) /\ AlbumAt(i, Flushing \cup {"release"}) /\ AlbumAt(i, {"group", "handle"})
      /\ AlbumAt(i, {"clock", "sleep", "group", "handle"})
  BY DEF Album!Group, AlbumAt, Flushing
<1>2. update \in [Items -> AlbumUpdates] /\ update[i] \in AlbumUpdates
  BY DEF AlbumTyped
<1>3. troubles = {} => albums = <<>> /\ Quiet
  BY <1>1 DEF Whole, Gathered, Timely
<1>4. CASE pushed = <<>>
  <2>1. update' = [update EXCEPT ![i].pc = "release"] /\ "release" \in AlbumSteps
    BY <1>4 DEF Album!Group, AlbumSteps
  <2>2. /\ update' \in [Items -> AlbumUpdates] /\ \A j \in Items \ {i} : update'[j] = update[j]
        /\ update'[i].pc = "release"
    BY <2>1, <1>2 DEF AlbumUpdates
  <2>3. albums # <<>> \/ troubles # {}
    BY <1>1, <1>4, FlusherFinds
  <2> QED
    BY <1>1, <2>2, <2>3, AlbumGives
<1>5. CASE pushed # <<>>
  <2> DEFINE album == Album!InOrder(Album!ToSet(pushed))
  <2>1. update' = [update EXCEPT ![i].pc = "handle", ![i].album = album] /\ "handle" \in AlbumSteps
    BY <1>5 DEF Album!Group, AlbumSteps
  <2>2. album \in Seq(Album!ToSet(pushed)) /\ Album!ToSet(pushed) \subseteq Items
    BY ListFinite, InOrderIs
  <2>3. album \in Seq(Items) /\ Album!ToSet(album) \subseteq Album!ToSet(pushed)
    BY <2>2 DEF Album!ToSet
  <2> HIDE DEF album
  <2>4. /\ update' \in [Items -> AlbumUpdates] /\ \A j \in Items \ {i} : update'[j] = update[j]
        /\ update'[i] = [pc |-> "handle", time |-> update[i].time, album |-> album]
    <3> PICK new : new = [update[i] EXCEPT !.pc = "handle", !.album = album]
      OBVIOUS
    <3>1. new = [pc |-> "handle", time |-> update[i].time, album |-> album]
      BY <1>2 DEF AlbumUpdates
    <3>2. new \in AlbumUpdates
      BY <1>2, <2>1, <2>3, <3>1 DEF AlbumUpdates
    <3>3. update' = [update EXCEPT ![i] = new]
      BY <1>2, <2>1
    <3> QED
      BY <1>2, <3>1, <3>2, <3>3
  <2>5. Pushed' = Pushed
    BY <1>1, <2>4 DEF Pushed
  <2>6. troubles = {} => album = Album!InOrder(Pushed)
    BY <1>1, <1>3, FlusherFinds DEF album
  <2>7. troubles = {} => Timely(i)'
    BY <1>1, <1>3, <2>4, <2>5, <2>6 DEF Timely, AlbumAt, Quiet
  <2>8. update'[i].pc \in Flushing
    BY <2>4 DEF Flushing
  <2>9. update'[i].pc = "handle" => Album!ToSet(update'[i].album) \subseteq Album!ToSet(pushed)
    BY <2>3, <2>4
  <2> QED
    BY <1>1, <1>3, <2>4, <2>7, <2>8, <2>9, FlusherMoves
<1> QED
  BY <1>4, <1>5

\* Its handler returns from the album.
LEMMA HandleKeeps ==
    ASSUME AlbumUsual, AlbumInv, NEW i \in Items, Album!Handle(i) PROVE AlbumInv'
<1> USE DEF AlbumInv
<1> DEFINE album == update[i].album
<1>1. /\ update[i].pc = "handle" /\ UNCHANGED <<pushed, recent, flusher, tick, troubles>>
      /\ albums' = Append(albums, album)
      /\ update' = [update EXCEPT ![i].pc = "delete", ![i].album = <<>>]
      /\ AlbumAt(i, Flushing \cup {"delete", "release"}) /\ AlbumAt(i, {"handle"}) /\ AlbumAt(i, {"group", "handle"})
      /\ AlbumAt(i, {"clock", "sleep", "group", "handle"}) /\ AlbumAt(i, Flushing)
  BY DEF Album!Handle, AlbumAt, Flushing
<1>2. update \in [Items -> AlbumUpdates] /\ update[i] \in AlbumUpdates /\ album \in Seq(Items)
  BY DEF AlbumTyped, AlbumUpdates
<1>3. /\ update' \in [Items -> AlbumUpdates] /\ \A j \in Items \ {i} : update'[j] = update[j]
      /\ update'[i] = [pc |-> "delete", time |-> update[i].time, album |-> <<>>]
  <2>1. "delete" \in AlbumSteps /\ <<>> \in Seq(Items)
    BY DEF AlbumSteps
  <2> PICK new : new = [update[i] EXCEPT !.pc = "delete", !.album = <<>>]
    OBVIOUS
  <2>2. new = [pc |-> "delete", time |-> update[i].time, album |-> <<>>]
    BY <1>2 DEF AlbumUpdates
  <2>3. new \in AlbumUpdates
    BY <1>2, <2>1, <2>2 DEF AlbumUpdates
  <2>4. update' = [update EXCEPT ![i] = new]
    BY <1>1, <1>2
  <2> QED
    BY <1>2, <2>2, <2>3, <2>4
<1> HIDE DEF album
<1>4. Pushed' = Pushed
  BY <1>1, <1>3 DEF Pushed
<1>5. /\ albums \in Seq(Seq(Items)) /\ Len(albums) \in Nat /\ DOMAIN albums = 1 .. Len(albums)
      /\ albums' \in Seq(Seq(Items)) /\ Len(albums') = Len(albums) + 1
      /\ DOMAIN albums' = 1 .. Len(albums) + 1
      /\ \A m \in DOMAIN albums : albums'[m] = albums[m]
      /\ albums'[Len(albums) + 1] = album
  BY <1>1, <1>2 DEF AlbumTyped
<1>6. AlbumTyped'
  BY <1>1, <1>3, <1>5 DEF AlbumTyped, AlbumAt
<1>7. OneFlusher'
  BY <1>1, <1>3 DEF OneFlusher, AlbumAt, Flushing
<1>8. ListIsPushed'
  BY <1>1, <1>4 DEF ListIsPushed
<1>9. AlbumAt(i, {"delete"})'
  BY <1>3 DEF AlbumAt
<1>10. Apart'
  <2> SUFFICES ASSUME troubles \cap {"crash", "lapse"} = {} PROVE Apart'
    BY <1>1 DEF Apart
  <2>1. \A j \in Items : ~AlbumAt(j, {"delete"})
    <3>1. \A j \in Items \ {i} : ~AlbumAt(j, Flushing \cup {"delete", "release"})
      BY <1>1, AlbumAlone
    <3>2. ~AlbumAt(i, {"delete"})
      BY <1>1 DEF AlbumAt
    <3> QED
      BY <3>1, <3>2 DEF AlbumAt
  <2>2. \A m \in DOMAIN albums : /\ Album!ToSet(albums[m]) \subseteq Pushed
                                 /\ Album!ToSet(albums[m]) \cap Album!ToSet(pushed) = {}
                                 /\ \A n \in DOMAIN albums : m # n => Album!ToSet(albums[m]) \cap Album!ToSet(albums[n]) = {}
    BY <2>1 DEF Apart
  <2>3. Album!ToSet(album) \subseteq Album!ToSet(pushed) /\ Album!ToSet(album) \subseteq Pushed
    BY <1>1 DEF Apart, ListIsPushed, album
  <2>4. \A m \in DOMAIN albums' : (m \in DOMAIN albums /\ m # Len(albums')) \/ m = Len(albums')
    BY <1>5
  <2>5. ASSUME NEW m \in DOMAIN albums'
        PROVE  /\ Album!ToSet(albums'[m]) \subseteq Pushed
               /\ m # Len(albums') => Album!ToSet(albums'[m]) \cap Album!ToSet(pushed) = {}
    BY <1>5, <2>2, <2>3, <2>4
  <2>6. ASSUME NEW m \in DOMAIN albums', NEW n \in DOMAIN albums', m # n
        PROVE  Album!ToSet(albums'[m]) \cap Album!ToSet(albums'[n]) = {}
    <3>1. CASE m \in DOMAIN albums /\ n \in DOMAIN albums
      BY <3>1, <2>6, <1>5, <2>2
    <3>2. CASE m = Len(albums') /\ n \in DOMAIN albums
      BY <3>2, <1>5, <2>2, <2>3
    <3>3. CASE m \in DOMAIN albums /\ n = Len(albums')
      BY <3>3, <1>5, <2>2, <2>3
    <3> QED
      BY <2>4, <2>6, <3>1, <3>2, <3>3
  <2>7. \A j \in Items : ~AlbumAt(j, {"handle"})'
    <3>1. \A j \in Items \ {i} : ~AlbumAt(j, Flushing \cup {"delete", "release"})
      BY <1>1, AlbumAlone
    <3>2. ~AlbumAt(i, {"handle"})'
      BY <1>3 DEF AlbumAt
    <3> QED
      BY <1>3, <3>1, <3>2 DEF AlbumAt, Flushing
  <2> QED
    BY <1>1, <1>4, <1>9, <2>5, <2>6, <2>7 DEF Apart
<1>11. ASSUME troubles' = {} PROVE Whole'
  <2>1. troubles = {} /\ albums = <<>> /\ album = Album!InOrder(Pushed)
    BY <1>1, <1>11 DEF Whole, Gathered, Timely, album
  <2>2. albums' = <<Album!InOrder(Pushed)>> /\ albums' # <<>>
    BY <2>1, <1>5, <1>1
  <2>3. \A j \in Items : ~AlbumAt(j, {"clock", "sleep", "group", "handle"})'
    <3>1. \A j \in Items \ {i} : ~AlbumAt(j, Flushing \cup {"delete", "release"})
      BY <1>1, <2>1, AlbumAlone
    <3> QED
      BY <3>1, <1>3 DEF AlbumAt, Flushing
  <2>4. Gathered'
    BY <1>4, <1>9, <2>2, <2>3 DEF Gathered
  <2>5. ASSUME NEW j \in Items PROVE Timely(j)'
    <3>1. CASE j = i
      BY <3>1, <1>3 DEF Timely, AlbumAt
    <3>2. CASE j # i
      BY <3>2, <1>1, <1>3, <1>4, <2>1 DEF Whole, Timely, AlbumAt, Quiet
    <3> QED
      BY <3>1, <3>2
  <2> QED
    BY <2>2, <2>4, <2>5 DEF Whole
<1> QED
  BY <1>6, <1>7, <1>8, <1>10, <1>11 DEF Whole

\* It deletes the list.
LEMMA DeleteKeeps ==
    ASSUME AlbumUsual, AlbumInv, NEW i \in Items, Album!Delete(i) PROVE AlbumInv'
<1> USE DEF AlbumInv
<1>1. /\ update[i].pc = "delete" /\ pushed' = <<>> /\ recent' = None /\ UNCHANGED <<flusher, tick, albums, troubles>>
      /\ Album!Go(i, "release") /\ "release" \in AlbumSteps /\ AlbumAt(i, {"release", "delete"})
      /\ AlbumAt(i, Flushing \cup {"delete", "release"}) /\ AlbumAt(i, {"delete"})
  BY DEF Album!Delete, AlbumSteps, AlbumAt
<1>2. /\ update' \in [Items -> AlbumUpdates] /\ \A j \in Items \ {i} : update'[j] = update[j]
      /\ update'[i] = [pc |-> "release", time |-> 0, album |-> update[i].album]
  BY <1>1, AlbumGoes, Zenon
<1>3. Pushed' = Pushed
  BY <1>1, <1>2 DEF Pushed
<1>4. Album!ToSet(pushed') = {} /\ pushed' \in Seq(Items)
  BY <1>1 DEF Album!ToSet
<1>5. AlbumTyped'
  BY <1>1, <1>2, <1>4 DEF AlbumTyped, AlbumAt
<1>6. OneFlusher'
  BY <1>1, <1>2 DEF OneFlusher, AlbumAt, Flushing
<1>7. ListIsPushed'
  BY <1>4 DEF ListIsPushed
<1>8. Apart'
  <2> SUFFICES ASSUME troubles \cap {"crash", "lapse"} = {} PROVE Apart'
    BY <1>1 DEF Apart
  <2>1. \A j \in Items : ~AlbumAt(j, {"handle"})'
    <3>1. \A j \in Items \ {i} : ~AlbumAt(j, Flushing \cup {"delete", "release"})
      BY <1>1, AlbumAlone
    <3> QED
      BY <1>2, <3>1 DEF AlbumAt, Flushing
  <2> QED
    BY <1>1, <1>3, <1>4, <2>1 DEF Apart
<1>9. ASSUME troubles' = {} PROVE Whole'
  <2>1. troubles = {} /\ albums' # <<>> /\ Gathered
    BY <1>1, <1>9 DEF Whole, Gathering
  <2>2. Gathered'
    BY <1>1, <1>2, <1>3, <2>1 DEF Gathered, AlbumAt
  <2>3. ASSUME NEW j \in Items PROVE Timely(j)'
    <3>1. CASE j = i
      BY <3>1, <1>2 DEF Timely, AlbumAt
    <3>2. CASE j # i
      <4>1. ~AlbumAt(j, {"clock", "sleep", "group", "handle"}) /\ update'[j] = update[j] /\ Timely(j)
        BY <3>2, <1>2, <2>1 DEF Gathered, Whole
      <4> QED
        BY <4>1, <1>1 DEF Timely, AlbumAt
    <3> QED
      BY <3>1, <3>2
  <2> QED
    BY <2>1, <2>2, <2>3 DEF Whole
<1> QED
  BY <1>5, <1>6, <1>7, <1>8, <1>9 DEF Whole

\* It deletes the lock, whoever holds it.
LEMMA AlbumReleaseKeeps ==
    ASSUME AlbumUsual, AlbumInv, NEW i \in Items, Album!Release(i) PROVE AlbumInv'
<1>1. /\ update[i].pc = "release" /\ UNCHANGED <<pushed, recent, tick, albums, troubles>>
      /\ Album!Go(i, "done") /\ "done" \in AlbumSteps /\ AlbumAt(i, Flushing \cup {"release"}) /\ AlbumAt(i, {"release", "delete"})
      /\ (flusher' = flusher \/ (flusher' = None /\ flusher = i)) /\ AlbumTyped
  BY DEF Album!Release, AlbumSteps, AlbumAt, AlbumInv
<1>2. /\ update' \in [Items -> AlbumUpdates] /\ \A j \in Items \ {i} : update'[j] = update[j]
      /\ update'[i] = [pc |-> "done", time |-> 0, album |-> update[i].album]
  BY <1>1, AlbumGoes, Zenon
<1>3. albums # <<>> \/ troubles # {}
  BY <1>1 DEF AlbumInv, Whole, Gathering
<1>4. update'[i].pc = "done" /\ update'[i].pc \in {"release", "done"}
  BY <1>2
<1>5. flusher' = flusher \/ (update'[i].pc = "done" /\ flusher' = None /\ flusher = i)
  BY <1>1, <1>4
<1> QED
  BY <1>1, <1>2, <1>3, <1>4, <1>5, AlbumGives

\* After a crash only the types and the lock matter.
LEMMA AlbumCrashKeeps ==
    ASSUME AlbumUsual, AlbumInv, NEW i \in Items, Album!Crash(i) PROVE AlbumInv'
<1> USE DEF AlbumInv
<1>1. /\ UNCHANGED <<pushed, recent, flusher, tick, albums>> /\ troubles' = troubles \cup {"crash"}
      /\ troubles' \in SUBSET {"slow", "pause", "lapse", "crash"}
  BY DEF Album!Crash, AlbumTyped
<1>2. update \in [Items -> AlbumUpdates] /\ update[i] \in AlbumUpdates
  BY DEF AlbumTyped
<1>3. \E s \in {"release", "done"} :
      /\ update' = [update EXCEPT ![i].pc = s, ![i].album = <<>>]
      /\ update[i].pc # "new" /\ (s = "release" => update[i].pc = "handle")
  BY DEF Album!Crash
<1>4. PICK s \in {"release", "done"} :
      /\ update' = [update EXCEPT ![i].pc = s, ![i].album = <<>>]
      /\ update[i].pc # "new" /\ (s = "release" => update[i].pc = "handle")
  BY <1>3
<1>5. /\ update' \in [Items -> AlbumUpdates] /\ \A j \in Items \ {i} : update'[j] = update[j]
      /\ update'[i].pc = s
  <2>1. s \in AlbumSteps /\ <<>> \in Seq(Items)
    BY DEF AlbumSteps
  <2> PICK new : new = [update[i] EXCEPT !.pc = s, !.album = <<>>]
    OBVIOUS
  <2>2. new = [pc |-> s, time |-> update[i].time, album |-> <<>>]
    BY <1>2 DEF AlbumUpdates
  <2>3. new \in AlbumUpdates
    BY <1>2, <2>1, <2>2 DEF AlbumUpdates
  <2>4. update' = [update EXCEPT ![i] = new]
    BY <1>4, <1>2
  <2> QED
    BY <1>2, <2>2, <2>3, <2>4
<1>6. Pushed \subseteq Pushed'
  BY <1>5 DEF Pushed
<1>7. AlbumTyped'
  BY <1>1, <1>5 DEF AlbumTyped, AlbumAt
<1>8. OneFlusher'
  <2> SUFFICES ASSUME "lapse" \notin troubles, NEW j \in Items, AlbumAt(j, Flushing \cup {"delete", "release"})'
               PROVE  flusher = j
    BY <1>1 DEF OneFlusher
  <2>1. AlbumAt(j, Flushing \cup {"delete", "release"})
    <3>1. CASE j = i
      BY <3>1, <1>4, <1>5 DEF AlbumAt, Flushing
    <3>2. CASE j # i
      BY <3>2, <1>5 DEF AlbumAt
    <3> QED
      BY <3>1, <3>2
  <2> QED
    BY <2>1 DEF OneFlusher
<1>9. ListIsPushed'
  BY <1>1, <1>6 DEF ListIsPushed
<1> QED
  BY <1>1, <1>7, <1>8, <1>9 DEF Apart, Whole

\* The lock lapses.
LEMMA AlbumLapseKeeps ==
    ASSUME AlbumUsual, AlbumInv, Album!Lapse PROVE AlbumInv'
<1> USE DEF AlbumInv
<1>1. /\ UNCHANGED <<pushed, recent, tick, update, albums>> /\ flusher \in Items /\ flusher' = None
      /\ troubles' = IF update[flusher].pc = "done" THEN troubles ELSE troubles \cup {"lapse"}
      /\ troubles' \in SUBSET {"slow", "pause", "lapse", "crash"}
  BY DEF Album!Lapse, AlbumTyped
<1>2. Pushed' = Pushed /\ \A j \in Items : \A S \in SUBSET AlbumSteps : update'[j].pc \in S <=> update[j].pc \in S
  BY <1>1 DEF Pushed
<1>3. AlbumTyped'
  BY <1>1 DEF AlbumTyped, AlbumAt
<1>4. OneFlusher'
  BY <1>1 DEF OneFlusher, AlbumAt, Flushing
<1>5. ListIsPushed'
  BY <1>1, <1>2 DEF ListIsPushed
<1>6. Apart'
  BY <1>1, <1>2 DEF Apart, AlbumAt
<1>7. ASSUME troubles' = {} PROVE Whole'
  <2>1. troubles = {} /\ update[flusher].pc = "done"
    BY <1>1, <1>7
  <2>2. albums # <<>> /\ Gathered
    BY <1>1, <2>1 DEF Whole, Gathering, AlbumAt, Flushing, AlbumUsual
  <2>3. Gathered'
    BY <1>1, <1>2, <2>2 DEF Gathered, AlbumAt
  <2>4. \A j \in Items : Timely(j)'
    BY <1>1, <1>2, <2>1 DEF Whole, Timely, AlbumAt, Quiet
  <2> QED
    BY <1>1, <2>2, <2>3, <2>4 DEF Whole
<1> QED
  BY <1>3, <1>4, <1>5, <1>6, <1>7 DEF Whole

\* The clock goes on.
LEMMA TickKeeps ==
    ASSUME AlbumUsual, AlbumInv, Album!Tick PROVE AlbumInv'
<1> USE DEF AlbumInv
<1> DEFINE prompt == \A i \in Items : /\ update[i].pc \in Album!Waiting
                                      /\ update[i].pc = "sleep" => tick < update[i].time
<1>1. /\ UNCHANGED <<pushed, recent, flusher, update, albums>> /\ tick' = tick + 1 /\ tick' \in 0 .. LastTick
      /\ troubles' = IF prompt THEN troubles ELSE troubles \cup {"slow"}
  BY DEF Album!Tick, AlbumTyped, AlbumUsual
<1>2. /\ Pushed' = Pushed /\ troubles' \in SUBSET {"slow", "pause", "lapse", "crash"}
      /\ "crash" \in troubles' <=> "crash" \in troubles
      /\ "lapse" \in troubles' <=> "lapse" \in troubles
  BY <1>1 DEF Pushed, AlbumTyped
<1>3. AlbumTyped'
  BY <1>1, <1>2 DEF AlbumTyped, AlbumAt
<1>4. OneFlusher'
  BY <1>1, <1>2 DEF OneFlusher, AlbumAt
<1>5. ListIsPushed'
  BY <1>1, <1>2 DEF ListIsPushed
<1>6. Apart'
  BY <1>1, <1>2 DEF Apart, AlbumAt
<1>7. ASSUME troubles' = {} PROVE Whole'
  <2>1. troubles = {} /\ prompt
    BY <1>1, <1>7
  <2>2. albums' = <<>> => Gathering'
    BY <1>1, <1>2, <2>1 DEF Whole, Gathering, AlbumAt
  <2>3. albums' # <<>> => Gathered'
    BY <1>1, <1>2, <2>1 DEF Whole, Gathered, AlbumAt
  <2>4. Quiet => Quiet'
    BY <1>1 DEF Quiet, AlbumTyped, AlbumUsual
  <2>5. ASSUME NEW j \in Items PROVE Timely(j)'
    <3>1. Timely(j) /\ update[j].pc \in Album!Waiting
      BY <2>1 DEF Whole
    <3> QED
      BY <1>1, <1>2, <2>4, <3>1 DEF Timely, AlbumAt, Album!Waiting
  <2> QED
    BY <2>2, <2>3, <2>5 DEF Whole
<1> QED
  BY <1>3, <1>4, <1>5, <1>6, <1>7 DEF Whole

\* The invariant of MediaGroups holds after every step.
LEMMA AlbumNextPreserves ==
    ASSUME AlbumUsual, AlbumInv, [Album!Next]_(Album!vars) PROVE AlbumInv'
<1>1. ASSUME NEW i \in Items,
             \/ Album!Arrive(i) \/ Album!Push(i) \/ Album!Lock(i) \/ Album!LastTime(i) \/ Album!Clock(i) \/ Album!Wake(i)
             \/ Album!Group(i) \/ Album!Handle(i) \/ Album!Delete(i) \/ Album!Release(i) \/ Album!Crash(i)
      PROVE  AlbumInv'
  BY <1>1, ArriveKeeps, PushKeeps, LockKeeps, LastTimeKeeps, ClockKeeps, WakeKeeps, GroupKeeps,
     HandleKeeps, DeleteKeeps, AlbumReleaseKeeps, AlbumCrashKeeps
<1>2. CASE UNCHANGED Album!vars
  BY <1>2 DEF Album!vars, AlbumInv, AlbumTyped, OneFlusher, ListIsPushed, Apart, Whole, Gathering,
      Gathered, Timely, Quiet, Pushed, AlbumAt
<1> QED
  BY <1>1, <1>2, AlbumLapseKeeps, TickKeeps DEF Album!Next

\* What the properties of the run need.
LEMMA AlbumInvImplies ==
    ASSUME AlbumUsual, AlbumInv PROVE Album!WholeAlbum /\ Album!HandledOnce /\ Album!TypeOK
<1> USE DEF AlbumInv
<1>1. Album!WholeAlbum
  <2> SUFFICES ASSUME Album!Ended, troubles = {} PROVE albums = <<Album!InOrder(Items)>>
    BY DEF Album!WholeAlbum
  <2>1. Pushed = Items
    BY DEF Album!Ended, Pushed
  <2>2. albums # <<>>
    BY <2>1 DEF Whole, Gathering, AlbumAt, Album!Ended, Flushing, AlbumUsual
  <2> QED
    BY <2>1, <2>2 DEF Whole, Gathered
<1>2. Album!HandledOnce
  BY DEF Apart, Album!HandledOnce
<1>3. Album!TypeOK
  <2>1. \A i \in Items : update[i].pc \in AlbumSteps
    BY DEF AlbumTyped, AlbumUpdates
  <2> QED
    BY <2>1 DEF AlbumTyped, OneFlusher, Album!TypeOK, AlbumAt, Flushing, Album!Waiting, AlbumSteps
<1> QED
  BY <1>1, <1>2, <1>3

-----------------------------------------------------------------------------
(* FederationRegistry, by its own names of the slots *)

federations == v1
fresh == v2
remembered == v3
offers == v4
request == v5
started == v6
reverted == v7
entangled == v8

USE DEF federations, fresh, remembered, offers, request, started, reverted, entangled

\* None is nothing that can be meant.
RegistryUsual ==
    /\ None \notin Feds /\ None \notin Chats /\ None \notin Users /\ None \notin Registry!Documents

\* The federations a chat is in, but for those a save wrote back.
Listed(c) == Registry!Home(c) \ reverted

\* Federation h is subscribed to g.
Follows(h, g) == h \in Feds \ reverted /\ federations[h] # None /\ g \in federations[h].subscribed

FedLookups == {"lookup", "get", "find", "note"}

\* What the requests keep beside their copy.
FedGiven == {<<>>} \cup {<<f>> : f \in Feds} \cup (Feds \X Registry!Documents) \cup UNION {[S -> Registry!Documents] : S \in SUBSET Feds}

FedPlaces == FedLookups \cup {"idle", "add", "added", "remove", "removed", "insert", "target", "write",
                              "subscribers", "release", "erase"}

Requests == [pc : FedPlaces,
             op : {"none", "join", "leave", "look", "evict", "create", "edit", "subscribe", "unsubscribe",
                   "accept", "delete"},
             fed : {None} \cup Feds, arg : {None} \cup Chats \cup Feds \cup Users,
             copy : {None} \cup Registry!Documents, others : FedGiven]

\* Which commands come to which steps, and with what.
Sound(r) ==
    /\ r.pc = "idle" => r.op = "none"
    /\ r.pc \in FedLookups => r.op \in {"join", "leave", "look", "evict"}
    /\ r.pc \in {"add", "added"} => r.op = "join"
    /\ r.pc \in {"remove", "removed"} => r.op \in {"leave", "evict"}
    /\ r.pc = "insert" => r.op = "create"
    /\ r.pc = "target" => r.op = "subscribe"
    /\ r.pc = "write" => r.op \in {"edit", "subscribe", "unsubscribe", "accept"}
    /\ r.pc \in {"subscribers", "release", "erase"} => r.op = "delete"
    /\ r.op \in {"join", "leave", "look", "evict"} => r.arg \in Chats
    /\ r.op = "subscribe" => r.arg \in Feds
    /\ r.op \in {"create", "accept"} => r.arg \in Users
    /\ r.op \in {"join", "evict", "edit", "subscribe", "unsubscribe", "accept", "delete"}
       => r.fed \in Feds \ fresh /\ r.copy \in Registry!Documents
    /\ r.pc \in {"remove", "removed"} => r.fed \in Feds \ fresh /\ r.copy \in Registry!Documents
    /\ r.pc = "get" => r.others[1] \in Feds
    /\ r.pc = "note" => r.others[1] \in Feds \ fresh /\ r.others[2] \in Registry!Documents
    /\ r.pc = "release" => DOMAIN r.others \subseteq Feds \ fresh /\ r.others \in [DOMAIN r.others -> Registry!Documents]

\* What a request relies on, unless another one is in its way.
Relies(r) ==
    /\ r.op = "join" /\ r.arg \notin entangled =>
        /\ r.pc = "get" => Listed(r.arg) \subseteq {r.others[1]}
        /\ r.pc = "add" => Listed(r.arg) = {}
        /\ r.pc = "added" => Listed(r.arg) \subseteq {r.fed}
    /\ r.op = "subscribe" /\ r.pc = "write" /\ r.arg \notin reverted \cup entangled => federations[r.arg] # None
    /\ r.op = "delete" /\ r.fed \notin reverted \cup entangled =>
        /\ r.pc = "release" => \A h \in Feds : Follows(h, r.fed) => h \in DOMAIN r.others
        /\ r.pc = "erase" => \A h \in Feds : ~Follows(h, r.fed)

RegistryTyped ==
    /\ federations \in [Feds -> {None} \cup Registry!Documents]
    /\ fresh \subseteq {f \in Feds : federations[f] = None}
    /\ remembered \in [Chats -> {None} \cup Feds]
    /\ offers \in [Feds -> {None} \cup (Users \X Users)]
    /\ request \in [Handlers -> Requests]
    /\ \A j \in Handlers : Sound(request[j])

\* A chat is in one federation, the one Redis remembers.
SingleFed == \A c \in Chats \ entangled : \A f, g \in Listed(c) : f = g

RedisRight ==
    \A c \in Chats \ entangled : remembered[c] # None =>
        \/ Listed(c) \subseteq {remembered[c]}
        \/ \E j \in Handlers : request[j].pc = "added" /\ request[j].arg = c

\* Who is subscribed to is there.
Followed == \A h, g \in Feds : Follows(h, g) /\ g \notin reverted \cup entangled => federations[g] # None

\* Requests about the same are noticed.
Noticed == \A i, j \in Handlers : i # j /\ Registry!Conflict(request[i], request[j]) => Registry!Subject(request[i]) \in entangled

RegistryInv ==
    /\ RegistryTyped
    /\ SingleFed /\ RedisRight /\ Followed /\ Noticed
    /\ \A j \in Handlers : Relies(request[j])
-----------------------------------------------------------------------------

\* What a request may keep beside its copy.
LEMMA GivenHas ==
    /\ <<>> \in FedGiven
    /\ \A f \in Feds : <<f>> \in FedGiven
    /\ \A f \in Feds, d \in Registry!Documents : <<f, d>> \in FedGiven
    /\ \A S \in SUBSET Feds : \A m \in [S -> Registry!Documents] : m \in FedGiven
<1>1. <<>> \in FedGiven /\ \A f \in Feds : <<f>> \in FedGiven
  BY DEF FedGiven
<1>2. \A f \in Feds, d \in Registry!Documents : <<f, d>> \in FedGiven
  BY DEF FedGiven
<1>3. ASSUME NEW S \in SUBSET Feds, NEW m \in [S -> Registry!Documents] PROVE m \in FedGiven
  BY <1>3, Zenon DEF FedGiven
<1> QED
  BY <1>1, <1>2, <1>3

\* A request that is not at work relies on nothing.
LEMMA IdleIs ==
    /\ Registry!Idle \in Requests /\ Registry!Idle.pc = "idle" /\ Registry!Idle.op = "none" /\ Registry!Subject(Registry!Idle) = None
    /\ Sound(Registry!Idle) /\ Relies(Registry!Idle) /\ Sound(Registry!Idle)' /\ Relies(Registry!Idle)'
<1>1. Registry!Idle \in Requests /\ Registry!Idle.pc = "idle" /\ Registry!Idle.op = "none"
  BY GivenHas DEF Registry!Idle, Requests, FedPlaces
<1> QED
  BY <1>1 DEF Sound, Relies, Registry!Subject, FedLookups

Referred == {None} \cup Feds
Meant == {None} \cup Chats \cup Feds \cup Users
Copied == {None} \cup Registry!Documents
FedCommands == {"create", "leave", "look", "join", "evict", "edit", "subscribe", "unsubscribe", "accept", "delete"}

\* A request as it is read, or as it is about a chat or a user.
BeginFed(s, o, f, x, d) == [Registry!Idle EXCEPT !.pc = s, !.op = o, !.fed = f, !.arg = x, !.copy = d]
BeginBare(s, o, x) == [Registry!Idle EXCEPT !.pc = s, !.op = o, !.arg = x]

\* A request one step further, with what it keeps or with something else.
FedMove(w, s, o) == [w EXCEPT !.pc = s, !.others = o]
FedMoveOn(w, s) == [w EXCEPT !.pc = s]

\* A request that begins with a copy has what it was given.
LEMMA Begun ==
    ASSUME NEW s \in FedPlaces, NEW o \in FedCommands, NEW f \in Referred, NEW x \in Meant, NEW d \in Copied,
           NEW r, r = BeginFed(s, o, f, x, d)
    PROVE  r \in Requests /\ r.pc = s /\ r.op = o /\ r.fed = f /\ r.arg = x /\ r.copy = d
<1>1. r = [pc |-> s, op |-> o, fed |-> f, arg |-> x, copy |-> d, others |-> <<>>]
  BY DEF Registry!Idle, BeginFed
<1> QED
  BY <1>1, GivenHas DEF Requests, FedCommands, Referred, Meant, Copied

\* A request that begins without one has what it was given.
LEMMA BegunBare ==
    ASSUME NEW s \in FedPlaces, NEW o \in FedCommands, NEW x \in Meant, NEW r, r = BeginBare(s, o, x)
    PROVE  r \in Requests /\ r.pc = s /\ r.op = o /\ r.arg = x
<1>1. r = [pc |-> s, op |-> o, fed |-> None, arg |-> x, copy |-> None, others |-> <<>>]
  BY DEF Registry!Idle, BeginBare
<1> QED
  BY <1>1, GivenHas DEF Requests, FedCommands, Meant

\* A request that goes on with something else keeps the rest.
LEMMA Further ==
    ASSUME NEW w \in Requests, NEW s \in FedPlaces, NEW o \in FedGiven, NEW r, r = FedMove(w, s, o)
    PROVE  /\ r \in Requests /\ r.pc = s /\ r.others = o /\ r.op = w.op /\ r.fed = w.fed /\ r.arg = w.arg
           /\ r.copy = w.copy /\ Registry!Subject(r) = Registry!Subject(w)
<1>1. r = [pc |-> s, op |-> w.op, fed |-> w.fed, arg |-> w.arg, copy |-> w.copy, others |-> o]
  BY DEF Requests, FedMove
<1>2. r \in Requests
  BY <1>1 DEF Requests
<1> QED
  BY <1>1, <1>2 DEF Registry!Subject

\* A request that goes on keeps all but its place.
LEMMA FurtherOn ==
    ASSUME NEW w \in Requests, NEW s \in FedPlaces, NEW r, r = FedMoveOn(w, s)
    PROVE  /\ r \in Requests /\ r.pc = s /\ r.others = w.others /\ r.op = w.op /\ r.fed = w.fed /\ r.arg = w.arg
           /\ r.copy = w.copy /\ Registry!Subject(r) = Registry!Subject(w)
<1>1. r = [pc |-> s, op |-> w.op, fed |-> w.fed, arg |-> w.arg, copy |-> w.copy, others |-> w.others]
  BY DEF Requests, FedMoveOn
<1>2. r \in Requests
  BY <1>1 DEF Requests
<1> QED
  BY <1>1, <1>2 DEF Registry!Subject

\* A step of one request leaves the others.
LEMMA RequestSet ==
    ASSUME request \in [Handlers -> Requests], NEW j \in Handlers, NEW r \in Requests, request' = [request EXCEPT ![j] = r]
    PROVE  request' \in [Handlers -> Requests] /\ request'[j] = r /\ \A i \in Handlers \ {j} : request'[i] = request[i]
OBVIOUS

\* What a request is about.
LEMMA SubjectIs ==
    ASSUME RegistryUsual, NEW r \in Requests, Sound(r)
    PROVE  /\ r.op \in {"join", "leave", "evict", "subscribe"} => Registry!Subject(r) = r.arg /\ Registry!Subject(r) # None
           /\ r.op = "delete" => Registry!Subject(r) = r.fed /\ Registry!Subject(r) # None
           /\ r.op \notin {"join", "leave", "evict", "subscribe", "delete"} => Registry!Subject(r) = None
<1>1. r.op \in {"join", "leave", "evict", "subscribe"} => r.arg # None
  BY DEF Sound, RegistryUsual
<1>2. r.op = "delete" => r.fed # None
  BY DEF Sound, RegistryUsual
<1>3. /\ r.op \in {"join", "leave", "evict", "subscribe"} => Registry!Subject(r) = r.arg
      /\ r.op = "delete" => Registry!Subject(r) = r.fed
      /\ r.op \notin {"join", "leave", "evict", "subscribe", "delete"} => Registry!Subject(r) = None
  BY DEF Registry!Subject
<1> QED
  BY <1>1, <1>2, <1>3

\* The other requests, where one of them takes a step.
LEMMA Bystanders ==
    ASSUME RegistryUsual, RegistryInv, NEW j \in Handlers, NEW r \in Requests, request' = [request EXCEPT ![j] = r],
           fresh' \subseteq fresh, reverted \subseteq reverted', entangled \subseteq entangled',
           \A c \in Chats \ entangled' : Listed(c)' \subseteq Listed(c) \/ (request[j].op = "join" /\ request[j].arg = c),
           \A h, g \in Feds : Follows(h, g)' => Follows(h, g) \/ (request[j].op = "subscribe" /\ request[j].arg = g),
           \A g \in Feds : federations[g] # None /\ federations'[g] = None => request[j].op = "delete" /\ request[j].fed = g,
           \/ r.op = request[j].op /\ Registry!Subject(r) = Registry!Subject(request[j])
           \/ Registry!Subject(r) = None
           \/ \A i \in Handlers \ {j} : Registry!Conflict(r, request[i]) => Registry!Subject(r) \in entangled'
    PROVE  Noticed' /\ \A i \in Handlers \ {j} : Sound(request[i])' /\ Relies(request[i])'
<1>1. request \in [Handlers -> Requests] /\ \A i \in Handlers : Sound(request[i]) /\ Relies(request[i])
  BY DEF RegistryInv, RegistryTyped
<1>2. request'[j] = r /\ \A i \in Handlers \ {j} : request'[i] = request[i]
  BY <1>1, RequestSet
<1>3. Noticed'
  <2>1. ASSUME NEW i \in Handlers, i # j, Registry!Conflict(r, request[i]) PROVE Registry!Subject(r) \in entangled'
    <3>1. Registry!Subject(r) # None
      BY <2>1 DEF Registry!Conflict
    <3>2. CASE r.op = request[j].op /\ Registry!Subject(r) = Registry!Subject(request[j])
      <4>1. Registry!Conflict(request[j], request[i])
        BY <2>1, <3>2 DEF Registry!Conflict
      <4> QED
        BY <2>1, <3>2, <4>1 DEF RegistryInv, Noticed
    <3> QED
      BY <2>1, <3>1, <3>2
  <2>2. ASSUME NEW i \in Handlers, i # j, Registry!Conflict(request[i], r) PROVE Registry!Subject(request[i]) \in entangled'
    <3>1. Registry!Conflict(r, request[i]) /\ Registry!Subject(r) = Registry!Subject(request[i])
      BY <2>2 DEF Registry!Conflict
    <3> QED
      BY <2>1, <2>2, <3>1
  <2>3. ASSUME NEW i \in Handlers, NEW k \in Handlers, i # k, Registry!Conflict(request'[i], request'[k])
        PROVE  Registry!Subject(request'[i]) \in entangled'
    <3>1. CASE i = j
      BY <1>2, <2>1, <2>3, <3>1
    <3>2. CASE k = j
      BY <1>2, <2>2, <2>3, <3>2
    <3>3. CASE i # j /\ k # j
      BY <1>2, <2>3, <3>3 DEF RegistryInv, Noticed
    <3> QED
      BY <3>1, <3>2, <3>3
  <2> QED
    BY <2>3, Zenon DEF Noticed
<1>4. ASSUME NEW i \in Handlers \ {j} PROVE Sound(request[i])'
  BY <1>1, <1>2, <1>4 DEF Sound
<1>5. ASSUME NEW i \in Handlers \ {j} PROVE Relies(request[i])'
  <2>1. request'[i] = request[i] /\ Sound(request[i]) /\ Relies(request[i]) /\ request[i] \in Requests /\ request[j] \in Requests /\ Sound(request[j])
    BY <1>1, <1>2
  <2>2. Registry!Conflict(request[i], request[j]) => Registry!Subject(request[i]) \in entangled
    BY DEF RegistryInv, Noticed
  <2>3. ASSUME request[i].op = "join", request[i].arg \notin entangled' PROVE Listed(request[i].arg)' \subseteq Listed(request[i].arg)
    <3>1. request[i].arg \in Chats \ entangled'
      BY <2>1, <2>3 DEF Sound
    <3>2. ~ (request[j].op = "join" /\ request[j].arg = request[i].arg)
      <4>1. SUFFICES ASSUME request[j].op = "join", request[j].arg = request[i].arg PROVE FALSE
        OBVIOUS
      <4>2. Registry!Subject(request[i]) = request[i].arg /\ Registry!Subject(request[j]) = request[i].arg /\ request[i].arg # None
        BY <2>1, <2>3, <4>1, SubjectIs
      <4> QED
        BY <2>2, <2>3, <4>2 DEF Registry!Conflict
    <3> QED
      BY <3>1, <3>2
  <2>4. ASSUME request[i].op = "subscribe", request[i].pc = "write", request[i].arg \notin reverted' \cup entangled'
        PROVE  federations'[request[i].arg] # None
    <3>1. federations[request[i].arg] # None /\ request[i].arg \in Feds
      BY <2>1, <2>4 DEF Relies, Sound
    <3>2. ~ (request[j].op = "delete" /\ request[j].fed = request[i].arg)
      <4>1. SUFFICES ASSUME request[j].op = "delete", request[j].fed = request[i].arg PROVE FALSE
        OBVIOUS
      <4>2. Registry!Subject(request[i]) = request[i].arg /\ Registry!Subject(request[j]) = request[i].arg /\ request[i].arg # None
        BY <2>1, <2>4, <4>1, SubjectIs
      <4> QED
        BY <2>2, <2>4, <4>1, <4>2 DEF Registry!Conflict
    <3> QED
      BY <3>1, <3>2
  <2>5. ASSUME request[i].op = "delete", request[i].fed \notin reverted' \cup entangled', NEW h \in Feds
        PROVE  Follows(h, request[i].fed)' => Follows(h, request[i].fed)
    <3>1. request[i].fed \in Feds
      BY <2>1, <2>5 DEF Sound
    <3>2. ~ (request[j].op = "subscribe" /\ request[j].arg = request[i].fed)
      <4>1. SUFFICES ASSUME request[j].op = "subscribe", request[j].arg = request[i].fed PROVE FALSE
        OBVIOUS
      <4>2. Registry!Subject(request[i]) = request[i].fed /\ Registry!Subject(request[j]) = request[i].fed /\ request[i].fed # None
        BY <2>1, <2>5, <4>1, SubjectIs
      <4> QED
        BY <2>2, <2>5, <4>2 DEF Registry!Conflict
    <3>3. Follows(h, request[i].fed)' => Follows(h, request[i].fed) \/ (request[j].op = "subscribe" /\ request[j].arg = request[i].fed)
      <4> PICK g \in Feds : g = request[i].fed
        BY <3>1
      <4>1. request'[i].fed = g
        BY <2>1
      <4>2. Follows(h, g)' => Follows(h, g) \/ (request[j].op = "subscribe" /\ request[j].arg = g)
        OBVIOUS
      <4> QED
        BY <4>1, <4>2
    <3> QED
      BY <3>2, <3>3
  <2>6. request[i].op = "join" /\ request[i].arg \notin entangled' =>
                /\ request[i].pc = "get" => Listed(request[i].arg)' \subseteq {request[i].others[1]}
                /\ request[i].pc = "add" => Listed(request[i].arg)' = {}
                /\ request[i].pc = "added" => Listed(request[i].arg)' \subseteq {request[i].fed}
    BY <2>1, <2>3 DEF Relies
  <2>7. request[i].op = "delete" /\ request[i].fed \notin reverted' \cup entangled' =>
                /\ request[i].pc = "release" => \A h \in Feds : Follows(h, request[i].fed)' => h \in DOMAIN request[i].others
                /\ request[i].pc = "erase" => \A h \in Feds : ~Follows(h, request[i].fed)'
    BY <2>1, <2>5 DEF Relies
  <2> QED
    BY <2>1, <2>4, <2>6, <2>7 DEF Relies
<1> QED
  BY <1>3, <1>4, <1>5

\* A step of one request that keeps the parts of the invariant keeps it.
LEMMA RequestKeeps ==
    ASSUME RegistryUsual, RegistryInv, NEW j \in Handlers, NEW r \in Requests, request' = [request EXCEPT ![j] = r],
           fresh' \subseteq fresh, reverted \subseteq reverted', entangled \subseteq entangled',
           \A c \in Chats \ entangled' : Listed(c)' \subseteq Listed(c) \/ (request[j].op = "join" /\ request[j].arg = c),
           \A h, g \in Feds : Follows(h, g)' => Follows(h, g) \/ (request[j].op = "subscribe" /\ request[j].arg = g),
           \A g \in Feds : federations[g] # None /\ federations'[g] = None => request[j].op = "delete" /\ request[j].fed = g,
           \/ r.op = request[j].op /\ Registry!Subject(r) = Registry!Subject(request[j])
           \/ Registry!Subject(r) = None
           \/ \A i \in Handlers \ {j} : Registry!Conflict(r, request[i]) => Registry!Subject(r) \in entangled',
           federations' \in [Feds -> {None} \cup Registry!Documents], fresh' \subseteq {f \in Feds : federations'[f] = None},
           remembered' \in [Chats -> {None} \cup Feds], offers' \in [Feds -> {None} \cup (Users \X Users)],
           Sound(r)', Relies(r)', SingleFed', RedisRight', Followed'
    PROVE  RegistryInv'
<1>1. Noticed' /\ \A i \in Handlers \ {j} : Sound(request[i])' /\ Relies(request[i])'
  BY Bystanders
<1>2. request \in [Handlers -> Requests]
  BY DEF RegistryInv, RegistryTyped
<1>3. request' \in [Handlers -> Requests] /\ request'[j] = r
  BY <1>2, RequestSet
<1>4. \A i \in Handlers : Sound(request[i])' /\ Relies(request[i])'
  <2>1. Sound(request[j])' /\ Relies(request[j])'
    BY <1>3 DEF Sound, Relies
  <2> QED
    BY <1>1, <2>1
<1>5. RegistryTyped'
  BY <1>3, <1>4 DEF RegistryTyped
<1> QED
  BY <1>1, <1>4, <1>5 DEF RegistryInv

\* So does one that takes chats and subscriptions away, or leaves them alone.
LEMMA ShrinkKeeps ==
    ASSUME RegistryUsual, RegistryInv, NEW j \in Handlers, NEW r \in Requests, request' = [request EXCEPT ![j] = r],
           fresh' \subseteq fresh, reverted \subseteq reverted', entangled \subseteq entangled',
           \A c \in Chats \ entangled' : Listed(c)' \subseteq Listed(c),
           \A h, g \in Feds : Follows(h, g)' => Follows(h, g),
           \A g \in Feds : federations[g] # None => federations'[g] # None,
           request[j].pc # "added", \A c \in Chats : remembered'[c] \in {None, remembered[c]},
           \/ r.op = request[j].op /\ Registry!Subject(r) = Registry!Subject(request[j])
           \/ Registry!Subject(r) = None
           \/ \A i \in Handlers \ {j} : Registry!Conflict(r, request[i]) => Registry!Subject(r) \in entangled',
           federations' \in [Feds -> {None} \cup Registry!Documents], fresh' \subseteq {f \in Feds : federations'[f] = None},
           remembered' \in [Chats -> {None} \cup Feds], offers' \in [Feds -> {None} \cup (Users \X Users)],
           Sound(r)', Relies(r)'
    PROVE  RegistryInv'
<1>1. SingleFed'
  BY DEF RegistryInv, SingleFed
<1>2. Followed'
  BY DEF RegistryInv, Followed
<1>3. RedisRight'
  <2> SUFFICES ASSUME NEW c \in Chats \ entangled', remembered'[c] # None
               PROVE  \/ Listed(c)' \subseteq {remembered'[c]}
                      \/ \E i \in Handlers : request'[i].pc = "added" /\ request'[i].arg = c
    BY DEF RedisRight
  <2>1. remembered'[c] = remembered[c] /\ remembered[c] # None /\ c \in Chats \ entangled
    OBVIOUS
  <2>2. CASE Listed(c) \subseteq {remembered[c]}
    BY <2>1, <2>2
  <2>3. CASE \E i \in Handlers : request[i].pc = "added" /\ request[i].arg = c
    <3>1. PICK i \in Handlers : request[i].pc = "added" /\ request[i].arg = c
      BY <2>3
    <3>2. request'[i] = request[i]
      BY <3>1, RequestSet DEF RegistryInv, RegistryTyped
    <3> QED
      BY <3>1, <3>2
  <2> QED
    BY <2>1, <2>2, <2>3 DEF RegistryInv, RedisRight
<1> QED
  BY <1>1, <1>2, <1>3, RequestKeeps

\* Where no document changes.
LEMMA ReadKeeps ==
    ASSUME RegistryUsual, RegistryInv, NEW j \in Handlers, NEW r \in Requests, request' = [request EXCEPT ![j] = r],
           UNCHANGED <<federations, fresh, reverted>>, entangled \subseteq entangled',
           request[j].pc # "added", \A c \in Chats : remembered'[c] \in {None, remembered[c]},
           \/ r.op = request[j].op /\ Registry!Subject(r) = Registry!Subject(request[j])
           \/ Registry!Subject(r) = None
           \/ \A i \in Handlers \ {j} : Registry!Conflict(r, request[i]) => Registry!Subject(r) \in entangled',
           remembered' \in [Chats -> {None} \cup Feds], offers' \in [Feds -> {None} \cup (Users \X Users)],
           Sound(r)', Relies(r)'
    PROVE  RegistryInv'
<1>1. \A c : Listed(c)' = Listed(c)
  BY DEF Listed, Registry!Home
<1>2. \A h, g \in Feds : Follows(h, g)' = Follows(h, g)
  BY DEF Follows
<1>3. federations' \in [Feds -> {None} \cup Registry!Documents] /\ fresh' \subseteq {f \in Feds : federations'[f] = None}
  BY DEF RegistryInv, RegistryTyped
<1> QED
  BY <1>1, <1>2, <1>3, ShrinkKeeps

\* What a save leaves: what it writes over is lost.
LEMMA Saved ==
    ASSUME RegistryUsual, RegistryTyped, NEW f \in Feds \ fresh, NEW read \in Registry!Documents, NEW doc \in Registry!Documents,
           Registry!Save(f, read, doc)
    PROVE  /\ federations' \in [Feds -> {None} \cup Registry!Documents] /\ fresh' = fresh /\ entangled' = entangled
           /\ fresh' \subseteq {g \in Feds : federations'[g] = None} /\ reverted \subseteq reverted'
           /\ offers' = offers /\ federations'[f] = doc
           /\ \A c \in Chats : Listed(c)' \subseteq Listed(c) \cup {f}
           /\ \A c \in Chats : (c \in doc.chats => c \in read.chats) => Listed(c)' \subseteq Listed(c)
           /\ \A h, g \in Feds : Follows(h, g)' =>
                  Follows(h, g) \/ (h = f /\ g \in doc.subscribed /\ g \notin read.subscribed)
           /\ \A h, g \in Feds : Follows(h, g)' /\ h = f => g \in doc.subscribed
           /\ \A g \in Feds : federations[g] # None => federations'[g] # None
<1>1. /\ federations' = [federations EXCEPT ![f] = doc] /\ federations \in [Feds -> {None} \cup Registry!Documents]
      /\ reverted' = IF federations[f] # read THEN reverted \cup {f} ELSE reverted
      /\ UNCHANGED <<fresh, offers, entangled>>
  BY DEF Registry!Save, RegistryTyped
<1>2. federations' \in [Feds -> {None} \cup Registry!Documents] /\ federations'[f] = doc /\ \A g \in Feds \ {f} : federations'[g] = federations[g]
  BY <1>1
<1>3. doc # None /\ read # None
  BY DEF RegistryUsual
<1>4. f \notin reverted' => federations[f] = read /\ f \notin reverted
  BY <1>1
<1>5. reverted \subseteq reverted'
  BY <1>1
<1>6. fresh' \subseteq {g \in Feds : federations'[g] = None}
  BY <1>1, <1>2 DEF RegistryTyped
<1>7. ASSUME NEW c \in Chats PROVE Listed(c)' \subseteq Listed(c) \cup {f}
  <2>1. \A g \in Feds \ {f} : g \in Listed(c)' => g \in Listed(c)
    BY <1>2, <1>5 DEF Listed, Registry!Home
  <2>2. Listed(c)' \subseteq Feds
    BY DEF Listed, Registry!Home
  <2> QED
    BY <2>1, <2>2
<1>8. ASSUME NEW c \in Chats, c \in doc.chats => c \in read.chats PROVE Listed(c)' \subseteq Listed(c)
  <2>1. f \in Listed(c)' => f \in Listed(c)
    BY <1>2, <1>3, <1>4, <1>8 DEF Listed, Registry!Home
  <2> QED
    BY <1>7, <2>1
<1>9. ASSUME NEW h \in Feds, NEW g \in Feds, Follows(h, g)'
      PROVE  /\ Follows(h, g) \/ (h = f /\ g \in doc.subscribed /\ g \notin read.subscribed)
             /\ h = f => g \in doc.subscribed
  <2>1. CASE h = f
    BY <1>2, <1>3, <1>4, <1>9, <2>1 DEF Follows
  <2>2. CASE h # f
    BY <1>2, <1>5, <1>9, <2>2 DEF Follows
  <2> QED
    BY <2>1, <2>2
<1>10. \A g \in Feds : federations[g] # None => federations'[g] # None
  BY <1>2, <1>3
<1> QED
  BY <1>1, <1>2, <1>5, <1>6, <1>7, <1>8, <1>9, <1>10

-----------------------------------------------------------------------------
(* Requests begin *)

\* A request begins, and is noticed if another one is about the same.
LEMMA StartKeeps ==
    ASSUME RegistryUsual, RegistryInv, NEW j \in Handlers, NEW r \in Requests, Registry!Start(j, r), Sound(r),
           r.pc \notin {"get", "add", "added", "write", "release", "erase"} \/ r.op \in {"edit", "unsubscribe"}
    PROVE  RegistryInv'
<1>1. /\ request' = [request EXCEPT ![j] = r] /\ request[j].pc = "idle"
      /\ entangled' = (IF \E i \in Handlers : Registry!Conflict(r, request[i]) THEN entangled \cup {Registry!Subject(r)} ELSE entangled)
      /\ UNCHANGED <<federations, fresh, remembered, offers, reverted>>
  BY DEF Registry!Start, Registry!Set
<1>2. entangled \subseteq entangled' /\ \A i \in Handlers \ {j} : Registry!Conflict(r, request[i]) => Registry!Subject(r) \in entangled'
  BY <1>1
<1>3. Sound(r)'
  BY <1>1 DEF Sound
<1>4. Relies(r)'
  BY DEF Relies, Sound, FedLookups
<1>5. remembered' \in [Chats -> {None} \cup Feds] /\ offers' \in [Feds -> {None} \cup (Users \X Users)]
  BY <1>1 DEF RegistryInv, RegistryTyped
<1> QED
  BY <1>1, <1>2, <1>3, <1>4, <1>5, ReadKeeps

\* Commands that read a federation first begin.
LEMMA ReadStarts ==
    ASSUME RegistryUsual, RegistryInv, NEW j \in Handlers, NEW f \in Feds,
           NEW x \in {None} \cup Chats \cup Feds \cup Users,
           \/ Registry!Read(j, "join", f, x, "lookup") /\ x \in Chats
           \/ Registry!Read(j, "evict", f, x, "lookup") /\ x \in Chats
           \/ Registry!Read(j, "edit", f, x, "write")
           \/ Registry!Read(j, "subscribe", f, x, "target") /\ x \in Feds
           \/ Registry!Read(j, "unsubscribe", f, x, "write")
           \/ Registry!Read(j, "delete", f, x, "subscribers")
    PROVE  RegistryInv'
<1>1. PICK s \in {"lookup", "write", "target", "subscribers"},
         o \in {"join", "evict", "edit", "subscribe", "unsubscribe", "delete"} :
      /\ Registry!Read(j, o, f, x, s)
      /\ \/ o \in {"join", "evict"} /\ s = "lookup" /\ x \in Chats
         \/ o \in {"edit", "unsubscribe"} /\ s = "write"
         \/ o = "subscribe" /\ s = "target" /\ x \in Feds
         \/ o = "delete" /\ s = "subscribers"
  BY Zenon
<1>2. federations[f] \in Registry!Documents /\ f \notin fresh
  BY <1>1 DEF Registry!Read, RegistryInv, RegistryTyped
<1>3. PICK r : r = BeginFed(s, o, f, x, federations[f])
  OBVIOUS
<1>4. /\ r \in Requests
      /\ r.pc = s /\ r.op = o /\ r.fed = f /\ r.arg = x /\ r.copy = federations[f]
  <2>1. s \in FedPlaces /\ f \in Referred /\ federations[f] \in Copied /\ o \in FedCommands /\ x \in Meant
    BY <1>2 DEF FedPlaces, FedLookups, FedCommands, Referred, Meant, Copied
  <2> QED
    BY <1>3, <2>1, Begun
<1>5. Registry!Start(j, r)
  BY <1>1, <1>3, <1>4 DEF Registry!Read, BeginFed
<1>6. Sound(r)
  BY <1>1, <1>3, <1>4, <1>2 DEF Sound, FedLookups
<1> QED
  BY <1>1, <1>3, <1>4, <1>5, <1>6, StartKeeps

\* Commands that read none begin.
LEMMA OtherStarts ==
    ASSUME RegistryUsual, RegistryInv, NEW j \in Handlers,
           \/ \E c \in Chats : Registry!Leave(j, c) \/ Registry!Look(j, c)
           \/ \E u \in Users : Registry!Create(j, u)
    PROVE  RegistryInv'
<1>1. PICK s \in {"lookup", "insert"}, o \in {"leave", "look", "create"}, x \in Chats \cup Users :
      /\ Registry!Start(j, [Registry!Idle EXCEPT !.pc = s, !.op = o, !.arg = x])
      /\ \/ o \in {"leave", "look"} /\ s = "lookup" /\ x \in Chats
         \/ o = "create" /\ s = "insert" /\ x \in Users
  BY Zenon DEF Registry!Leave, Registry!Look, Registry!Create
<1>2. PICK r : r = BeginBare(s, o, x)
  OBVIOUS
<1>3. /\ r \in Requests
      /\ r.pc = s /\ r.op = o /\ r.arg = x
  <2>1. s \in FedPlaces /\ o \in FedCommands /\ x \in Meant
    BY DEF FedPlaces, FedLookups, FedCommands, Meant
  <2> QED
    BY <1>2, <2>1, BegunBare
<1>4. Registry!Start(j, r)
  BY <1>1, <1>2 DEF BeginBare
<1>5. Sound(r)
  BY <1>1, <1>3 DEF Sound, FedLookups
<1> QED
  BY <1>1, <1>4, <1>3, <1>5, StartKeeps

-----------------------------------------------------------------------------
(* The lookup of the federation of a chat *)

\* Where a request goes on once it has found the federation, or none.
LEMMA LocatedIs ==
    ASSUME RegistryUsual, request \in [Handlers -> Requests], NEW j \in Handlers, Sound(request[j]), request[j].pc \in FedLookups,
           NEW f \in {None} \cup Feds, NEW doc, f # None => f \notin fresh /\ doc \in Registry!Documents,
           Registry!Located(j, f, doc)
    PROVE  \E r \in Requests : /\ request' = [request EXCEPT ![j] = r] /\ Sound(r)
                               /\ \/ r = Registry!Idle
                                  \/ r.pc = "remove" /\ r.op = request[j].op /\ r.arg = request[j].arg /\ r.op # "join"
                                     /\ Registry!Subject(r) = Registry!Subject(request[j])
                                  \/ f = None /\ r.pc = "add" /\ r.op = "join" /\ r.op = request[j].op
                                     /\ r.arg = request[j].arg /\ Registry!Subject(r) = Registry!Subject(request[j])
<1>1. request[j] \in Requests /\ request[j].op \in {"join", "leave", "look", "evict"} /\ request[j].arg \in Chats
  BY DEF Sound
<1>2. PICK e \in FedGiven : e = <<>>
  BY GivenHas
<1>3. CASE request[j].op = "leave" /\ f # None
  <2>1. PICK r : r = BeginFed("remove", "leave", f, request[j].arg, doc)
    OBVIOUS
  <2>2. /\ r \in Requests
        /\ r.pc = "remove" /\ r.op = "leave" /\ r.fed = f /\ r.arg = request[j].arg /\ r.copy = doc
    <3>1. "remove" \in FedPlaces /\ "leave" \in FedCommands /\ f \in Referred /\ request[j].arg \in Meant /\ doc \in Copied
      BY <1>1, <1>3 DEF FedPlaces, FedCommands, Referred, Meant, Copied
    <3> QED
      BY <2>1, <3>1, Begun
  <2>3. request' = [request EXCEPT ![j] = r]
    BY <1>3, <2>1, <2>2 DEF Registry!Located, Registry!Set, BeginFed
  <2>4. Sound(r)
    BY <1>1, <1>3, <2>1, <2>2 DEF Sound, FedLookups
  <2>5. Registry!Subject(r) = r.arg /\ Registry!Subject(request[j]) = request[j].arg
    BY <1>1, <1>3, <2>1, <2>2, <2>4, SubjectIs
  <2> QED
    BY <1>3, <2>3, <2>1, <2>2, <2>4, <2>5
<1>4. CASE request[j].op = "evict" /\ f = request[j].fed
  <2>1. PICK r : r = FedMove(request[j], "remove", e)
    OBVIOUS
  <2>2. /\ r \in Requests
        /\ r.pc = "remove" /\ r.others = e /\ r.op = request[j].op /\ r.fed = request[j].fed /\ r.arg = request[j].arg
        /\ r.copy = request[j].copy /\ Registry!Subject(r) = Registry!Subject(request[j])
    <3>1. "remove" \in FedPlaces /\ e \in FedGiven /\ request[j] \in Requests
      BY <1>1 DEF FedPlaces
    <3> QED
      BY <2>1, <3>1, Further
  <2>3. request' = [request EXCEPT ![j] = r]
    BY <1>4, <1>2, <2>1, <2>2 DEF Registry!Located, Registry!Set, FedMove
  <2>4. Sound(r)
    BY <1>1, <1>4, <2>1, <2>2 DEF Sound, FedLookups
  <2> QED
    BY <1>4, <2>3, <2>1, <2>2, <2>4
<1>5. CASE request[j].op = "join" /\ f = None
  <2>1. PICK r : r = FedMove(request[j], "add", e)
    OBVIOUS
  <2>2. /\ r \in Requests
        /\ r.pc = "add" /\ r.others = e /\ r.op = request[j].op /\ r.fed = request[j].fed /\ r.arg = request[j].arg
        /\ r.copy = request[j].copy /\ Registry!Subject(r) = Registry!Subject(request[j])
    <3>1. "add" \in FedPlaces /\ e \in FedGiven /\ request[j] \in Requests
      BY <1>1 DEF FedPlaces
    <3> QED
      BY <2>1, <3>1, Further
  <2>3. request' = [request EXCEPT ![j] = r]
    BY <1>5, <1>2, <2>1, <2>2 DEF Registry!Located, Registry!Set, FedMove
  <2>4. Sound(r)
    BY <1>1, <1>5, <2>1, <2>2 DEF Sound, FedLookups
  <2> QED
    BY <1>5, <2>3, <2>1, <2>2, <2>4
<1>6. CASE ~ (request[j].op = "leave" /\ f # None) /\ ~ (request[j].op = "evict" /\ f = request[j].fed)
           /\ ~ (request[j].op = "join" /\ f = None)
  <2>1. request' = [request EXCEPT ![j] = Registry!Idle]
    BY <1>6 DEF Registry!Located, Registry!Stop, Registry!Set
  <2> QED
    BY <2>1, IdleIs
<1> QED
  BY <1>3, <1>4, <1>5, <1>6

\* Where a join goes on to add, the chat is nowhere else.
LEMMA LocatedKeeps ==
    ASSUME RegistryUsual, RegistryInv, NEW j \in Handlers, request[j].pc \in FedLookups,
           NEW f \in {None} \cup Feds, NEW doc, f # None => f \notin fresh /\ doc \in Registry!Documents,
           Registry!Located(j, f, doc), UNCHANGED <<federations, fresh, remembered, offers, reverted, entangled>>,
           request[j].op = "join" /\ f = None /\ request[j].arg \notin entangled => Listed(request[j].arg) = {}
    PROVE  RegistryInv'
<1>1. /\ request \in [Handlers -> Requests] /\ Sound(request[j]) /\ request[j].pc # "added"
      /\ remembered' \in [Chats -> {None} \cup Feds] /\ offers' \in [Feds -> {None} \cup (Users \X Users)]
  BY DEF RegistryInv, RegistryTyped, FedLookups
<1>2. PICK r \in Requests : /\ request' = [request EXCEPT ![j] = r] /\ Sound(r)
                            /\ \/ r = Registry!Idle
                               \/ r.pc = "remove" /\ r.op = request[j].op /\ r.arg = request[j].arg /\ r.op # "join"
                                  /\ Registry!Subject(r) = Registry!Subject(request[j])
                               \/ f = None /\ r.pc = "add" /\ r.op = "join" /\ r.op = request[j].op
                                  /\ r.arg = request[j].arg /\ Registry!Subject(r) = Registry!Subject(request[j])
  BY <1>1, LocatedIs
<1>3. Sound(r)'
  BY <1>2 DEF Sound
<1>4. Relies(r)'
  <2>1. CASE r = Registry!Idle
    BY <2>1, IdleIs
  <2>2. CASE r.pc = "remove"
    BY <2>2 DEF Relies
  <2>3. CASE f = None /\ r.pc = "add" /\ r.op = "join" /\ r.op = request[j].op /\ r.arg = request[j].arg
    <3>1. Listed(r.arg)' = Listed(r.arg)
      BY DEF Listed, Registry!Home
    <3> QED
      BY <2>3, <3>1 DEF Relies
  <2> QED
    BY <1>2, <2>1, <2>2, <2>3
<1>5. (r.op = request[j].op /\ Registry!Subject(r) = Registry!Subject(request[j])) \/ Registry!Subject(r) = None
  BY <1>2, IdleIs
<1>6. UNCHANGED <<federations, fresh, reverted>> /\ entangled \subseteq entangled'
      /\ \A c \in Chats : remembered'[c] \in {None, remembered[c]}
  OBVIOUS
<1> QED
  BY <1>1, <1>2, <1>3, <1>4, <1>5, <1>6, ReadKeeps

\* The lookup reads the federation that Redis names.
LEMMA GetKeeps ==
    ASSUME RegistryUsual, RegistryInv, NEW j \in Handlers, Registry!Get(j) PROVE RegistryInv'
<1>1. PICK x : x = request[j].others[1]
  OBVIOUS
<1>2. /\ request[j].pc = "get" /\ Registry!Located(j, IF federations[x] = None THEN None ELSE x, federations[x])
      /\ UNCHANGED <<federations, fresh, remembered, offers, reverted, entangled>>
  BY <1>1 DEF Registry!Get
<1>3. x \in Feds /\ federations[x] \in {None} \cup Registry!Documents /\ (federations[x] # None => x \notin fresh) /\ Relies(request[j])
  BY <1>1, <1>2 DEF RegistryInv, RegistryTyped, Sound
<1>4. PICK f : f = IF federations[x] = None THEN None ELSE x
  OBVIOUS
<1>5. f \in {None} \cup Feds /\ (f # None => f \notin fresh /\ federations[x] \in Registry!Documents) /\ request[j].pc \in FedLookups
  BY <1>2, <1>3, <1>4 DEF FedLookups
<1>6. request[j].op = "join" /\ f = None /\ request[j].arg \notin entangled => Listed(request[j].arg) = {}
  <2>1. SUFFICES ASSUME request[j].op = "join", f = None, request[j].arg \notin entangled PROVE Listed(request[j].arg) = {}
    OBVIOUS
  <2>2. federations[x] = None
    BY <1>3, <1>4, <2>1 DEF RegistryUsual
  <2>3. x \notin Listed(request[j].arg)
    BY <2>2 DEF Listed, Registry!Home
  <2>4. Listed(request[j].arg) \subseteq {x}
    BY <1>1, <1>2, <1>3, <2>1 DEF Relies
  <2> QED
    BY <2>3, <2>4
<1> QED
  BY <1>2, <1>4, <1>5, <1>6, LocatedKeeps

\* The lookup asks Redis.
LEMMA FedLookupKeeps ==
    ASSUME RegistryUsual, RegistryInv, NEW j \in Handlers, Registry!Lookup(j) PROVE RegistryInv'
<1>1. PICK c : c = request[j].arg
  OBVIOUS
<1>2. /\ request[j].pc = "lookup" /\ UNCHANGED <<federations, fresh, remembered, offers, reverted, entangled>>
      /\ request[j] \in Requests /\ Sound(request[j]) /\ c \in Chats
      /\ remembered \in [Chats -> {None} \cup Feds] /\ offers \in [Feds -> {None} \cup (Users \X Users)]
      /\ request \in [Handlers -> Requests]
  BY <1>1 DEF Registry!Lookup, RegistryInv, RegistryTyped, Sound, FedLookups
<1>3. CASE remembered[c] = None
  <2>1. PICK r : r = FedMoveOn(request[j], "find")
    OBVIOUS
  <2>2. /\ r \in Requests
        /\ r.pc = "find" /\ r.others = request[j].others /\ r.op = request[j].op /\ r.fed = request[j].fed /\ r.arg = request[j].arg
        /\ r.copy = request[j].copy /\ Registry!Subject(r) = Registry!Subject(request[j])
    <3>1. "find" \in FedPlaces /\ request[j] \in Requests
      BY <1>2 DEF FedPlaces, FedLookups
    <3> QED
      BY <2>1, <3>1, FurtherOn
  <2>3. request' = [request EXCEPT ![j] = r]
    BY <1>1, <1>3, <2>1, <2>2 DEF Registry!Lookup, Registry!Go, Registry!Set, FedMoveOn
  <2>4. Sound(r)' /\ Relies(r)'
    BY <1>2, <2>1, <2>2 DEF Sound, Relies, FedLookups
  <2> QED
    BY <1>2, <2>3, <2>1, <2>2, <2>4, ReadKeeps
<1>4. CASE remembered[c] # None
  <2>1. PICK r : r = FedMove(request[j], "get", <<remembered[c]>>)
    OBVIOUS
  <2>2. /\ r \in Requests
        /\ r.pc = "get" /\ r.others = <<remembered[c]>> /\ r.op = request[j].op /\ r.fed = request[j].fed /\ r.arg = request[j].arg
        /\ r.copy = request[j].copy /\ Registry!Subject(r) = Registry!Subject(request[j])
    <3>1. "get" \in FedPlaces /\ <<remembered[c]>> \in FedGiven /\ request[j] \in Requests
      BY <1>2, <1>4, GivenHas DEF FedPlaces, FedLookups
    <3> QED
      BY <2>1, <3>1, Further
  <2>3. request' = [request EXCEPT ![j] = r]
    BY <1>1, <1>4, <2>1, <2>2 DEF Registry!Lookup, Registry!Set, FedMove
  <2>4. remembered[c] \in Feds /\ r.others[1] = remembered[c]
    BY <1>2, <1>4, <2>1, <2>2
  <2>5. Sound(r)'
    BY <1>2, <2>1, <2>2, <2>4 DEF Sound, FedLookups
  <2>6. r.op = "join" /\ c \notin entangled => Listed(c) \subseteq {remembered[c]}
    <3>1. SUFFICES ASSUME r.op = "join", c \notin entangled, NEW i \in Handlers, request[i].pc = "added", request[i].arg = c
                   PROVE  FALSE
      BY <1>2, <1>4 DEF RegistryInv, RedisRight
    <3>2. request[i] \in Requests /\ Sound(request[i]) /\ request[i].op = "join" /\ i # j
      BY <1>2, <3>1 DEF RegistryInv, RegistryTyped, Sound
    <3>3. Registry!Subject(request[i]) = c /\ c # None
      BY <3>1, <3>2, SubjectIs
    <3>4. request[j].op = "join" /\ request[j] \in Requests /\ Sound(request[j])
      BY <1>2, <2>1, <2>2, <3>1
    <3>5. Registry!Subject(request[j]) = c
      BY <1>1, <3>4, SubjectIs
    <3> QED
      BY <3>1, <3>2, <3>3, <3>4, <3>5 DEF RegistryInv, Noticed, Registry!Conflict
  <2>7. Relies(r)'
    <3>1. Listed(c)' = Listed(c)
      BY <1>2 DEF Listed, Registry!Home
    <3> QED
      BY <1>1, <1>2, <2>1, <2>2, <2>4, <2>6, <3>1 DEF Relies
  <2> QED
    BY <1>2, <2>3, <2>1, <2>2, <2>5, <2>7, ReadKeeps
<1> QED
  BY <1>3, <1>4

\* The lookup asks MongoDB.
LEMMA FindChatKeeps ==
    ASSUME RegistryUsual, RegistryInv, NEW j \in Handlers, Registry!Find(j) PROVE RegistryInv'
<1>1. PICK c : c = request[j].arg
  OBVIOUS
<1>2. /\ request[j].pc = "find" /\ UNCHANGED <<federations, fresh, remembered, offers, reverted, entangled>>
      /\ request[j] \in Requests /\ Sound(request[j]) /\ request[j].pc \in FedLookups
      /\ remembered \in [Chats -> {None} \cup Feds] /\ offers \in [Feds -> {None} \cup (Users \X Users)]
      /\ request \in [Handlers -> Requests]
  BY DEF Registry!Find, RegistryInv, RegistryTyped, FedLookups
<1>3. CASE Registry!Home(c) = {}
  <2>1. Registry!Located(j, None, None)
    BY <1>1, <1>3 DEF Registry!Find
  <2>2. Listed(request[j].arg) = {}
    BY <1>1, <1>3 DEF Listed
  <2> QED
    BY <1>2, <2>1, <2>2, LocatedKeeps
<1>4. CASE Registry!Home(c) # {}
  <2>1. PICK f \in Registry!Home(c) : Registry!Set(j, [request[j] EXCEPT !.pc = "note", !.others = <<f, federations[f]>>])
    BY <1>1, <1>4 DEF Registry!Find
  <2>2. f \in Feds \ fresh /\ federations[f] \in Registry!Documents
    BY DEF Registry!Home, RegistryInv, RegistryTyped
  <2>3. PICK r : r = FedMove(request[j], "note", <<f, federations[f]>>)
    OBVIOUS
  <2>4. /\ r \in Requests
        /\ r.pc = "note" /\ r.others = <<f, federations[f]>> /\ r.op = request[j].op /\ r.fed = request[j].fed /\ r.arg = request[j].arg
        /\ r.copy = request[j].copy /\ Registry!Subject(r) = Registry!Subject(request[j])
    <3>1. "note" \in FedPlaces /\ <<f, federations[f]>> \in FedGiven /\ request[j] \in Requests
      BY <1>2, <2>2, GivenHas DEF FedPlaces, FedLookups
    <3> QED
      BY <2>3, <3>1, Further
  <2>5. request' = [request EXCEPT ![j] = r]
    BY <2>1, <2>3, <2>4 DEF Registry!Set, FedMove
  <2>6. r.others[1] = f /\ r.others[2] = federations[f]
    BY <2>3, <2>4
  <2>7. Sound(r)' /\ Relies(r)'
    BY <1>2, <2>2, <2>3, <2>4, <2>6 DEF Sound, Relies, FedLookups
  <2> QED
    BY <1>2, <2>5, <2>3, <2>4, <2>7, ReadKeeps
<1> QED
  BY <1>3, <1>4

\* The lookup writes what MongoDB said to Redis.
LEMMA NoteKeeps ==
    ASSUME RegistryUsual, RegistryInv, NEW j \in Handlers, Registry!Note(j) PROVE RegistryInv'
<1>1. PICK c : c = request[j].arg
  OBVIOUS
<1>2. PICK f : f = request[j].others[1]
  OBVIOUS
<1>3. PICK d : d = request[j].others[2]
  OBVIOUS
<1>4. /\ request[j].pc = "note" /\ UNCHANGED <<federations, fresh, offers, reverted>>
      /\ remembered' = [remembered EXCEPT ![c] = f] /\ Registry!Located(j, f, d)
      /\ entangled' = IF f \in Registry!Home(c) /\ Registry!Home(c) \ reverted \subseteq {f} THEN entangled ELSE entangled \cup {c}
  BY <1>1, <1>2, <1>3 DEF Registry!Note
<1>5. /\ request \in [Handlers -> Requests] /\ Sound(request[j]) /\ request[j].pc \in FedLookups /\ c \in Chats
      /\ f \in Feds \ fresh /\ f # None /\ d \in Registry!Documents
      /\ remembered \in [Chats -> {None} \cup Feds] /\ offers \in [Feds -> {None} \cup (Users \X Users)]
      /\ federations \in [Feds -> {None} \cup Registry!Documents] /\ fresh \subseteq {g \in Feds : federations[g] = None}
  BY <1>1, <1>2, <1>3, <1>4 DEF RegistryInv, RegistryTyped, FedLookups, Sound, RegistryUsual
<1>6. PICK r \in Requests : /\ request' = [request EXCEPT ![j] = r] /\ Sound(r)
                            /\ \/ r = Registry!Idle
                               \/ r.pc = "remove" /\ r.op = request[j].op /\ Registry!Subject(r) = Registry!Subject(request[j])
  BY <1>4, <1>5, LocatedIs
<1>7. Sound(r)' /\ Relies(r)'
  <2>1. Sound(r)'
    BY <1>4, <1>6 DEF Sound
  <2>2. Relies(r)'
    <3>1. CASE r = Registry!Idle
      BY <3>1, IdleIs
    <3>2. CASE r.pc = "remove"
      BY <3>2 DEF Relies
    <3> QED
      BY <1>6, <3>1, <3>2
  <2> QED
    BY <2>1, <2>2
<1>8. (r.op = request[j].op /\ Registry!Subject(r) = Registry!Subject(request[j])) \/ Registry!Subject(r) = None
  BY <1>6, IdleIs
<1>9. entangled \subseteq entangled' /\ remembered' \in [Chats -> {None} \cup Feds]
      /\ offers' \in [Feds -> {None} \cup (Users \X Users)]
      /\ federations' \in [Feds -> {None} \cup Registry!Documents] /\ fresh' \subseteq {g \in Feds : federations'[g] = None}
  BY <1>4, <1>5
<1>10. /\ \A e : Listed(e)' = Listed(e)
       /\ \A h, g \in Feds : Follows(h, g)' = Follows(h, g)
  BY <1>4 DEF Listed, Registry!Home, Follows
<1>11. SingleFed' /\ Followed'
  BY <1>4, <1>9, <1>10 DEF RegistryInv, SingleFed, Followed
<1>12. RedisRight'
  <2> SUFFICES ASSUME NEW e \in Chats \ entangled', remembered'[e] # None
               PROVE  \/ Listed(e)' \subseteq {remembered'[e]}
                      \/ \E i \in Handlers : request'[i].pc = "added" /\ request'[i].arg = e
    BY DEF RedisRight
  <2>1. CASE e = c
    <3>1. Listed(c) \subseteq {f}
      BY <1>4, <2>1 DEF Listed
    <3> QED
      BY <1>4, <1>5, <1>10, <2>1, <3>1
  <2>2. CASE e # c
    <3>1. remembered'[e] = remembered[e] /\ e \in Chats \ entangled
      BY <1>4, <1>5, <1>9, <2>2
    <3>2. CASE Listed(e) \subseteq {remembered[e]}
      BY <1>10, <3>1, <3>2
    <3>3. CASE \E i \in Handlers : request[i].pc = "added" /\ request[i].arg = e
      <4>1. PICK i \in Handlers : request[i].pc = "added" /\ request[i].arg = e
        BY <3>3
      <4>2. request'[i] = request[i]
        BY <1>4, <1>5, <1>6, <4>1, RequestSet
      <4> QED
        BY <4>1, <4>2
    <3> QED
      BY <3>1, <3>2, <3>3 DEF RegistryInv, RedisRight
  <2> QED
    BY <2>1, <2>2
<1> QED
  BY <1>4, <1>6, <1>7, <1>8, <1>9, <1>10, <1>11, <1>12, RequestKeeps

-----------------------------------------------------------------------------
(* Chats *)

\* What Redis remembers, where chats stay or leave and it only forgets.
LEMMA StillRemembered ==
    ASSUME RegistryInv, NEW j \in Handlers, NEW r \in Requests, request' = [request EXCEPT ![j] = r], request[j].pc # "added",
           entangled \subseteq entangled', \A c \in Chats \ entangled' : Listed(c)' \subseteq Listed(c),
           \A c \in Chats : remembered'[c] \in {None, remembered[c]}
    PROVE  RedisRight'
<1> SUFFICES ASSUME NEW c \in Chats \ entangled', remembered'[c] # None
             PROVE  \/ Listed(c)' \subseteq {remembered'[c]}
                    \/ \E i \in Handlers : request'[i].pc = "added" /\ request'[i].arg = c
  BY DEF RedisRight
<1>1. remembered'[c] = remembered[c] /\ remembered[c] # None /\ c \in Chats \ entangled
  OBVIOUS
<1>2. CASE Listed(c) \subseteq {remembered[c]}
  BY <1>1, <1>2
<1>3. CASE \E i \in Handlers : request[i].pc = "added" /\ request[i].arg = c
  <2>1. PICK i \in Handlers : request[i].pc = "added" /\ request[i].arg = c
    BY <1>3
  <2>2. request'[i] = request[i]
    BY <2>1, RequestSet DEF RegistryInv, RegistryTyped
  <2> QED
    BY <2>1, <2>2
<1> QED
  BY <1>1, <1>2, <1>3 DEF RegistryInv, RedisRight

\* A request that is over.
LEMMA StopKeeps ==
    ASSUME RegistryUsual, RegistryInv, NEW j \in Handlers, Registry!Stop(j), request[j].pc # "added",
           UNCHANGED <<federations, fresh, reverted, entangled>>, \A c \in Chats : remembered'[c] \in {None, remembered[c]},
           remembered' \in [Chats -> {None} \cup Feds], offers' \in [Feds -> {None} \cup (Users \X Users)]
    PROVE  RegistryInv'
<1>1. request' = [request EXCEPT ![j] = Registry!Idle]
  BY DEF Registry!Stop, Registry!Set
<1> QED
  BY <1>1, IdleIs, ReadKeeps

\* add_chat_to_federation saves the federation with the chat.
LEMMA AddKeeps ==
    ASSUME RegistryUsual, RegistryInv, NEW j \in Handlers, Registry!Add(j) PROVE RegistryInv'
<1>1. PICK c : c = request[j].arg
  OBVIOUS
<1>2. PICK f : f = request[j].fed
  OBVIOUS
<1>3. PICK read : read = request[j].copy
  OBVIOUS
<1>4. /\ request[j].pc = "add" /\ request[j].op = "join" /\ c \in Chats /\ f \in Feds \ fresh /\ read \in Registry!Documents
      /\ request[j] \in Requests /\ request \in [Handlers -> Requests] /\ remembered' = remembered
      /\ remembered \in [Chats -> {None} \cup Feds] /\ offers \in [Feds -> {None} \cup (Users \X Users)]
      /\ RegistryTyped /\ Relies(request[j])
  BY <1>1, <1>2, <1>3 DEF Registry!Add, RegistryInv, RegistryTyped, Sound
<1>5. CASE c \in read.chats
  <2>1. Registry!Stop(j) /\ UNCHANGED <<federations, fresh, offers, started, reverted, entangled>>
    BY <1>1, <1>3, <1>5 DEF Registry!Add
  <2> QED
    BY <1>4, <2>1, StopKeeps
<1>6. CASE c \notin read.chats
  <2>1. PICK doc : doc = [read EXCEPT !.chats = read.chats \cup {c}]
    OBVIOUS
  <2>2. doc \in Registry!Documents /\ doc.chats = read.chats \cup {c} /\ doc.subscribed = read.subscribed
    BY <1>4, <2>1 DEF Registry!Documents
  <2>3. Registry!Save(f, read, doc) /\ Registry!Go(j, "added")
    BY <1>1, <1>2, <1>3, <1>6, <2>1 DEF Registry!Add
  <2>4. /\ federations' \in [Feds -> {None} \cup Registry!Documents] /\ fresh' = fresh /\ entangled' = entangled
        /\ fresh' \subseteq {g \in Feds : federations'[g] = None} /\ reverted \subseteq reverted' /\ offers' = offers
        /\ \A d \in Chats : Listed(d)' \subseteq Listed(d) \cup {f}
        /\ \A d \in Chats : (d \in doc.chats => d \in read.chats) => Listed(d)' \subseteq Listed(d)
        /\ \A h, g \in Feds : Follows(h, g)' =>
               Follows(h, g) \/ (h = f /\ g \in doc.subscribed /\ g \notin read.subscribed)
        /\ \A g \in Feds : federations[g] # None => federations'[g] # None
    BY <1>4, <2>2, <2>3, Saved
  <2>5. PICK r : r = FedMoveOn(request[j], "added")
    OBVIOUS
  <2>6. /\ r \in Requests /\ r.pc = "added" /\ r.op = request[j].op /\ r.fed = f /\ r.arg = c
        /\ r.copy = read /\ Registry!Subject(r) = Registry!Subject(request[j])
    <3>1. "added" \in FedPlaces
      BY DEF FedPlaces
    <3> QED
      BY <1>1, <1>2, <1>3, <1>4, <2>5, <3>1, FurtherOn
  <2>7. request' = [request EXCEPT ![j] = r]
    BY <2>3, <2>5 DEF Registry!Go, Registry!Set, FedMoveOn
  <2>8. \A d \in Chats \ {c} : Listed(d)' \subseteq Listed(d)
    BY <2>2, <2>4
  <2>9. c \notin entangled => Listed(c)' \subseteq {f}
    BY <1>1, <1>4, <2>4 DEF Relies
  <2>10. \A h, g \in Feds : Follows(h, g)' => Follows(h, g)
    BY <2>2, <2>4
  <2>11. Sound(r)'
    BY <1>4, <2>4, <2>6 DEF Sound, FedLookups
  <2>12. Relies(r)'
    BY <1>4, <2>4, <2>6, <2>9 DEF Relies
  <2>13. SingleFed'
    BY <2>4, <2>8, <2>9 DEF RegistryInv, SingleFed
  <2>14. Followed'
    BY <2>4, <2>10 DEF RegistryInv, Followed
  <2>15. RedisRight'
    <3> SUFFICES ASSUME NEW d \in Chats \ entangled', remembered'[d] # None
                 PROVE  \/ Listed(d)' \subseteq {remembered'[d]}
                        \/ \E i \in Handlers : request'[i].pc = "added" /\ request'[i].arg = d
      BY DEF RedisRight
    <3>1. request'[j] = r /\ \A i \in Handlers \ {j} : request'[i] = request[i]
      BY <1>4, <2>6, <2>7, RequestSet
    <3>2. CASE d = c
      BY <2>6, <3>1, <3>2
    <3>3. CASE d # c
      <4>1. CASE Listed(d) \subseteq {remembered[d]}
        BY <1>4, <2>8, <3>3, <4>1
      <4>2. CASE \E i \in Handlers : request[i].pc = "added" /\ request[i].arg = d
        BY <1>4, <3>1, <4>2
      <4> QED
        BY <1>4, <2>4, <4>1, <4>2 DEF RegistryInv, RedisRight
    <3> QED
      BY <3>2, <3>3
  <2> QED
    BY <1>1, <1>4, <2>4, <2>6, <2>7, <2>8, <2>10, <2>11, <2>12, <2>13, <2>14, <2>15, RequestKeeps
<1> QED
  BY <1>5, <1>6

\* It tells Redis.
LEMMA AddedKeeps ==
    ASSUME RegistryUsual, RegistryInv, NEW j \in Handlers, Registry!Added(j) PROVE RegistryInv'
<1>1. PICK c : c = request[j].arg
  OBVIOUS
<1>2. PICK f : f = request[j].fed
  OBVIOUS
<1>3. /\ request[j].pc = "added" /\ request[j].op = "join" /\ c \in Chats /\ f \in Feds
      /\ request \in [Handlers -> Requests] /\ request' = [request EXCEPT ![j] = Registry!Idle]
      /\ remembered' = [remembered EXCEPT ![c] = f] /\ remembered' \in [Chats -> {None} \cup Feds]
      /\ UNCHANGED <<federations, fresh, offers, reverted, entangled>>
      /\ offers' \in [Feds -> {None} \cup (Users \X Users)]
      /\ federations' \in [Feds -> {None} \cup Registry!Documents] /\ fresh' \subseteq {g \in Feds : federations'[g] = None}
      /\ remembered \in [Chats -> {None} \cup Feds]
  BY <1>1, <1>2 DEF Registry!Added, RegistryInv, RegistryTyped, Sound, Registry!Stop, Registry!Set
<1>4. /\ \A e : Listed(e)' = Listed(e)
      /\ \A h, g \in Feds : Follows(h, g)' = Follows(h, g)
  BY <1>3 DEF Listed, Registry!Home, Follows
<1>5. SingleFed' /\ Followed'
  BY <1>3, <1>4 DEF RegistryInv, SingleFed, Followed
<1>6. RedisRight'
  <2> SUFFICES ASSUME NEW d \in Chats \ entangled', remembered'[d] # None
               PROVE  \/ Listed(d)' \subseteq {remembered'[d]}
                      \/ \E i \in Handlers : request'[i].pc = "added" /\ request'[i].arg = d
    BY DEF RedisRight
  <2>1. CASE d = c
    <3>1. Listed(c) \subseteq {f}
      BY <1>1, <1>2, <1>3, <2>1 DEF RegistryInv, Relies
    <3> QED
      BY <1>3, <1>4, <2>1, <3>1
  <2>2. CASE d # c
    <3>1. remembered'[d] = remembered[d]
      BY <1>3, <2>2
    <3>2. CASE Listed(d) \subseteq {remembered[d]}
      BY <1>4, <3>1, <3>2
    <3>3. CASE \E i \in Handlers : request[i].pc = "added" /\ request[i].arg = d
      <4>1. PICK i \in Handlers : request[i].pc = "added" /\ request[i].arg = d
        BY <3>3
      <4>2. request'[i] = request[i]
        BY <1>1, <1>3, <2>2, <4>1
      <4> QED
        BY <4>1, <4>2
    <3> QED
      BY <1>3, <3>1, <3>2, <3>3 DEF RegistryInv, RedisRight
  <2> QED
    BY <2>1, <2>2
<1>7. /\ \A e \in Chats \ entangled' : Listed(e)' \subseteq Listed(e)
      /\ \A h, g \in Feds : Follows(h, g)' => Follows(h, g)
  BY <1>4
<1> QED
  BY <1>3, <1>5, <1>6, <1>7, IdleIs, RequestKeeps

\* remove_chat_from_federation saves the federation without the chat.
LEMMA RemoveKeeps ==
    ASSUME RegistryUsual, RegistryInv, NEW j \in Handlers, Registry!Remove(j) PROVE RegistryInv'
<1>1. PICK c : c = request[j].arg
  OBVIOUS
<1>2. PICK f : f = request[j].fed
  OBVIOUS
<1>3. PICK read : read = request[j].copy
  OBVIOUS
<1>4. /\ request[j].pc = "remove" /\ request[j].op \in {"leave", "evict"} /\ c \in Chats /\ f \in Feds \ fresh
      /\ read \in Registry!Documents /\ request[j] \in Requests /\ request \in [Handlers -> Requests] /\ remembered' = remembered
      /\ remembered \in [Chats -> {None} \cup Feds] /\ offers \in [Feds -> {None} \cup (Users \X Users)]
      /\ RegistryTyped
  BY <1>1, <1>2, <1>3 DEF Registry!Remove, RegistryInv, RegistryTyped, Sound
<1>5. CASE c \notin read.chats
  <2>1. Registry!Stop(j) /\ UNCHANGED <<federations, fresh, offers, started, reverted, entangled>>
    BY <1>1, <1>3, <1>5 DEF Registry!Remove
  <2> QED
    BY <1>4, <2>1, StopKeeps
<1>6. CASE c \in read.chats
  <2>1. PICK doc : doc = [read EXCEPT !.chats = read.chats \ {c}]
    OBVIOUS
  <2>2. doc \in Registry!Documents /\ doc.chats = read.chats \ {c} /\ doc.subscribed = read.subscribed
    BY <1>4, <2>1 DEF Registry!Documents
  <2>3. Registry!Save(f, read, doc) /\ Registry!Go(j, "removed")
    BY <1>1, <1>2, <1>3, <1>6, <2>1 DEF Registry!Remove
  <2>4. /\ federations' \in [Feds -> {None} \cup Registry!Documents] /\ fresh' = fresh /\ entangled' = entangled
        /\ fresh' \subseteq {g \in Feds : federations'[g] = None} /\ reverted \subseteq reverted' /\ offers' = offers
        /\ \A d \in Chats : (d \in doc.chats => d \in read.chats) => Listed(d)' \subseteq Listed(d)
        /\ \A h, g \in Feds : Follows(h, g)' =>
               Follows(h, g) \/ (h = f /\ g \in doc.subscribed /\ g \notin read.subscribed)
        /\ \A g \in Feds : federations[g] # None => federations'[g] # None
    BY <1>4, <2>2, <2>3, Saved
  <2>5. PICK r : r = FedMoveOn(request[j], "removed")
    OBVIOUS
  <2>6. /\ r \in Requests /\ r.pc = "removed" /\ r.op = request[j].op /\ r.fed = f /\ r.arg = c
        /\ r.copy = read /\ Registry!Subject(r) = Registry!Subject(request[j])
    <3>1. "removed" \in FedPlaces
      BY DEF FedPlaces
    <3> QED
      BY <1>1, <1>2, <1>3, <1>4, <2>5, <3>1, FurtherOn
  <2>7. request' = [request EXCEPT ![j] = r]
    BY <2>3, <2>5 DEF Registry!Go, Registry!Set, FedMoveOn
  <2>8. Sound(r)' /\ Relies(r)'
    BY <1>4, <2>4, <2>6 DEF Sound, FedLookups, Relies
  <2>9. /\ \A d \in Chats \ entangled' : Listed(d)' \subseteq Listed(d)
        /\ \A h, g \in Feds : Follows(h, g)' => Follows(h, g)
    BY <2>2, <2>4
  <2> QED
    BY <1>4, <2>4, <2>6, <2>7, <2>8, <2>9, ShrinkKeeps
<1> QED
  BY <1>5, <1>6

\* It deletes what Redis says.
LEMMA RemovedKeeps ==
    ASSUME RegistryUsual, RegistryInv, NEW j \in Handlers, Registry!Removed(j) PROVE RegistryInv'
<1>1. /\ request[j].pc = "removed" /\ remembered' = [remembered EXCEPT ![request[j].arg] = None] /\ Registry!Stop(j)
      /\ UNCHANGED <<federations, fresh, offers, reverted, entangled>>
      /\ remembered \in [Chats -> {None} \cup Feds] /\ offers \in [Feds -> {None} \cup (Users \X Users)]
  BY DEF Registry!Removed, RegistryInv, RegistryTyped
<1>2. remembered' \in [Chats -> {None} \cup Feds] /\ \A c \in Chats : remembered'[c] \in {None, remembered[c]}
  BY <1>1
<1> QED
  BY <1>1, <1>2, StopKeeps

-----------------------------------------------------------------------------
(* Federations *)

\* create_federation inserts the federation.
LEMMA FedInsertKeeps ==
    ASSUME RegistryUsual, RegistryInv, NEW j \in Handlers, Registry!Insert(j) PROVE RegistryInv'
<1>1. PICK f \in fresh : federations' = [federations EXCEPT ![f] = Registry!Document(request[j].arg)] /\ fresh' = fresh \ {f}
  BY DEF Registry!Insert
<1>2. /\ request[j].pc = "insert" /\ request' = [request EXCEPT ![j] = Registry!Idle] /\ UNCHANGED <<remembered, offers, reverted, entangled>>
      /\ request[j].arg \in Users /\ federations \in [Feds -> {None} \cup Registry!Documents]
      /\ fresh \subseteq {g \in Feds : federations[g] = None}
      /\ remembered \in [Chats -> {None} \cup Feds] /\ offers \in [Feds -> {None} \cup (Users \X Users)]
  BY DEF Registry!Insert, RegistryInv, RegistryTyped, Sound, Registry!Stop, Registry!Set
<1>3. PICK d : d = Registry!Document(request[j].arg)
  OBVIOUS
<1>4. d \in Registry!Documents /\ d.chats = {} /\ d.subscribed = {} /\ d # None
  BY <1>2, <1>3 DEF Registry!Document, Registry!Documents, RegistryUsual
<1>5. /\ federations' \in [Feds -> {None} \cup Registry!Documents] /\ federations'[f] = d /\ \A g \in Feds \ {f} : federations'[g] = federations[g]
      /\ federations[f] = None /\ f \in Feds
  BY <1>1, <1>2, <1>3, <1>4
<1>6. fresh' \subseteq {g \in Feds : federations'[g] = None}
  BY <1>1, <1>2, <1>5
<1>7. \A c \in Chats \ entangled' : Listed(c)' \subseteq Listed(c)
  BY <1>2, <1>4, <1>5 DEF Listed, Registry!Home
<1>8. \A h, g \in Feds : Follows(h, g)' => Follows(h, g)
  BY <1>2, <1>4, <1>5 DEF Follows
<1>9. \A g \in Feds : federations[g] # None => federations'[g] # None
  BY <1>5
<1> QED
  BY <1>1, <1>2, <1>5, <1>6, <1>7, <1>8, <1>9, IdleIs, ShrinkKeeps

\* subscribe_to_federation looks the other federation up.
LEMMA TargetKeeps ==
    ASSUME RegistryUsual, RegistryInv, NEW j \in Handlers, Registry!Target(j) PROVE RegistryInv'
<1>1. /\ request[j].pc = "target" /\ request[j].op = "subscribe" /\ UNCHANGED <<federations, fresh, remembered, offers, reverted, entangled>>
      /\ remembered \in [Chats -> {None} \cup Feds] /\ offers \in [Feds -> {None} \cup (Users \X Users)]
      /\ request[j] \in Requests /\ Sound(request[j])
  BY DEF Registry!Target, RegistryInv, RegistryTyped, Sound
<1>2. CASE Registry!Stop(j)
  BY <1>1, <1>2, StopKeeps
<1>3. CASE federations[request[j].arg] # None /\ Registry!Go(j, "write")
  <2>1. PICK r : r = FedMoveOn(request[j], "write")
    OBVIOUS
  <2>2. /\ r \in Requests /\ r.pc = "write" /\ r.op = request[j].op /\ r.fed = request[j].fed /\ r.arg = request[j].arg
        /\ r.copy = request[j].copy /\ Registry!Subject(r) = Registry!Subject(request[j])
    <3>1. "write" \in FedPlaces
      BY DEF FedPlaces
    <3> QED
      BY <1>1, <2>1, <3>1, FurtherOn
  <2>3. request' = [request EXCEPT ![j] = r]
    BY <1>3, <2>1 DEF Registry!Go, Registry!Set, FedMoveOn
  <2>4. Sound(r)' /\ Relies(r)'
    BY <1>1, <1>3, <2>2 DEF Sound, FedLookups, Relies
  <2> QED
    BY <1>1, <2>2, <2>3, <2>4, ReadKeeps
<1> QED
  BY <1>2, <1>3 DEF Registry!Target

\* What the copy is changed to.
LEMMA ChangedIs ==
    ASSUME NEW r \in Requests, Sound(r), r.pc = "write"
    PROVE  /\ Registry!Changed(r) \in Registry!Documents /\ Registry!Changed(r).chats = r.copy.chats
           /\ r.op # "subscribe" => Registry!Changed(r).subscribed \subseteq r.copy.subscribed
           /\ r.op = "subscribe" => Registry!Changed(r).subscribed \subseteq r.copy.subscribed \cup {r.arg}
<1>1. r.copy \in Registry!Documents /\ r.op \in {"edit", "subscribe", "unsubscribe", "accept"}
  BY DEF Sound
<1>2. CASE r.op = "subscribe"
  <2>1. Registry!Changed(r) = [r.copy EXCEPT !.subscribed = r.copy.subscribed \cup {r.arg}] /\ r.arg \in Feds
    BY <1>2 DEF Registry!Changed, Sound
  <2> QED
    BY <1>1, <1>2, <2>1 DEF Registry!Documents
<1>3. CASE r.op = "unsubscribe"
  <2>1. Registry!Changed(r) = [r.copy EXCEPT !.subscribed = r.copy.subscribed \ {r.arg}]
    BY <1>3 DEF Registry!Changed
  <2> QED
    BY <1>1, <1>3, <2>1 DEF Registry!Documents
<1>4. CASE r.op = "accept"
  <2>1. Registry!Changed(r) = [r.copy EXCEPT !.owner = r.arg] /\ r.arg \in Users
    BY <1>4 DEF Registry!Changed, Sound
  <2> QED
    BY <1>1, <1>4, <2>1 DEF Registry!Documents
<1>5. CASE r.op = "edit"
  <2>1. Registry!Changed(r) = r.copy
    BY <1>5 DEF Registry!Changed
  <2> QED
    BY <1>1, <1>5, <2>1
<1> QED
  BY <1>1, <1>2, <1>3, <1>4, <1>5

\* A request saves the copy it changed.
LEMMA FedWriteKeeps ==
    ASSUME RegistryUsual, RegistryInv, NEW j \in Handlers, Registry!Write(j) PROVE RegistryInv'
<1>1. PICK f : f = request[j].fed
  OBVIOUS
<1>2. PICK read : read = request[j].copy
  OBVIOUS
<1>3. PICK doc : doc = Registry!Changed(request[j])
  OBVIOUS
<1>4. PICK x : x = request[j].arg
  OBVIOUS
<1>5. /\ request[j].pc = "write" /\ request[j].op \in {"edit", "subscribe", "unsubscribe", "accept"}
      /\ f \in Feds \ fresh /\ read \in Registry!Documents /\ request[j] \in Requests /\ Sound(request[j])
      /\ request' = [request EXCEPT ![j] = Registry!Idle] /\ remembered' = remembered /\ RegistryTyped /\ Relies(request[j])
      /\ remembered \in [Chats -> {None} \cup Feds] /\ offers \in [Feds -> {None} \cup (Users \X Users)]
      /\ Registry!Save(f, read, doc)
  BY <1>1, <1>2, <1>3 DEF Registry!Write, RegistryInv, RegistryTyped, Sound, Registry!Stop,
      Registry!Set
<1>6. /\ doc \in Registry!Documents /\ doc.chats = read.chats
      /\ request[j].op # "subscribe" => doc.subscribed \subseteq read.subscribed
      /\ request[j].op = "subscribe" => doc.subscribed \subseteq read.subscribed \cup {x}
  BY <1>2, <1>3, <1>4, <1>5, ChangedIs
<1>7. /\ federations' \in [Feds -> {None} \cup Registry!Documents] /\ fresh' = fresh /\ entangled' = entangled
      /\ fresh' \subseteq {g \in Feds : federations'[g] = None} /\ reverted \subseteq reverted' /\ offers' = offers
      /\ \A d \in Chats : (d \in doc.chats => d \in read.chats) => Listed(d)' \subseteq Listed(d)
      /\ \A h, g \in Feds : Follows(h, g)' =>
             Follows(h, g) \/ (h = f /\ g \in doc.subscribed /\ g \notin read.subscribed)
      /\ \A g \in Feds : federations[g] # None => federations'[g] # None
  BY <1>5, <1>6, Saved
<1>8. \A d \in Chats \ entangled' : Listed(d)' \subseteq Listed(d)
  BY <1>6, <1>7
<1>9. Registry!Subject(Registry!Idle) = None /\ Registry!Idle \in Requests /\ Sound(Registry!Idle)' /\ Relies(Registry!Idle)'
  BY IdleIs
<1>10. CASE request[j].op # "subscribe"
  <2>1. \A h, g \in Feds : Follows(h, g)' => Follows(h, g)
    BY <1>6, <1>7, <1>10
  <2> QED
    BY <1>5, <1>7, <1>8, <1>9, <2>1, ShrinkKeeps
<1>11. CASE request[j].op = "subscribe"
  <2>1. \A h, g \in Feds : Follows(h, g)' => Follows(h, g) \/ g = x
    BY <1>6, <1>7, <1>11
  <2>2. x \notin reverted \cup entangled => federations[x] # None
    BY <1>4, <1>5, <1>11 DEF Relies
  <2>3. Followed'
    BY <1>7, <2>1, <2>2 DEF RegistryInv, Followed
  <2>4. SingleFed'
    BY <1>7, <1>8 DEF RegistryInv, SingleFed
  <2>5. RedisRight'
    BY <1>5, <1>7, <1>8, <1>9, StillRemembered
  <2>6. \A h, g \in Feds : Follows(h, g)' => Follows(h, g) \/ (request[j].op = "subscribe" /\ request[j].arg = g)
    BY <1>4, <1>11, <2>1
  <2> QED
    BY <1>5, <1>7, <1>8, <1>9, <2>3, <2>4, <2>5, <2>6, RequestKeeps
<1> QED
  BY <1>10, <1>11

\* The offer of a transfer is taken.
LEMMA AcceptKeeps ==
    ASSUME RegistryUsual, RegistryInv, NEW j \in Handlers, NEW f \in Feds, Registry!Accept(j, f) PROVE RegistryInv'
<1>1. /\ request[j].pc = "idle" /\ offers[f] # None /\ offers' = [offers EXCEPT ![f] = None]
      /\ UNCHANGED <<federations, fresh, remembered, reverted, entangled>> /\ request \in [Handlers -> Requests]
      /\ remembered' \in [Chats -> {None} \cup Feds] /\ offers \in [Feds -> {None} \cup (Users \X Users)]
      /\ federations \in [Feds -> {None} \cup Registry!Documents] /\ fresh \subseteq {g \in Feds : federations[g] = None}
  BY DEF Registry!Accept, RegistryInv, RegistryTyped
<1>2. offers' \in [Feds -> {None} \cup (Users \X Users)] /\ offers[f][2] \in Users
  BY <1>1
<1>3. CASE federations[f] # None /\ federations[f].owner = offers[f][1]
  <2>1. PICK r : r = BeginFed("write", "accept", f, offers[f][2], federations[f])
    OBVIOUS
  <2>2. request' = [request EXCEPT ![j] = r]
    BY <1>3, <2>1 DEF Registry!Accept, Registry!Set, BeginFed
  <2>3. r \in Requests /\ r.pc = "write" /\ r.op = "accept" /\ r.fed = f /\ r.arg = offers[f][2] /\ r.copy = federations[f]
    <3>1. /\ "write" \in FedPlaces /\ "accept" \in FedCommands /\ f \in Referred /\ offers[f][2] \in Meant
          /\ federations[f] \in Copied
      BY <1>1, <1>2 DEF FedPlaces, FedCommands, Referred, Meant, Copied
    <3> QED
      BY <2>1, <3>1, Begun
  <2>4. Sound(r) /\ f \notin fresh
    BY <1>1, <1>2, <1>3, <2>3 DEF Sound, FedLookups
  <2>5. Registry!Subject(r) = None
    BY <2>3, <2>4, SubjectIs
  <2>6. Sound(r)' /\ Relies(r)'
    BY <1>1, <2>3, <2>4 DEF Sound, Relies
  <2> QED
    BY <1>1, <1>2, <2>2, <2>3, <2>5, <2>6, ReadKeeps
<1>4. CASE ~ (federations[f] # None /\ federations[f].owner = offers[f][1])
  <2>1. PICK r \in Requests : r = request[j]
    BY <1>1
  <2>2. request' = [request EXCEPT ![j] = r]
    BY <1>1, <1>4, <2>1 DEF Registry!Accept
  <2>3. r.pc = "idle" /\ r.op = "none"
    BY <1>1, <2>1 DEF RegistryInv, RegistryTyped, Sound
  <2>4. Sound(r)' /\ Relies(r)'
    BY <2>3 DEF Sound, Relies, FedLookups
  <2>5. r.op = request[j].op /\ Registry!Subject(r) = Registry!Subject(request[j])
    BY <2>1
  <2> QED
    BY <1>1, <1>2, <2>2, <2>4, <2>5, ReadKeeps
<1> QED
  BY <1>3, <1>4

\* delete_federation lists the subscribers.
LEMMA SubscribersKeeps ==
    ASSUME RegistryUsual, RegistryInv, NEW j \in Handlers, Registry!Subscribers(j) PROVE RegistryInv'
<1>1. PICK f : f = request[j].fed
  OBVIOUS
<1>2. PICK S : S = {g \in Feds : federations[g] # None /\ f \in federations[g].subscribed}
  OBVIOUS
<1>3. PICK m : m = [g \in S |-> federations[g]]
  OBVIOUS
<1>4. /\ request[j].pc = "subscribers" /\ request[j].op = "delete" /\ UNCHANGED <<federations, fresh, remembered, offers, reverted, entangled>>
      /\ remembered \in [Chats -> {None} \cup Feds] /\ offers \in [Feds -> {None} \cup (Users \X Users)]
      /\ request[j] \in Requests /\ Sound(request[j]) /\ f \in Feds
      /\ federations \in [Feds -> {None} \cup Registry!Documents] /\ fresh \subseteq {g \in Feds : federations[g] = None}
  BY <1>1 DEF Registry!Subscribers, RegistryInv, RegistryTyped, Sound
<1>5. m \in [S -> Registry!Documents] /\ DOMAIN m = S /\ S \subseteq Feds \ fresh /\ S \in SUBSET Feds
  BY <1>2, <1>3, <1>4
<1>6. PICK r : r = FedMove(request[j], "release", m)
  OBVIOUS
<1>7. request' = [request EXCEPT ![j] = r]
  <2>1. Registry!Set(j, [request[j] EXCEPT !.pc = "release", !.others = m])
    BY <1>1, <1>2, <1>3 DEF Registry!Subscribers
  <2> QED
    BY <1>6, <2>1 DEF Registry!Set, FedMove
<1>8. /\ r \in Requests /\ r.pc = "release" /\ r.others = m /\ r.op = request[j].op /\ r.fed = request[j].fed
      /\ r.arg = request[j].arg /\ r.copy = request[j].copy /\ Registry!Subject(r) = Registry!Subject(request[j])
  <2>1. "release" \in FedPlaces /\ m \in FedGiven
    BY <1>5, GivenHas DEF FedPlaces
  <2> QED
    BY <1>4, <1>6, <2>1, Further
<1>9. Sound(r)'
  BY <1>4, <1>5, <1>8 DEF Sound, FedLookups
<1>10. \A h \in Feds : Follows(h, f)' => h \in S
  BY <1>2, <1>4 DEF Follows
<1>11. Relies(r)'
  BY <1>1, <1>4, <1>5, <1>8, <1>10 DEF Relies
<1> QED
  BY <1>4, <1>7, <1>8, <1>9, <1>11, ReadKeeps

\* A request with something else to keep.
FedMoveWith(w, o) == [w EXCEPT !.others = o]

\* A request that goes on with another list keeps the rest.
LEMMA FurtherWith ==
    ASSUME NEW w \in Requests, NEW o \in FedGiven, NEW r, r = FedMoveWith(w, o)
    PROVE  /\ r \in Requests /\ r.pc = w.pc /\ r.others = o /\ r.op = w.op /\ r.fed = w.fed /\ r.arg = w.arg
           /\ r.copy = w.copy /\ Registry!Subject(r) = Registry!Subject(w)
<1>1. r = [pc |-> w.pc, op |-> w.op, fed |-> w.fed, arg |-> w.arg, copy |-> w.copy, others |-> o]
  BY DEF Requests, FedMoveWith
<1>2. r \in Requests
  BY <1>1 DEF Requests
<1> QED
  BY <1>1, <1>2 DEF Registry!Subject

\* delete_federation unsubscribes one of them, or has done so with all.
LEMMA FedReleaseKeeps ==
    ASSUME RegistryUsual, RegistryInv, NEW j \in Handlers, Registry!Release(j) PROVE RegistryInv'
<1>1. PICK f : f = request[j].fed
  OBVIOUS
<1>2. PICK m : m = request[j].others
  OBVIOUS
<1>3. PICK S : S = DOMAIN m
  OBVIOUS
<1>4. /\ request[j].pc = "release" /\ request[j].op = "delete" /\ request[j] \in Requests /\ Sound(request[j]) /\ Relies(request[j])
      /\ S \subseteq Feds \ fresh /\ m \in [S -> Registry!Documents] /\ f \in Feds /\ RegistryTyped
      /\ remembered \in [Chats -> {None} \cup Feds] /\ offers \in [Feds -> {None} \cup (Users \X Users)]
  BY <1>1, <1>2, <1>3 DEF Registry!Release, RegistryInv, RegistryTyped, Sound
<1>5. CASE S = {}
  <2>1. /\ remembered' = [c \in Chats |-> IF c \in request[j].copy.chats THEN None ELSE remembered[c]] /\ Registry!Go(j, "erase")
        /\ UNCHANGED <<federations, fresh, offers, reverted, entangled>>
    BY <1>2, <1>3, <1>5 DEF Registry!Release
  <2>2. /\ remembered' \in [Chats -> {None} \cup Feds] /\ offers' \in [Feds -> {None} \cup (Users \X Users)]
        /\ \A c \in Chats : remembered'[c] \in {None, remembered[c]}
    BY <1>4, <2>1
  <2>3. PICK r : r = FedMoveOn(request[j], "erase")
    OBVIOUS
  <2>4. request' = [request EXCEPT ![j] = r]
    BY <2>1, <2>3 DEF Registry!Go, Registry!Set, FedMoveOn
  <2>5. /\ r \in Requests /\ r.pc = "erase" /\ r.op = request[j].op /\ r.fed = request[j].fed
        /\ r.arg = request[j].arg /\ r.copy = request[j].copy /\ Registry!Subject(r) = Registry!Subject(request[j])
    <3>1. "erase" \in FedPlaces
      BY DEF FedPlaces
    <3> QED
      BY <1>4, <2>3, <3>1, FurtherOn
  <2>6. \A h \in Feds : Follows(h, f)' = Follows(h, f)
    BY <2>1 DEF Follows
  <2>7. f \notin reverted \cup entangled => \A h \in Feds : ~Follows(h, f)
    BY <1>1, <1>2, <1>3, <1>4, <1>5 DEF Relies
  <2>8. Sound(r)' /\ Relies(r)'
    <3>1. Sound(r)'
      BY <1>4, <2>1, <2>5 DEF Sound, FedLookups
    <3>2. Relies(r)'
      BY <1>1, <1>4, <2>1, <2>5, <2>6, <2>7 DEF Relies
    <3> QED
      BY <3>1, <3>2
  <2> QED
    BY <1>4, <2>1, <2>2, <2>4, <2>5, <2>8, ReadKeeps
<1>6. CASE S # {}
  <2>1. PICK g \in S : /\ Registry!Save(g, m[g], [m[g] EXCEPT !.subscribed = m[g].subscribed \ {f}])
                       /\ Registry!Set(j, [request[j] EXCEPT !.others = [h \in S \ {g} |-> m[h]]])
    BY <1>1, <1>2, <1>3, <1>6 DEF Registry!Release
  <2>2. remembered' = remembered
    BY <1>2, <1>3, <1>6 DEF Registry!Release
  <2>3. PICK doc : doc = [m[g] EXCEPT !.subscribed = m[g].subscribed \ {f}]
    OBVIOUS
  <2>4. PICK rest : rest = [h \in S \ {g} |-> m[h]]
    OBVIOUS
  <2>5. /\ m[g] \in Registry!Documents /\ doc \in Registry!Documents /\ doc.chats = m[g].chats
        /\ doc.subscribed = m[g].subscribed \ {f} /\ g \in Feds \ fresh
    BY <1>4, <2>3 DEF Registry!Documents
  <2>6. rest \in [S \ {g} -> Registry!Documents] /\ DOMAIN rest = S \ {g} /\ S \ {g} \in SUBSET Feds
    BY <1>4, <2>4
  <2>7. /\ federations' \in [Feds -> {None} \cup Registry!Documents] /\ fresh' = fresh /\ entangled' = entangled
        /\ fresh' \subseteq {h \in Feds : federations'[h] = None} /\ reverted \subseteq reverted' /\ offers' = offers
        /\ \A d \in Chats : (d \in doc.chats => d \in m[g].chats) => Listed(d)' \subseteq Listed(d)
        /\ \A h, i \in Feds : Follows(h, i)' =>
               Follows(h, i) \/ (h = g /\ i \in doc.subscribed /\ i \notin m[g].subscribed)
        /\ \A h, i \in Feds : Follows(h, i)' /\ h = g => i \in doc.subscribed
        /\ \A i \in Feds : federations[i] # None => federations'[i] # None
    <3>1. Registry!Save(g, m[g], doc)
      BY <2>1, <2>3
    <3> QED
      BY <1>4, <2>5, <3>1, Saved
  <2>8. PICK r : r = FedMoveWith(request[j], rest)
    OBVIOUS
  <2>9. request' = [request EXCEPT ![j] = r]
    BY <2>1, <2>4, <2>8 DEF Registry!Set, FedMoveWith
  <2>10. /\ r \in Requests /\ r.pc = "release" /\ r.others = rest /\ r.op = request[j].op /\ r.fed = f
         /\ r.arg = request[j].arg /\ r.copy = request[j].copy /\ Registry!Subject(r) = Registry!Subject(request[j])
    <3>1. rest \in FedGiven
      BY <2>6, GivenHas
    <3> QED
      BY <1>1, <1>4, <2>8, <3>1, FurtherWith
  <2>11. /\ \A d \in Chats \ entangled' : Listed(d)' \subseteq Listed(d)
         /\ \A h, i \in Feds : Follows(h, i)' => Follows(h, i)
    BY <2>5, <2>7
  <2>12. Sound(r)'
    BY <1>1, <1>4, <2>6, <2>7, <2>10 DEF Sound, FedLookups
  <2>13. f \notin reverted' \cup entangled' => \A h \in Feds : Follows(h, f)' => h \in S \ {g}
    <3> SUFFICES ASSUME f \notin reverted' \cup entangled', NEW h \in Feds, Follows(h, f)' PROVE h \in S \ {g}
      OBVIOUS
    <3>1. Follows(h, f) /\ h # g
      BY <1>4, <2>5, <2>7, <2>11
    <3> QED
      BY <1>1, <1>2, <1>3, <1>4, <2>7, <3>1 DEF Relies
  <2>14. Relies(r)'
    BY <1>4, <2>6, <2>10, <2>13 DEF Relies
  <2> QED
    BY <1>4, <2>2, <2>7, <2>9, <2>10, <2>11, <2>12, <2>14, ShrinkKeeps
<1> QED
  BY <1>5, <1>6

\* delete_federation deletes the federation.
LEMMA EraseKeeps ==
    ASSUME RegistryUsual, RegistryInv, NEW j \in Handlers, Registry!Erase(j) PROVE RegistryInv'
<1>1. PICK f : f = request[j].fed
  OBVIOUS
<1>2. /\ request[j].pc = "erase" /\ request[j].op = "delete" /\ f \in Feds /\ federations' = [federations EXCEPT ![f] = None]
      /\ request' = [request EXCEPT ![j] = Registry!Idle] /\ UNCHANGED <<fresh, remembered, offers, reverted, entangled>>
      /\ remembered \in [Chats -> {None} \cup Feds] /\ offers \in [Feds -> {None} \cup (Users \X Users)]
      /\ federations \in [Feds -> {None} \cup Registry!Documents] /\ fresh \subseteq {g \in Feds : federations[g] = None}
      /\ Relies(request[j])
  BY <1>1 DEF Registry!Erase, RegistryInv, RegistryTyped, Sound, Registry!Stop, Registry!Set
<1>3. /\ federations' \in [Feds -> {None} \cup Registry!Documents] /\ federations'[f] = None /\ \A g \in Feds \ {f} : federations'[g] = federations[g]
      /\ fresh' \subseteq {g \in Feds : federations'[g] = None}
  BY <1>2
<1>4. \A c \in Chats \ entangled' : Listed(c)' \subseteq Listed(c)
  BY <1>2, <1>3 DEF Listed, Registry!Home
<1>5. \A h, g \in Feds : Follows(h, g)' => Follows(h, g)
  BY <1>2, <1>3 DEF Follows
<1>6. f \notin reverted \cup entangled => \A h \in Feds : ~Follows(h, f)
  BY <1>1, <1>2 DEF Relies
<1>7. Followed'
  BY <1>2, <1>3, <1>5, <1>6 DEF RegistryInv, Followed
<1>8. SingleFed'
  BY <1>2, <1>4 DEF RegistryInv, SingleFed
<1>9. Registry!Subject(Registry!Idle) = None /\ Registry!Idle \in Requests /\ Sound(Registry!Idle)' /\ Relies(Registry!Idle)'
  BY IdleIs
<1>10. RedisRight'
  BY <1>2, <1>4, <1>9, StillRemembered
<1>11. \A g \in Feds : federations[g] # None /\ federations'[g] = None => request[j].op = "delete" /\ request[j].fed = g
  BY <1>1, <1>2, <1>3
<1> QED
  BY <1>2, <1>3, <1>4, <1>5, <1>7, <1>8, <1>9, <1>10, <1>11, RequestKeeps

\* Offers, and keys that expire.
LEMMA RedisKeeps ==
    ASSUME RegistryInv, UNCHANGED <<federations, fresh, request, reverted, entangled>>,
           \A c \in Chats : remembered'[c] \in {None, remembered[c]},
           remembered' \in [Chats -> {None} \cup Feds], offers' \in [Feds -> {None} \cup (Users \X Users)]
    PROVE  RegistryInv'
<1>1. /\ \A c : Listed(c)' = Listed(c)
      /\ \A h, g \in Feds : Follows(h, g)' = Follows(h, g)
  BY DEF Listed, Registry!Home, Follows
<1>2. RegistryTyped'
  BY DEF RegistryInv, RegistryTyped, Sound
<1>3. SingleFed' /\ Followed' /\ Noticed'
  BY <1>1 DEF RegistryInv, SingleFed, Followed, Noticed
<1>4. RedisRight'
  BY <1>1 DEF RegistryInv, RedisRight
<1>5. ASSUME NEW i \in Handlers PROVE Relies(request[i])'
  <2>1. request'[i] = request[i] /\ Relies(request[i]) /\ Sound(request[i])
    BY DEF RegistryInv, RegistryTyped
  <2>2. request[i].op = "delete" => request[i].fed \in Feds
    BY <2>1 DEF Sound
  <2> QED
    BY <1>1, <2>1, <2>2 DEF Relies
<1> QED
  BY <1>2, <1>3, <1>4, <1>5 DEF RegistryInv

\* A transfer is offered.
LEMMA OfferKeeps ==
    ASSUME RegistryInv, NEW f \in Feds, NEW u \in Users, Registry!Offer(f, u) PROVE RegistryInv'
<1>1. /\ offers' = [offers EXCEPT ![f] = <<federations[f].owner, u>>] /\ federations[f] \in Registry!Documents
      /\ UNCHANGED <<federations, fresh, remembered, request, reverted, entangled>>
      /\ remembered \in [Chats -> {None} \cup Feds] /\ offers \in [Feds -> {None} \cup (Users \X Users)]
  BY DEF Registry!Offer, RegistryInv, RegistryTyped
<1>2. offers' \in [Feds -> {None} \cup (Users \X Users)]
  BY <1>1 DEF Registry!Documents
<1> QED
  BY <1>1, <1>2, RedisKeeps

\* Keys of Redis expire.
LEMMA FedExpireKeeps ==
    ASSUME RegistryInv, Registry!Expire PROVE RegistryInv'
<1>1. /\ UNCHANGED <<federations, fresh, request, reverted, entangled>>
      /\ remembered \in [Chats -> {None} \cup Feds] /\ offers \in [Feds -> {None} \cup (Users \X Users)]
  BY DEF Registry!Expire, RegistryInv, RegistryTyped
<1>2. /\ remembered' \in [Chats -> {None} \cup Feds] /\ offers' \in [Feds -> {None} \cup (Users \X Users)]
      /\ \A c \in Chats : remembered'[c] \in {None, remembered[c]}
  BY <1>1 DEF Registry!Expire
<1> QED
  BY <1>1, <1>2, RedisKeeps

-----------------------------------------------------------------------------
(* The invariant *)

\* The invariant of FederationRegistry holds at the beginning.
LEMMA RegistryBegins ==
    ASSUME RegistryUsual, Registry!Init PROVE RegistryInv
<1>1. PICK u \in Users, E \in SUBSET Feds :
       \E home \in [Chats -> {None} \cup E], ids \in [E -> SUBSET E] :
      /\ \A f \in E : f \notin ids[f]
      /\ federations = [f \in Feds |-> IF f \in E THEN [owner |-> u, subscribed |-> ids[f], chats |-> {c \in Chats : home[c] = f}]
                                     ELSE None]
      /\ remembered \in {home, [c \in Chats |-> None]}
  BY DEF Registry!Init
<1>2. PICK home \in [Chats -> {None} \cup E], ids \in [E -> SUBSET E] :
      /\ federations = [f \in Feds |-> IF f \in E THEN [owner |-> u, subscribed |-> ids[f], chats |-> {c \in Chats : home[c] = f}]
                                     ELSE None]
      /\ remembered \in {home, [c \in Chats |-> None]}
  BY <1>1
<1>3. /\ fresh = {f \in Feds : federations[f] = None} /\ offers = [f \in Feds |-> None]
      /\ request = [j \in Handlers |-> Registry!Idle] /\ reverted = {} /\ entangled = {}
  BY DEF Registry!Init
<1>4. ASSUME NEW f \in E
      PROVE  /\ federations[f] \in Registry!Documents /\ federations[f] # None /\ f \in Feds
             /\ federations[f].subscribed \subseteq E /\ federations[f].chats = {c \in Chats : home[c] = f}
  <2>1. federations[f] = [owner |-> u, subscribed |-> ids[f], chats |-> {c \in Chats : home[c] = f}]
    BY <1>2
  <2>2. ids[f] \in SUBSET Feds /\ ids[f] \subseteq E
    OBVIOUS
  <2>3. federations[f] \in Registry!Documents
    BY <2>1, <2>2 DEF Registry!Documents
  <2>4. f \in Feds /\ federations[f] # None
    BY <2>3 DEF RegistryUsual
  <2>5. federations[f].subscribed = ids[f] /\ federations[f].chats = {c \in Chats : home[c] = f}
    BY <2>1
  <2> QED
    BY <2>2, <2>3, <2>4, <2>5
<1>5. /\ DOMAIN federations = Feds /\ \A f \in Feds \ E : federations[f] = None
  BY <1>2
<1>6. federations \in [Feds -> {None} \cup Registry!Documents]
  <2>1. \A f \in Feds : federations[f] \in {None} \cup Registry!Documents
    BY <1>4, <1>5
  <2>2. federations = [f \in Feds |-> federations[f]]
    BY <1>2
  <2> QED
    BY <2>1, <2>2
<1>7. \A j \in Handlers : request[j] = Registry!Idle
  BY <1>3
<1>8. RegistryTyped
  <2>1. remembered \in [Chats -> {None} \cup Feds]
    BY <1>2
  <2>2. request \in [Handlers -> Requests] /\ \A j \in Handlers : Sound(request[j])
    BY <1>3, <1>7, IdleIs
  <2> QED
    BY <1>3, <1>6, <2>1, <2>2 DEF RegistryTyped
<1>9. \A c \in Chats : Listed(c) \subseteq {home[c]}
  BY <1>4, <1>5 DEF Listed, Registry!Home
<1>10. SingleFed /\ RedisRight
  BY <1>2, <1>9 DEF SingleFed, RedisRight
<1>11. Followed
  BY <1>4, <1>5 DEF Followed, Follows
<1>12. Noticed
  BY <1>7, IdleIs DEF Noticed, Registry!Conflict
<1>13. \A j \in Handlers : Relies(request[j])
  BY <1>7, IdleIs
<1> QED
  BY <1>8, <1>10, <1>11, <1>12, <1>13 DEF RegistryInv

\* The invariant of FederationRegistry holds after every step,
LEMMA RegistryNextPreserves ==
    ASSUME RegistryUsual, RegistryInv, Registry!Next PROVE RegistryInv'
<1>1. ASSUME NEW j \in Handlers,
             \/ \E c \in Chats : Registry!Leave(j, c) \/ Registry!Look(j, c)
             \/ \E f \in Feds, c \in Chats : Registry!Join(j, f, c) \/ Registry!Evict(j, f, c)
             \/ \E f, g \in Feds : Registry!Subscribe(j, f, g) \/ Registry!Unsubscribe(j, f, g)
             \/ \E f \in Feds : Registry!Edit(j, f) \/ Registry!Delete(j, f)
             \/ \E u \in Users : Registry!Create(j, u)
      PROVE  RegistryInv'
  <2>1. ASSUME \/ \E c \in Chats : Registry!Leave(j, c) \/ Registry!Look(j, c)
               \/ \E u \in Users : Registry!Create(j, u)
        PROVE  RegistryInv'
    BY <2>1, OtherStarts
  <2>2. ASSUME NEW f \in Feds, NEW c \in Chats, Registry!Join(j, f, c) \/ Registry!Evict(j, f, c) PROVE RegistryInv'
    <3>1. c \in {None} \cup Chats \cup Feds \cup Users
      OBVIOUS
    <3> QED
      BY <2>2, <3>1, ReadStarts DEF Registry!Join, Registry!Evict
  <2>3. ASSUME NEW f \in Feds, NEW g \in Feds, Registry!Subscribe(j, f, g) \/ Registry!Unsubscribe(j, f, g) PROVE RegistryInv'
    <3>1. g \in {None} \cup Chats \cup Feds \cup Users
      OBVIOUS
    <3> QED
      BY <2>3, <3>1, ReadStarts DEF Registry!Subscribe, Registry!Unsubscribe
  <2>4. ASSUME NEW f \in Feds, Registry!Edit(j, f) \/ Registry!Delete(j, f) PROVE RegistryInv'
    <3>1. None \in {None} \cup Chats \cup Feds \cup Users
      OBVIOUS
    <3> QED
      BY <2>4, <3>1, ReadStarts DEF Registry!Edit, Registry!Delete
  <2> QED
    BY <1>1, <2>1, <2>2, <2>3, <2>4
<1>2. ASSUME NEW j \in Handlers,
             \/ \E f \in Feds : Registry!Accept(j, f)
             \/ Registry!Lookup(j) \/ Registry!Get(j) \/ Registry!Find(j) \/ Registry!Note(j)
             \/ Registry!Add(j) \/ Registry!Added(j) \/ Registry!Remove(j) \/ Registry!Removed(j)
             \/ Registry!Insert(j) \/ Registry!Target(j) \/ Registry!Write(j)
             \/ Registry!Subscribers(j) \/ Registry!Release(j) \/ Registry!Erase(j)
      PROVE  RegistryInv'
  BY <1>2, AcceptKeeps, FedLookupKeeps, GetKeeps, FindChatKeeps, NoteKeeps, AddKeeps, AddedKeeps, RemoveKeeps,
     RemovedKeeps, FedInsertKeeps, TargetKeeps, FedWriteKeeps, SubscribersKeeps, FedReleaseKeeps, EraseKeeps
<1>3. ASSUME Registry!Expire \/ \E f \in Feds, u \in Users : Registry!Offer(f, u) PROVE RegistryInv'
  BY <1>3, OfferKeeps, FedExpireKeeps
<1> QED
  BY <1>1, <1>2, <1>3 DEF Registry!Next

\* and when nothing happens.
LEMMA RegistryStutter ==
    ASSUME RegistryInv, UNCHANGED Registry!vars PROVE RegistryInv'
<1>1. UNCHANGED <<federations, fresh, remembered, offers, request, reverted, entangled>>
  BY DEF Registry!vars
<1>2. /\ remembered' \in [Chats -> {None} \cup Feds] /\ offers' \in [Feds -> {None} \cup (Users \X Users)]
      /\ \A c \in Chats : remembered'[c] \in {None, remembered[c]}
  BY <1>1 DEF RegistryInv, RegistryTyped
<1> QED
  BY <1>1, <1>2, RedisKeeps

\* Of elements that are all the same there is one at most.
LEMMA OneAtMost ==
    ASSUME NEW S, \A f, g \in S : f = g PROVE Registry!Cardinality(S) <= 1
<1> SUFFICES Cardinality(S) <= 1
  BY DEF Registry!Cardinality, Cardinality, Registry!IsFiniteSet, IsFiniteSet
<1>1. CASE S = {}
  BY <1>1, FS_EmptySet
<1>2. CASE S # {}
  <2>1. PICK x \in S : TRUE
    BY <1>2
  <2>2. S = {x}
    BY <2>1
  <2>3. Cardinality({x}) = 1
    BY FS_Singleton, Zenon
  <2> QED
    BY <2>2, <2>3
<1> QED
  BY <1>1, <1>2

\* The invariant implies what is checked of FederationRegistry.
LEMMA RegistryInvImplies ==
    ASSUME RegistryUsual, RegistryInv PROVE Registry!OneFederationPerChat /\ Registry!NoDanglingSubscription /\ Registry!TypeOK
<1>1. Registry!OneFederationPerChat
  <2> SUFFICES ASSUME NEW c \in Chats \ entangled PROVE Registry!Cardinality(Registry!Home(c) \ reverted) <= 1
    BY DEF Registry!OneFederationPerChat
  <2>1. \A f, g \in Registry!Home(c) \ reverted : f = g
    BY DEF RegistryInv, SingleFed, Listed
  <2> QED
    BY <2>1, OneAtMost
<1>2. Registry!NoDanglingSubscription
  <2> SUFFICES ASSUME NEW f \in Feds \ reverted, federations[f] # None, NEW g \in federations[f].subscribed \ (reverted \cup entangled)
               PROVE  federations[g] # None
    BY DEF Registry!NoDanglingSubscription
  <2>1. g \in Feds
    BY DEF RegistryInv, RegistryTyped, Registry!Documents
  <2> QED
    BY <2>1 DEF RegistryInv, Followed, Follows
<1>3. Registry!TypeOK
  BY DEF RegistryInv, RegistryTyped, Registry!TypeOK, Requests
<1> QED
  BY <1>1, <1>2, <1>3

-----------------------------------------------------------------------------
(* AdminSnapshot, by its own names of the slots *)

admins == v1
records == v2
marker == v3
clock == v4
refresh == v5
promotions == v6
failures == v7
base == v8
mingled == v9
missed == v10

USE DEF admins, records, marker, clock, refresh, promotions, failures, base, mingled, missed

AdminDocs == [user : Known, at : Nat]

\* None is no number and no document.
AdminsUsual ==
    /\ AdminIds \subseteq Nat /\ None \notin Nat /\ None \notin AdminDocs
    /\ AdminTtl \in Nat /\ AdminTime \in Nat /\ AdminChanges \in Nat /\ AdminFaults \in Nat

AdminSteps == {"idle", "claim", "fetch", "store", "save", "handled"}

Refreshes == [pc : AdminSteps, command : BOOLEAN, list : SUBSET Known, todo : SUBSET Known,
              user : Known \cup {None}, found : AdminIds \cup {None}, alone : BOOLEAN]

AdminsTyped ==
    /\ admins \subseteq Users
    /\ records \in [AdminIds -> AdminDocs \cup {None}]
    /\ clock \in 0 .. AdminTime /\ promotions \in 0 .. AdminChanges /\ failures \in 0 .. AdminFaults
    /\ \A i \in Admins!Stored : records[i].at <= clock
    /\ marker \in Nat \cup {None} /\ (marker # None => marker <= clock)
    /\ missed \in Nat \cup {None}
    /\ refresh \in [Calls -> Refreshes]
    /\ \A k \in Calls : refresh[k].todo \subseteq refresh[k].list
    /\ \A k \in Calls : refresh[k].pc = "save" => refresh[k].user \in Known
    /\ mingled \in BOOLEAN

AdminAt(k, S) == refresh[k].pc \in S

\* The time of what Sophie knows of u.
KnownAt(u) == records[Admins!First(u)].at

\* A refresh that is alone has stored what it has done with, and stores one
\* administrator in the document it found.
AloneStores(k) ==
    /\ Admins!Refreshing = {k}
    /\ refresh[k].list = base
    /\ \A u \in refresh[k].list \ refresh[k].todo : u \in Admins!Recorded /\ KnownAt(u) = clock
    /\ AdminAt(k, {"save"}) =>
        /\ refresh[k].user \in refresh[k].todo
        /\ refresh[k].found = IF Admins!Of(refresh[k].user) = {} THEN None ELSE Admins!First(refresh[k].user)

AdminStores == \A k \in Admins!Refreshing : IF refresh[k].alone THEN AloneStores(k) ELSE mingled

AdminActive == \E k \in Calls : AdminAt(k, {"fetch", "store", "save"})

\* Since the claim a refresh is under way, or went wrong, or all was refreshed.
AdminClaimed ==
    marker # None => \/ AdminActive
                     \/ missed # None /\ missed >= marker
                     \/ \A u \in Admins!Recorded : KnownAt(u) >= marker

\* An update goes on by documents none of which is old, or by a claim.
AdminHandled ==
    \A k \in Calls :
        /\ AdminAt(k, {"fetch", "store", "save"}) /\ ~refresh[k].command => marker = clock
        /\ AdminAt(k, {"handled"}) => \/ \A i \in Admins!Stored : ~Admins!Old(records[i].at)
                                      \/ marker # None /\ ~Admins!Old(marker)

AdminsInv == AdminsTyped /\ Admins!SnapshotTrue /\ AdminStores /\ AdminClaimed /\ AdminHandled
-----------------------------------------------------------------------------

\* A set of natural numbers has a least one.
LEMMA Least ==
    ASSUME NEW S, S \subseteq Nat, S # {} PROVE \E i \in S : \A j \in S : i <= j
<1>1. \E x \in S : \A y \in S : ~ (<<y, x>> \in OpToRel(<, Nat))
  BY WFMin, NatLessThanWellFounded, Zenon
<1>2. PICK i \in S : \A j \in S : ~ (<<j, i>> \in OpToRel(<, Nat))
  BY <1>1, Zenon
<1>3. \A j \in S : ~ (j < i)
  BY <1>2, Zenon DEF OpToRel
<1>4. \A j \in S : i <= j
  BY <1>3
<1> QED
  BY <1>4

\* The first document of a user is one of them.
LEMMA FirstIs ==
    ASSUME AdminsUsual, NEW u, Admins!Of(u) # {}
    PROVE  Admins!First(u) \in Admins!Of(u) /\ Admins!First(u) \in Admins!Stored /\ Admins!First(u) \in AdminIds /\ records[Admins!First(u)].user = u
<1>1. Admins!Of(u) \subseteq Nat
  BY DEF Admins!Of, Admins!Stored, AdminsUsual
<1>2. Admins!First(u) \in Admins!Of(u)
  BY <1>1, Least DEF Admins!First
<1> QED
  BY <1>2 DEF Admins!Of, Admins!Stored

\* Who is recorded has a document.
LEMMA RecordedIs ==
    \A u : u \in Admins!Recorded <=> Admins!Of(u) # {}
BY DEF Admins!Recorded, Admins!Of

\* A step of one job leaves the others.
LEMMA JobTyped ==
    ASSUME AdminsTyped, NEW k \in Calls, NEW w \in Refreshes, refresh' = [refresh EXCEPT ![k] = w]
    PROVE  /\ refresh' \in [Calls -> Refreshes] /\ refresh'[k] = w
           /\ \A l \in Calls \ {k} : refresh'[l] = refresh[l]
BY DEF AdminsTyped

\* One field of a job.
LEMMA StepOf ==
    ASSUME AdminsTyped, NEW k \in Calls, NEW s \in AdminSteps, refresh' = [refresh EXCEPT ![k].pc = s]
    PROVE  \E w \in Refreshes :
           /\ w.pc = s /\ w.command = refresh[k].command /\ w.list = refresh[k].list /\ w.todo = refresh[k].todo
           /\ w.alone = refresh[k].alone
           /\ refresh' = [refresh EXCEPT ![k] = w]
<1>1. refresh \in [Calls -> Refreshes] /\ refresh[k] \in Refreshes
  BY DEF AdminsTyped
<1> PICK w : w = [refresh[k] EXCEPT !.pc = s]
  OBVIOUS
<1>2. /\ w \in Refreshes /\ w.pc = s /\ w.command = refresh[k].command /\ w.list = refresh[k].list
      /\ w.todo = refresh[k].todo /\ w.alone = refresh[k].alone
  BY <1>1 DEF Refreshes
<1>3. refresh' = [refresh EXCEPT ![k] = w]
  BY <1>1
<1> QED
  BY <1>2, <1>3, Zenon

\* Two fields of a job.
LEMMA CommandOf ==
    ASSUME AdminsTyped, NEW k \in Calls, refresh' = [refresh EXCEPT ![k].pc = "fetch", ![k].command = TRUE]
    PROVE  \E w \in Refreshes :
           /\ w.pc = "fetch" /\ w.command = TRUE /\ w.list = refresh[k].list /\ w.todo = refresh[k].todo
           /\ refresh' = [refresh EXCEPT ![k] = w]
<1>1. refresh \in [Calls -> Refreshes] /\ refresh[k] \in Refreshes
  BY DEF AdminsTyped
<1> PICK w : w = [refresh[k] EXCEPT !.pc = "fetch", !.command = TRUE]
  OBVIOUS
<1>2. w = [pc |-> "fetch", command |-> TRUE, list |-> refresh[k].list, todo |-> refresh[k].todo,
           user |-> refresh[k].user, found |-> refresh[k].found, alone |-> refresh[k].alone]
  BY <1>1 DEF Refreshes
<1>3. w \in Refreshes
  BY <1>1, <1>2 DEF Refreshes, AdminSteps
<1>4. refresh' = [refresh EXCEPT ![k] = w]
  BY <1>1
<1>5. w.pc = "fetch" /\ w.command = TRUE /\ w.list = refresh[k].list /\ w.todo = refresh[k].todo
  BY <1>2
<1> QED
  BY <1>3, <1>4, <1>5, Zenon

\* A job that is not at work is one.
LEMMA NoJobTyped ==
    /\ Admins!NoJob \in Refreshes /\ Admins!NoJob.todo \subseteq Admins!NoJob.list /\ Admins!NoJob.pc = "idle"
    /\ [Admins!NoJob EXCEPT !.pc = "handled"] \in Refreshes
    /\ [Admins!NoJob EXCEPT !.pc = "handled"].todo \subseteq [Admins!NoJob EXCEPT !.pc = "handled"].list
    /\ [Admins!NoJob EXCEPT !.pc = "handled"].pc = "handled"
BY DEF Admins!NoJob, Refreshes, AdminSteps

\* The invariant of AdminSnapshot holds at the beginning.
LEMMA AdminsBegin ==
    ASSUME AdminsUsual, Admins!Init PROVE AdminsInv
<1> USE DEF AdminsUsual
<1>1. Admins!Stored = {} /\ Admins!Refreshing = {} /\ Admins!Recorded = {}
  BY NoJobTyped DEF Admins!Init, Admins!Stored, Admins!Refreshing, Admins!Recorded
<1>2. AdminsTyped
  <2>1. refresh \in [Calls -> Refreshes] /\ \A k \in Calls : refresh[k].todo \subseteq refresh[k].list /\ refresh[k].pc # "save"
    <3>1. refresh \in [Calls -> Refreshes] /\ \A k \in Calls : refresh[k] = Admins!NoJob
      BY NoJobTyped DEF Admins!Init
    <3> QED
      BY <3>1, NoJobTyped
  <2>2. /\ admins \subseteq Users /\ clock \in 0 .. AdminTime /\ promotions \in 0 .. AdminChanges
        /\ failures \in 0 .. AdminFaults /\ marker = None /\ missed = None /\ mingled = FALSE
    BY DEF Admins!Init
  <2>3. records \in [AdminIds -> AdminDocs \cup {None}]
    BY DEF Admins!Init
  <2> QED
    BY <1>1, <2>1, <2>2, <2>3 DEF AdminsTyped
<1>3. Admins!SnapshotTrue /\ AdminStores /\ AdminClaimed
  BY <1>1 DEF Admins!Init, Admins!SnapshotTrue, AdminStores, AdminClaimed
<1>4. AdminHandled
  BY NoJobTyped DEF Admins!Init, AdminHandled, AdminAt
<1> QED
  BY <1>2, <1>3, <1>4 DEF AdminsInv

\* A job that is at no refresh and takes up none leaves refreshes alone.
LEMMA Elsewhere ==
    ASSUME AdminsInv, NEW k \in Calls, NEW w \in Refreshes, refresh' = [refresh EXCEPT ![k] = w],
           w.todo \subseteq w.list, refresh[k].pc \notin {"store", "save"}, w.pc \notin {"store", "save"},
           admins' \subseteq Users, promotions' \in 0 .. AdminChanges, failures' \in 0 .. AdminFaults,
           marker' \in Nat \cup {None}, marker' # None => marker' <= clock, missed' \in Nat \cup {None},
           UNCHANGED <<records, clock, base, mingled>>
    PROVE  AdminsTyped' /\ Admins!SnapshotTrue' /\ AdminStores'
<1> USE DEF AdminsInv
<1>1. /\ refresh' \in [Calls -> Refreshes] /\ refresh'[k] = w
      /\ \A l \in Calls \ {k} : refresh'[l] = refresh[l]
  BY JobTyped
<1>2. Admins!Refreshing' = Admins!Refreshing /\ k \notin Admins!Refreshing
  <2>1. refresh[k].pc # "delete" /\ w.pc # "delete"
    BY DEF AdminsTyped, Refreshes, AdminSteps
  <2> QED
    BY <1>1, <2>1 DEF Admins!Refreshing
<1>3. Admins!Stored' = Admins!Stored /\ Admins!Recorded' = Admins!Recorded
  BY DEF Admins!Stored, Admins!Recorded
<1>4. AdminsTyped'
  BY <1>1, <1>3 DEF AdminsTyped
<1>5. Admins!SnapshotTrue'
  BY <1>2, <1>3 DEF Admins!SnapshotTrue
<1>6. \A u : Admins!Of(u)' = Admins!Of(u) /\ Admins!First(u)' = Admins!First(u) /\ KnownAt(u)' = KnownAt(u)
  BY <1>3 DEF Admins!Of, Admins!First, KnownAt
<1>7. ASSUME NEW l \in Admins!Refreshing PROVE IF refresh'[l].alone THEN AloneStores(l)' ELSE mingled
  <2>1. refresh'[l] = refresh[l] /\ l \in Calls
    BY <1>1, <1>2 DEF Admins!Refreshing
  <2> QED
    BY <1>2, <1>3, <1>6, <2>1 DEF AdminStores, AloneStores, AdminAt
<1>8. AdminStores'
  BY <1>2, <1>7 DEF AdminStores
<1> QED
  BY <1>4, <1>5, <1>8

\* The claims and the updates that go on by them, after the step of one job.
LEMMA Onwards ==
    ASSUME AdminsInv, NEW k \in Calls, NEW w \in Refreshes, refresh' = [refresh EXCEPT ![k] = w],
           w.pc \in {"fetch", "store", "save"} /\ ~w.command => marker' = clock,
           w.pc = "handled" => (\A i \in Admins!Stored' : ~Admins!Old(records'[i].at)) \/ (marker' # None /\ ~Admins!Old(marker')),
           (\A i \in Admins!Stored : ~Admins!Old(records[i].at)) => \A i \in Admins!Stored' : ~Admins!Old(records'[i].at),
           marker' = marker \/ (marker' = clock /\ ~Admins!Old(clock)), marker # None => marker' # None,
           clock' = clock
    PROVE  AdminHandled'
<1> USE DEF AdminsInv
<1>1. refresh'[k] = w /\ \A l \in Calls \ {k} : refresh'[l] = refresh[l]
  BY JobTyped
<1>2. SUFFICES ASSUME NEW l \in Calls
               PROVE  /\ AdminAt(l, {"fetch", "store", "save"})' /\ ~refresh'[l].command => marker' = clock
                      /\ AdminAt(l, {"handled"})' => \/ \A i \in Admins!Stored' : ~Admins!Old(records'[i].at)
                                                     \/ marker' # None /\ ~Admins!Old(marker')
  BY DEF AdminHandled, Admins!Old
<1>3. CASE l = k
  BY <1>1, <1>3 DEF AdminAt
<1>4. CASE l # k
  BY <1>1, <1>4 DEF AdminAt, AdminHandled
<1> QED
  BY <1>3, <1>4

\* Who fetches, stores or saves is at work.
LEMMA ActiveIs ==
    ASSUME NEW k \in Calls, AdminAt(k, {"fetch", "store", "save"}) PROVE AdminActive
BY DEF AdminActive

\* An update looks whether the documents are too old.
LEMMA UpdateKeeps ==
    ASSUME AdminsUsual, AdminsInv, NEW k \in Calls, Admins!Update(k) PROVE AdminsInv'
<1> USE DEF AdminsInv
<1>1. PICK s \in {"handled", "claim"} :
          /\ refresh' = [refresh EXCEPT ![k].pc = s]
          /\ s = "handled" => \A i \in Admins!Stored : ~Admins!Old(records[i].at)
  BY DEF Admins!Update
<1>2. refresh[k].pc = "idle" /\ UNCHANGED <<admins, records, marker, clock, promotions, failures, base, mingled, missed>>
  BY DEF Admins!Update
<1>3. PICK w \in Refreshes : /\ w.pc = s /\ w.todo = refresh[k].todo /\ w.list = refresh[k].list
                             /\ refresh' = [refresh EXCEPT ![k] = w]
  <2>1. s \in AdminSteps /\ refresh' = [refresh EXCEPT ![k].pc = s]
    BY <1>1 DEF AdminSteps
  <2>2. \E w \in Refreshes :
            /\ w.pc = s /\ w.command = refresh[k].command /\ w.list = refresh[k].list /\ w.todo = refresh[k].todo
            /\ w.alone = refresh[k].alone
            /\ refresh' = [refresh EXCEPT ![k] = w]
    BY <2>1, StepOf, Zenon
  <2> QED
    BY <2>2, Zenon
<1>4. w.todo \subseteq w.list /\ w.pc \notin {"fetch", "store", "save"}
  BY <1>3 DEF AdminsTyped
<1>5. AdminsTyped' /\ Admins!SnapshotTrue' /\ AdminStores'
  BY <1>2, <1>3, <1>4, Elsewhere DEF AdminsTyped
<1>6. Admins!Stored' = Admins!Stored /\ Admins!Recorded' = Admins!Recorded /\ \A u : KnownAt(u)' = KnownAt(u)
  BY <1>2 DEF Admins!Stored, Admins!Recorded, KnownAt, Admins!First, Admins!Of
<1>7. AdminHandled'
  <2>1. w.pc = "handled" => \A i \in Admins!Stored' : ~Admins!Old(records'[i].at)
    BY <1>1, <1>2, <1>3, <1>6
  <2> QED
    BY <1>2, <1>3, <1>4, <1>6, <2>1, Onwards
<1>8. AdminActive => AdminActive'
  BY <1>2, <1>3, JobTyped DEF AdminActive, AdminAt
<1>9. AdminClaimed'
  BY <1>2, <1>6, <1>8 DEF AdminClaimed
<1> QED
  BY <1>5, <1>7, <1>9

\* It claims the refresh, unless another one has.
LEMMA ClaimKeeps ==
    ASSUME AdminsUsual, AdminsInv, NEW k \in Calls, Admins!Claim(k) PROVE AdminsInv'
<1> USE DEF AdminsInv
<1>1. PICK s \in {"handled", "fetch"} :
          /\ refresh' = [refresh EXCEPT ![k].pc = s]
          /\ s = "handled" => marker # None /\ ~Admins!Old(marker) /\ marker' = marker
          /\ s = "fetch" => marker' = clock
  BY DEF Admins!Claim
<1>2. refresh[k].pc = "claim" /\ UNCHANGED <<admins, records, clock, promotions, failures, base, mingled, missed>>
  BY DEF Admins!Claim
<1>3. PICK w \in Refreshes : /\ w.pc = s /\ w.todo = refresh[k].todo /\ w.list = refresh[k].list
                             /\ refresh' = [refresh EXCEPT ![k] = w]
  <2>1. s \in AdminSteps /\ refresh' = [refresh EXCEPT ![k].pc = s]
    BY <1>1 DEF AdminSteps
  <2>2. \E w \in Refreshes :
            /\ w.pc = s /\ w.command = refresh[k].command /\ w.list = refresh[k].list /\ w.todo = refresh[k].todo
            /\ w.alone = refresh[k].alone
            /\ refresh' = [refresh EXCEPT ![k] = w]
    BY <2>1, StepOf, Zenon
  <2> QED
    BY <2>2, Zenon
<1>4. /\ w.todo \subseteq w.list /\ w.pc \notin {"store", "save"}
      /\ clock \in Nat /\ clock # None /\ ~Admins!Old(clock)
      /\ marker' = marker \/ marker' = clock
  BY <1>1, <1>3 DEF AdminsTyped, AdminsUsual, Admins!Old
<1>5. /\ marker' \in Nat \cup {None} /\ (marker' # None => marker' <= clock)
      /\ marker # None => marker' # None
  BY <1>4 DEF AdminsTyped
<1>6. AdminsTyped' /\ Admins!SnapshotTrue' /\ AdminStores'
  <2>1. failures' \in 0 .. AdminFaults /\ missed' \in Nat \cup {None} /\ admins' \subseteq Users
        /\ promotions' \in 0 .. AdminChanges
    BY <1>2 DEF AdminsTyped
  <2>2. refresh[k].pc \notin {"store", "save"} /\ UNCHANGED <<records, clock, base, mingled>>
    BY <1>2
  <2> HIDE DEF AdminsInv
  <2>3. /\ refresh' = [refresh EXCEPT ![k] = w] /\ w.todo \subseteq w.list /\ w.pc \notin {"store", "save"}
        /\ marker' \in Nat \cup {None} /\ (marker' # None => marker' <= clock)
    BY <1>3, <1>4, <1>5
  <2> QED
    BY <2>1, <2>2, <2>3, Elsewhere
<1>7. Admins!Stored' = Admins!Stored /\ Admins!Recorded' = Admins!Recorded /\ \A u : KnownAt(u)' = KnownAt(u)
  BY <1>2 DEF Admins!Stored, Admins!Recorded, KnownAt, Admins!First, Admins!Of
<1>8. AdminHandled'
  <2>1. w.pc = "handled" => marker' # None /\ ~Admins!Old(marker')
    BY <1>1, <1>3
  <2>2. w.pc \in {"fetch", "store", "save"} /\ ~w.command => marker' = clock
    BY <1>1, <1>3
  <2>3. (\A i \in Admins!Stored : ~Admins!Old(records[i].at)) => \A i \in Admins!Stored' : ~Admins!Old(records'[i].at)
    BY <1>2, <1>7
  <2> QED
    BY <1>2, <1>3, <1>4, <1>5, <2>1, <2>2, <2>3, Onwards
<1>9. CASE s = "handled"
  <2>1. AdminActive => AdminActive'
    BY <1>2, <1>3, JobTyped DEF AdminActive, AdminAt
  <2>2. AdminClaimed'
    BY <1>1, <1>2, <1>7, <1>9, <2>1 DEF AdminClaimed
  <2> QED
    BY <1>6, <1>8, <2>2
<1>10. CASE s = "fetch"
  <2>1. refresh'[k].pc = "fetch"
    BY <1>3, <1>10, JobTyped
  <2>2. AdminActive'
    BY <2>1 DEF AdminActive, AdminAt
  <2> QED
    BY <1>6, <1>8, <2>2 DEF AdminClaimed
<1> QED
  BY <1>1, <1>9, <1>10

\* A command takes up a refresh, whatever has become of the administrators.
LEMMA BeginKeeps ==
    ASSUME AdminsUsual, AdminsInv, NEW k \in Calls, Admins!Begin(k),
           admins' \subseteq Users, promotions' \in 0 .. AdminChanges,
           UNCHANGED <<records, marker, clock, failures, base, mingled, missed>>
    PROVE  AdminsInv'
<1> USE DEF AdminsInv
<1>1. refresh[k].pc \in {"idle", "handled"} /\ refresh' = [refresh EXCEPT ![k].pc = "fetch", ![k].command = TRUE]
  BY DEF Admins!Begin
<1>2. PICK w \in Refreshes : /\ w.pc = "fetch" /\ w.command = TRUE /\ w.todo = refresh[k].todo /\ w.list = refresh[k].list
                             /\ refresh' = [refresh EXCEPT ![k] = w]
  <2>1. \E w \in Refreshes :
            /\ w.pc = "fetch" /\ w.command = TRUE /\ w.list = refresh[k].list /\ w.todo = refresh[k].todo
            /\ refresh' = [refresh EXCEPT ![k] = w]
    BY <1>1, CommandOf
  <2> QED
    BY <2>1, Zenon
<1>3. w.todo \subseteq w.list
  BY <1>2 DEF AdminsTyped
<1>4. AdminsTyped' /\ Admins!SnapshotTrue' /\ AdminStores'
  <2>1. /\ failures' \in 0 .. AdminFaults /\ marker' \in Nat \cup {None} /\ missed' \in Nat \cup {None}
        /\ marker' # None => marker' <= clock
    BY DEF AdminsTyped
  <2>2. refresh[k].pc \notin {"store", "save"} /\ w.pc \notin {"store", "save"}
    BY <1>1, <1>2
  <2> QED
    BY <1>2, <1>3, <2>1, <2>2, Elsewhere
<1>5. Admins!Stored' = Admins!Stored
  BY DEF Admins!Stored
<1>6. AdminHandled'
  BY <1>1, <1>2, <1>5, Onwards
<1>7. refresh'[k].pc = "fetch"
  BY <1>2, JobTyped
<1>8. AdminActive'
  BY <1>7 DEF AdminActive, AdminAt
<1> QED
  BY <1>4, <1>6, <1>8 DEF AdminClaimed

\* A command asks for a refresh.
LEMMA AdminResetKeeps ==
    ASSUME AdminsUsual, AdminsInv, NEW k \in Calls, Admins!Reset(k) PROVE AdminsInv'
BY BeginKeeps DEF Admins!Reset, AdminsInv, AdminsTyped

\* A command promotes or demotes, and asks for a refresh.
LEMMA PromoteKeeps ==
    ASSUME AdminsUsual, AdminsInv, NEW k \in Calls, NEW by \in Users, NEW u \in Users,
           Admins!Promote(k, by, u, admins \cup {u}) \/ Admins!Promote(k, by, u, admins \ {u})
    PROVE  AdminsInv'
<1>1. /\ Admins!Begin(k) /\ promotions < AdminChanges /\ promotions' = promotions + 1
      /\ admins' \in {admins \cup {u}, admins \ {u}}
      /\ UNCHANGED <<records, marker, clock, failures, base, mingled, missed>>
  BY DEF Admins!Promote
<1>2. admins' \subseteq Users /\ promotions' \in 0 .. AdminChanges
  BY <1>1 DEF AdminsInv, AdminsTyped, AdminsUsual
<1> QED
  BY <1>1, <1>2, BeginKeeps

\* A job is over.
LEMMA DoneKeeps ==
    ASSUME AdminsUsual, AdminsInv, NEW k \in Calls, Admins!Done(k) PROVE AdminsInv'
<1> USE DEF AdminsInv
<1>1. /\ refresh[k].pc = "handled" /\ refresh' = [refresh EXCEPT ![k] = Admins!NoJob]
      /\ UNCHANGED <<admins, records, marker, clock, promotions, failures, base, mingled, missed>>
  BY DEF Admins!Done
<1>2. AdminsTyped' /\ Admins!SnapshotTrue' /\ AdminStores'
  BY <1>1, NoJobTyped, Elsewhere DEF AdminsTyped
<1>3. Admins!Stored' = Admins!Stored /\ Admins!Recorded' = Admins!Recorded /\ \A u : KnownAt(u)' = KnownAt(u)
  BY <1>1 DEF Admins!Stored, Admins!Recorded, KnownAt, Admins!First, Admins!Of
<1>4. AdminHandled'
  BY <1>1, <1>3, NoJobTyped, Onwards
<1>5. AdminActive => AdminActive'
  BY <1>1, NoJobTyped, JobTyped DEF AdminActive, AdminAt
<1>6. AdminClaimed'
  BY <1>1, <1>3, <1>5 DEF AdminClaimed
<1> QED
  BY <1>2, <1>4, <1>6

\* Telegram and the clock change.
LEMMA OutsideKeeps ==
    ASSUME AdminsUsual, AdminsInv, Admins!Tick \/ \E after \in SUBSET Users : Admins!Change(after) PROVE AdminsInv'
<1> USE DEF AdminsInv
<1>1. UNCHANGED <<records, marker, refresh, failures, base, mingled, missed>>
  BY DEF Admins!Tick, Admins!Change
<1>2. /\ Admins!Stored' = Admins!Stored /\ Admins!Recorded' = Admins!Recorded /\ Admins!Refreshing' = Admins!Refreshing
      /\ \A u : Admins!Of(u)' = Admins!Of(u) /\ Admins!First(u)' = Admins!First(u) /\ KnownAt(u)' = KnownAt(u)
  BY <1>1 DEF Admins!Stored, Admins!Recorded, Admins!Refreshing, KnownAt, Admins!First, Admins!Of
<1>3. Admins!SnapshotTrue' /\ AdminClaimed'
  BY <1>1, <1>2 DEF Admins!SnapshotTrue, AdminClaimed, AdminActive, AdminAt
<1>4. ASSUME NEW after \in SUBSET Users, Admins!Change(after) PROVE AdminsInv'
  <2>1. admins' \subseteq Users /\ promotions' \in 0 .. AdminChanges /\ clock' = clock
    BY <1>4 DEF Admins!Change, AdminsTyped, AdminsUsual
  <2>2. AdminsTyped'
    BY <1>1, <1>2, <2>1 DEF AdminsTyped
  <2>3. AdminHandled'
    BY <1>1, <1>2, <2>1 DEF AdminHandled, AdminAt, Admins!Old
  <2>4. AdminStores'
    BY <1>1, <1>2, <2>1 DEF AdminStores, AloneStores, AdminAt
  <2> QED
    BY <1>3, <2>2, <2>3, <2>4
<1>5. ASSUME Admins!Tick PROVE AdminsInv'
  <2>1. /\ clock' = clock + 1 /\ clock' \in 0 .. AdminTime /\ clock \in Nat /\ UNCHANGED <<admins, promotions>>
        /\ \A k \in Calls : refresh[k].pc = "idle"
    BY <1>5 DEF Admins!Tick, AdminsTyped, AdminsUsual
  <2>2. AdminsTyped'
    <3>1. ASSUME NEW i \in Admins!Stored PROVE records[i].at <= clock'
      <4>1. records[i].at \in Nat
        BY DEF AdminsTyped, Admins!Stored, AdminDocs
      <4> QED
        BY <2>1, <4>1 DEF AdminsTyped
    <3> QED
      BY <1>1, <1>2, <2>1, <3>1 DEF AdminsTyped
  <2>3. AdminHandled'
    BY <1>1, <2>1 DEF AdminHandled, AdminAt
  <2>4. AdminStores'
    BY <1>1, <1>2, <2>1 DEF AdminStores, Admins!Refreshing
  <2> QED
    BY <1>3, <2>2, <2>3, <2>4
<1> QED
  BY <1>4, <1>5

-----------------------------------------------------------------------------

\* What jobs are made of.
LEMMA WorkIs ==
    ASSUME NEW s \in AdminSteps, NEW c \in BOOLEAN, NEW l \in SUBSET Known, NEW t \in SUBSET Known,
           NEW u \in Known \cup {None}, NEW f \in AdminIds \cup {None}, NEW a \in BOOLEAN
    PROVE  [pc |-> s, command |-> c, list |-> l, todo |-> t, user |-> u, found |-> f, alone |-> a] \in Refreshes
BY DEF Refreshes

\* A refresh fetches the list of Telegram.
LEMMA FetchKeeps ==
    ASSUME AdminsUsual, AdminsInv, NEW k \in Calls, Admins!Fetch(k) PROVE AdminsInv'
<1> USE DEF AdminsInv
<1>1. /\ refresh[k].pc = "fetch" /\ k \notin Admins!Refreshing
      /\ base' \subseteq Known /\ mingled' = (mingled \/ Admins!Refreshing # {})
      /\ UNCHANGED <<admins, records, marker, clock, promotions, failures, missed>>
  BY DEF Admins!Fetch, Admins!Refreshing
<1> PICK new : new = base'
  OBVIOUS
<1>2. \E b \in BOOLEAN : b = (Admins!Refreshing = {})
  <2>1. (Admins!Refreshing = {}) \in BOOLEAN
    OBVIOUS
  <2> QED
    BY <2>1, Zenon
<1> PICK b \in BOOLEAN : b = (Admins!Refreshing = {})
  BY <1>2
<1> PICK w : w = [Admins!NoJob EXCEPT !.pc = "store", !.command = refresh[k].command, !.list = new, !.todo = new,
                                      !.alone = b]
  OBVIOUS
<1>3. refresh' = [j \in Calls |-> IF j = k THEN w ELSE [refresh[j] EXCEPT !.alone = refresh[j].alone /\ j \notin Admins!Refreshing]]
  BY DEF Admins!Fetch
<1>4. /\ w.pc = "store" /\ w.command = refresh[k].command /\ w.list = base' /\ w.todo = base'
      /\ w.alone = (Admins!Refreshing = {}) /\ w \in Refreshes
  <2>1. w = [pc |-> "store", command |-> refresh[k].command, list |-> new, todo |-> new,
             user |-> None, found |-> None, alone |-> b]
    BY DEF Admins!NoJob
  <2>2. refresh[k].command \in BOOLEAN /\ new \in SUBSET Known
    BY <1>1 DEF AdminsTyped, Refreshes
  <2>3. w \in Refreshes
    <3>1. "store" \in AdminSteps /\ None \in Known \cup {None} /\ None \in AdminIds \cup {None}
      BY DEF AdminSteps
    <3>2. [pc |-> "store", command |-> refresh[k].command, list |-> new, todo |-> new,
           user |-> None, found |-> None, alone |-> b] \in Refreshes
      BY <2>2, <3>1, WorkIs, Zenon
    <3> QED
      BY <2>1, <3>2, Zenon
  <2>4. /\ w.pc = "store" /\ w.command = refresh[k].command /\ w.list = new /\ w.todo = new
        /\ w.alone = b
    BY <2>1
  <2> QED
    BY <2>3, <2>4, Zenon
<1>5. refresh'[k] = w
  BY <1>3
<1>6. ASSUME NEW l \in Calls, l # k
      PROVE  /\ refresh'[l] \in Refreshes /\ refresh'[l].pc = refresh[l].pc /\ refresh'[l].command = refresh[l].command
             /\ refresh'[l].list = refresh[l].list /\ refresh'[l].todo = refresh[l].todo
             /\ refresh'[l].user = refresh[l].user
             /\ l \in Admins!Refreshing => refresh'[l].alone = FALSE
  <2>1. refresh[l] \in Refreshes
    BY DEF AdminsTyped
  <2>2. (refresh[l].alone /\ l \notin Admins!Refreshing) \in BOOLEAN
    OBVIOUS
  <2>3. refresh'[l] = [refresh[l] EXCEPT !.alone = refresh[l].alone /\ l \notin Admins!Refreshing]
    BY <1>3, <1>6
  <2> HIDE DEF Admins!Refreshing
  <2>4. PICK c \in BOOLEAN : /\ c = (refresh[l].alone /\ l \notin Admins!Refreshing)
                             /\ refresh'[l] = [refresh[l] EXCEPT !.alone = c]
    BY <2>2, <2>3
  <2>5. l \in Admins!Refreshing => c = FALSE
    BY <2>4
  <2> QED
    BY <2>1, <2>4, <2>5 DEF Refreshes
<1>7. /\ Admins!Stored' = Admins!Stored /\ Admins!Recorded' = Admins!Recorded /\ \A u : Admins!Of(u)' = Admins!Of(u) /\ Admins!First(u)' = Admins!First(u)
  BY <1>1 DEF Admins!Stored, Admins!Recorded, Admins!Of, Admins!First
<1>8. Admins!Refreshing' = Admins!Refreshing \cup {k}
  <2>1. \A l \in Calls : l \in Admins!Refreshing' <=> l \in Admins!Refreshing \/ l = k
    BY <1>4, <1>5, <1>6 DEF Admins!Refreshing
  <2> QED
    BY <2>1 DEF Admins!Refreshing
<1>9. AdminsTyped'
  <2>1. DOMAIN refresh' = Calls /\ \A l \in Calls : refresh'[l] \in Refreshes
    BY <1>3, <1>4, <1>5, <1>6
  <2>2. refresh' \in [Calls -> Refreshes]
    BY <1>3, <2>1
  <2>3. \A l \in Calls : refresh'[l].todo \subseteq refresh'[l].list /\ (refresh'[l].pc = "save" => refresh'[l].user \in Known)
    BY <1>4, <1>5, <1>6 DEF AdminsTyped
  <2>4. mingled' \in BOOLEAN
    BY <1>1 DEF AdminsTyped
  <2> QED
    BY <1>1, <1>7, <2>2, <2>3, <2>4 DEF AdminsTyped
<1>10. Admins!SnapshotTrue'
  BY <1>8 DEF Admins!SnapshotTrue
<1>11. AdminStores'
  <2>1. SUFFICES ASSUME NEW l \in Admins!Refreshing' PROVE IF refresh'[l].alone THEN AloneStores(l)' ELSE mingled'
    BY DEF AdminStores
  <2>2. CASE l = k
    <3>1. CASE Admins!Refreshing = {}
      BY <1>4, <1>5, <1>8, <2>2, <3>1 DEF AloneStores, AdminAt
    <3>2. CASE Admins!Refreshing # {}
      BY <1>1, <1>4, <1>5, <2>2, <3>2
    <3> QED
      BY <3>1, <3>2
  <2>3. CASE l # k
    <3>1. l \in Admins!Refreshing /\ l \in Calls
      BY <1>8, <2>3 DEF Admins!Refreshing
    <3> QED
      BY <1>1, <1>6, <2>3, <3>1
  <2> QED
    BY <2>2, <2>3
<1>12. AdminActive'
  BY <1>4, <1>5 DEF AdminActive, AdminAt
<1>13. AdminHandled'
  <2>1. SUFFICES ASSUME NEW l \in Calls
                 PROVE  /\ AdminAt(l, {"fetch", "store", "save"})' /\ ~refresh'[l].command => marker' = clock
                        /\ AdminAt(l, {"handled"})' => \/ \A i \in Admins!Stored : ~Admins!Old(records[i].at)
                                                       \/ marker # None /\ ~Admins!Old(marker)
    BY <1>1, <1>7 DEF AdminHandled, Admins!Old
  <2>2. CASE l = k
    BY <1>1, <1>4, <1>5, <2>2 DEF AdminAt, AdminHandled
  <2>3. CASE l # k
    BY <1>1, <1>6, <1>7, <2>3 DEF AdminAt, AdminHandled, Admins!Old
  <2> QED
    BY <2>2, <2>3
<1> QED
  BY <1>9, <1>10, <1>11, <1>12, <1>13 DEF AdminClaimed

\* A refresh that goes on, where only it stores: what it has to keep.
LEMMA Within ==
    ASSUME AdminsUsual, AdminsInv, NEW k \in Calls, NEW w \in Refreshes, refresh' = [refresh EXCEPT ![k] = w],
           refresh[k].pc \in {"store", "save"}, w.pc \in {"store", "save"},
           w.command = refresh[k].command, w.list = refresh[k].list, w.alone = refresh[k].alone,
           w.todo \subseteq w.list, w.pc = "save" => w.user \in Known,
           records' \in [AdminIds -> AdminDocs \cup {None}], \A i \in Admins!Stored' : records'[i].at <= clock,
           (\A i \in Admins!Stored : ~Admins!Old(records[i].at)) => \A i \in Admins!Stored' : ~Admins!Old(records'[i].at),
           w.alone /\ AloneStores(k) => AloneStores(k)',
           UNCHANGED <<admins, marker, clock, promotions, failures, base, mingled, missed>>
    PROVE  AdminsInv'
<1> USE DEF AdminsInv
<1>1. /\ refresh' \in [Calls -> Refreshes] /\ refresh'[k] = w
      /\ \A l \in Calls \ {k} : refresh'[l] = refresh[l]
  BY JobTyped
<1>2. Admins!Refreshing' = Admins!Refreshing /\ k \in Admins!Refreshing
  BY <1>1 DEF Admins!Refreshing
<1>3. AdminsTyped'
  BY <1>1 DEF AdminsTyped
<1>4. Admins!SnapshotTrue'
  BY <1>2 DEF Admins!SnapshotTrue
<1>5. AdminStores'
  <2>1. SUFFICES ASSUME NEW l \in Admins!Refreshing PROVE IF refresh'[l].alone THEN AloneStores(l)' ELSE mingled
    BY <1>2 DEF AdminStores
  <2>2. IF refresh[l].alone THEN AloneStores(l) ELSE mingled
    BY DEF AdminStores
  <2>3. CASE l = k
    BY <1>1, <2>2, <2>3
  <2>4. CASE l # k
    <3>1. ~AloneStores(l)
      BY <1>2, <2>4 DEF AloneStores
    <3>2. refresh'[l] = refresh[l]
      BY <1>1, <2>4 DEF Admins!Refreshing
    <3> QED
      BY <2>2, <3>1, <3>2
  <2> QED
    BY <2>3, <2>4
<1>6. AdminActive'
  BY <1>1 DEF AdminActive, AdminAt
<1>7. AdminHandled'
  <2>1. w.pc \in {"fetch", "store", "save"} /\ ~w.command => marker' = clock
    BY DEF AdminHandled, AdminAt
  <2> QED
    BY <2>1, Onwards
<1> QED
  BY <1>3, <1>4, <1>5, <1>6, <1>7 DEF AdminClaimed

\* A step within a refresh is one of the same refreshes.
LEMMA SameRefreshes ==
    ASSUME NEW k \in Calls, refresh[k].pc \in {"store", "save"}, refresh'[k].pc \in {"store", "save"},
           \A l \in Calls \ {k} : refresh'[l] = refresh[l]
    PROVE  Admins!Refreshing' = Admins!Refreshing
BY DEF Admins!Refreshing

\* It looks one of the list up.
LEMMA AdminFindKeeps ==
    ASSUME AdminsUsual, AdminsInv, NEW k \in Calls, NEW u \in Known, Admins!Find(k, u) PROVE AdminsInv'
<1> USE DEF AdminsInv
<1>1. /\ refresh[k].pc = "store" /\ u \in refresh[k].todo
      /\ UNCHANGED <<admins, records, marker, clock, promotions, failures, base, mingled, missed>>
  BY DEF Admins!Find
<1>2. PICK f : f = IF Admins!Of(u) = {} THEN None ELSE Admins!First(u)
  OBVIOUS
<1>3. refresh' = [refresh EXCEPT ![k].pc = "save", ![k].user = u, ![k].found = f]
  BY <1>2 DEF Admins!Find
<1>4. f \in AdminIds \cup {None}
  BY <1>2, FirstIs
<1>5. refresh \in [Calls -> Refreshes] /\ refresh[k] \in Refreshes
  BY DEF AdminsTyped
<1> PICK w : w = [refresh[k] EXCEPT !.pc = "save", !.user = u, !.found = f]
  OBVIOUS
<1>6. w = [pc |-> "save", command |-> refresh[k].command, list |-> refresh[k].list, todo |-> refresh[k].todo,
           user |-> u, found |-> f, alone |-> refresh[k].alone]
  BY <1>5 DEF Refreshes
<1>7. w \in Refreshes
  BY <1>4, <1>5, <1>6 DEF Refreshes, AdminSteps
<1>8. refresh' = [refresh EXCEPT ![k] = w]
  BY <1>3, <1>5
<1>9. /\ w.pc = "save" /\ w.user = u /\ w.found = f /\ w.command = refresh[k].command
      /\ w.list = refresh[k].list /\ w.todo = refresh[k].todo /\ w.alone = refresh[k].alone
  BY <1>6
<1>10. w.todo \subseteq w.list /\ records' \in [AdminIds -> AdminDocs \cup {None}]
  BY <1>1, <1>9 DEF AdminsTyped
<1>11. Admins!Stored' = Admins!Stored /\ Admins!Recorded' = Admins!Recorded /\ Admins!Of(u)' = Admins!Of(u) /\ Admins!First(u)' = Admins!First(u)
       /\ \A v : KnownAt(v)' = KnownAt(v)
  BY <1>1 DEF Admins!Stored, Admins!Recorded, Admins!Of, Admins!First, KnownAt
<1>12. refresh'[k] = w /\ Admins!Refreshing' = Admins!Refreshing
  <2>1. refresh'[k] = w /\ \A l \in Calls \ {k} : refresh'[l] = refresh[l]
    BY <1>7, <1>8, JobTyped
  <2>2. refresh[k].pc \in {"store", "save"} /\ w.pc \in {"store", "save"}
    BY <1>1, <1>9
  <2> QED
    BY <2>1, <2>2, SameRefreshes
<1>13. AloneStores(k) => AloneStores(k)'
  <2> SUFFICES ASSUME AloneStores(k) PROVE AloneStores(k)'
    OBVIOUS
  <2>1. Admins!Refreshing = {k} /\ refresh[k].list = base
        /\ \A v \in refresh[k].list \ refresh[k].todo : v \in Admins!Recorded /\ KnownAt(v) = clock
    BY DEF AloneStores
  <2>2. \A v \in refresh'[k].list \ refresh'[k].todo : v \in Admins!Recorded' /\ KnownAt(v)' = clock'
    BY <1>1, <1>9, <1>11, <1>12, <2>1
  <2>3. refresh'[k].user \in refresh'[k].todo /\ refresh'[k].found = IF Admins!Of(u)' = {} THEN None ELSE Admins!First(u)'
    BY <1>1, <1>2, <1>9, <1>11, <1>12
  <2>4. refresh'[k].user = u
    BY <1>9, <1>12
  <2>5. refresh'[k].found = IF Admins!Of(refresh[k].user)' = {} THEN None ELSE Admins!First(refresh[k].user)'
    BY <2>3, <2>4
  <2>6. Admins!Refreshing' = {k} /\ refresh'[k].list = base' /\ refresh'[k].pc = "save"
    BY <1>1, <1>9, <1>12, <2>1
  <2>7. refresh'[k].user \in refresh'[k].todo
    BY <2>3
  <2> QED
    BY <2>1, <2>2, <2>5, <2>6, <2>7 DEF AloneStores
<1>14. \A i \in Admins!Stored' : records'[i].at <= clock
  BY <1>1, <1>11 DEF AdminsTyped
<1> QED
  BY <1>1, <1>7, <1>8, <1>9, <1>10, <1>11, <1>13, <1>14, Within

\* The first document of a user, after a step.
LEMMA FirstIsNext ==
    ASSUME AdminsUsual, NEW u, Admins!Of(u)' # {}
    PROVE  Admins!First(u)' \in Admins!Of(u)'
<1>1. Admins!Of(u)' \subseteq Nat
  BY DEF Admins!Of, Admins!Stored, AdminsUsual
<1> QED
  BY <1>1, Least DEF Admins!First

\* It saves the document of one of the list.
LEMMA SaveKeeps ==
    ASSUME AdminsUsual, AdminsInv, NEW k \in Calls, Admins!Save(k) PROVE AdminsInv'
<1> USE DEF AdminsInv
<1>1. /\ refresh[k].pc = "save" /\ refresh[k].user \in Known /\ refresh \in [Calls -> Refreshes] /\ refresh[k] \in Refreshes
      /\ UNCHANGED <<admins, marker, clock, promotions, failures, base, mingled, missed>>
  BY DEF Admins!Save, AdminsTyped
<1>2. PICK u \in Known : u = refresh[k].user
  BY <1>1
<1>3. PICK d : d = [user |-> u, at |-> clock]
  OBVIOUS
<1>4. d \in AdminDocs /\ d # None /\ d.user = u /\ d.at = clock /\ clock \in Nat /\ ~Admins!Old(clock)
  BY <1>3 DEF AdminDocs, AdminsTyped, AdminsUsual, Admins!Old
<1>5. PICK i \in AdminIds : /\ IF refresh[k].found = None THEN i \notin Admins!Stored ELSE i = refresh[k].found
                            /\ records' = [records EXCEPT ![i] = d]
  BY <1>2, <1>3 DEF Admins!Save
<1>6. /\ records' \in [AdminIds -> AdminDocs \cup {None}] /\ records'[i] = d
      /\ \A j \in AdminIds \ {i} : records'[j] = records[j]
  BY <1>4, <1>5 DEF AdminsTyped
<1>7. Admins!Stored' = Admins!Stored \cup {i}
  BY <1>4, <1>6 DEF Admins!Stored
<1> PICK w : w = [refresh[k] EXCEPT !.pc = "store", !.todo = refresh[k].todo \ {u}]
  OBVIOUS
<1>8. w = [pc |-> "store", command |-> refresh[k].command, list |-> refresh[k].list, todo |-> refresh[k].todo \ {u},
           user |-> refresh[k].user, found |-> refresh[k].found, alone |-> refresh[k].alone]
  BY <1>1 DEF Refreshes
<1>9. w \in Refreshes
  BY <1>1, <1>8 DEF Refreshes, AdminSteps
<1>10. refresh' = [refresh EXCEPT ![k] = w]
  <2>1. refresh' = [refresh EXCEPT ![k].pc = "store", ![k].todo = refresh[k].todo \ {u}]
    BY <1>1, <1>2 DEF Admins!Save
  <2> QED
    BY <1>1, <2>1
<1>11. /\ w.pc = "store" /\ w.command = refresh[k].command
       /\ w.list = refresh[k].list /\ w.todo = refresh[k].todo \ {u} /\ w.alone = refresh[k].alone
  BY <1>8
<1>12. w.todo \subseteq w.list
  BY <1>11 DEF AdminsTyped
<1>13. refresh'[k] = w /\ Admins!Refreshing' = Admins!Refreshing
  <2>1. refresh'[k] = w /\ \A l \in Calls \ {k} : refresh'[l] = refresh[l]
    BY <1>9, <1>10, JobTyped
  <2> QED
    BY <1>1, <1>11, <2>1 DEF Admins!Refreshing
<1>14. \A j \in Admins!Stored' : records'[j].at <= clock
  BY <1>4, <1>6, <1>7 DEF AdminsTyped, Admins!Stored
<1>15. (\A j \in Admins!Stored : ~Admins!Old(records[j].at)) => \A j \in Admins!Stored' : ~Admins!Old(records'[j].at)
  BY <1>4, <1>6, <1>7 DEF Admins!Stored
<1>16. AloneStores(k) => AloneStores(k)'
  <2> SUFFICES ASSUME AloneStores(k) PROVE AloneStores(k)'
    OBVIOUS
  <2>1. /\ Admins!Refreshing = {k} /\ refresh[k].list = base /\ u \in refresh[k].todo
        /\ refresh[k].found = IF Admins!Of(u) = {} THEN None ELSE Admins!First(u)
        /\ \A v \in refresh[k].list \ refresh[k].todo : v \in Admins!Recorded /\ KnownAt(v) = clock
    BY <1>1, <1>2 DEF AloneStores, AdminAt
  <2>2. Admins!Of(u) # {} => i = Admins!First(u) /\ i \in Admins!Stored /\ records[i].user = u
    BY <1>5, <2>1, FirstIs DEF AdminsUsual
  <2>3. Admins!Of(u) = {} => i \notin Admins!Stored
    BY <1>5, <2>1
  <2>4. ASSUME NEW v, v # u, Admins!Of(v) # {} PROVE Admins!Of(v)' = Admins!Of(v) /\ KnownAt(v)' = KnownAt(v)
    <3>1. Admins!Of(v)' = Admins!Of(v)
      BY <1>4, <1>6, <1>7, <2>2, <2>3, <2>4 DEF Admins!Of, Admins!Stored
    <3>2. Admins!First(v)' = Admins!First(v)
      BY <3>1 DEF Admins!First
    <3>3. Admins!First(v) # i /\ Admins!First(v) \in AdminIds
      BY <2>2, <2>3, <2>4, FirstIs
    <3>4. records'[Admins!First(v)] = records[Admins!First(v)]
      BY <1>6, <3>3
    <3> QED
      BY <3>1, <3>2, <3>4 DEF KnownAt
  <2>5. Admins!Of(u)' # {} /\ KnownAt(u)' = clock
    <3>1. i \in Admins!Of(u)'
      BY <1>4, <1>6, <1>7 DEF Admins!Of
    <3>2. Admins!First(u)' = i
      <4>1. CASE Admins!Of(u) = {}
        <5>1. Admins!Of(u)' = {i}
          BY <1>6, <1>7, <3>1, <4>1 DEF Admins!Of, Admins!Stored
        <5> QED
          BY <5>1, <3>1, FirstIsNext
      <4>2. CASE Admins!Of(u) # {}
        <5>1. Admins!Of(u)' = Admins!Of(u)
          BY <1>4, <1>6, <1>7, <2>2, <4>2 DEF Admins!Of, Admins!Stored
        <5> QED
          BY <2>2, <4>2, <5>1 DEF Admins!First
      <4> QED
        BY <4>1, <4>2
    <3> QED
      BY <1>4, <1>6, <3>1, <3>2 DEF KnownAt
  <2>6. \A v : v \in Admins!Recorded' <=> Admins!Of(v)' # {}
    BY DEF Admins!Recorded, Admins!Of
  <2>7. \A v \in refresh'[k].list \ refresh'[k].todo : v \in Admins!Recorded' /\ KnownAt(v)' = clock'
    <3> TAKE v \in refresh'[k].list \ refresh'[k].todo
    <3>1. v = u \/ v \in refresh[k].list \ refresh[k].todo
      BY <1>11, <1>13
    <3>2. CASE v = u
      BY <1>1, <2>5, <2>6, <3>2
    <3>3. CASE v # u
      <4>1. v \in Admins!Recorded /\ KnownAt(v) = clock
        BY <2>1, <3>1, <3>3
      <4>2. Admins!Of(v) # {}
        BY <4>1, RecordedIs
      <4> QED
        BY <1>1, <2>4, <2>6, <3>3, <4>1, <4>2
    <3> QED
      BY <3>2, <3>3
  <2> QED
    BY <1>1, <1>11, <1>13, <2>1, <2>7 DEF AloneStores, AdminAt
<1> QED
  BY <1>1, <1>6, <1>9, <1>10, <1>11, <1>12, <1>14, <1>15, <1>16, Within

\* Where a refresh ends, well or not, the others still at work are not alone.
LEMMA Ends ==
    ASSUME AdminsUsual, AdminsInv, NEW k \in Calls, NEW w \in Refreshes, refresh' = [refresh EXCEPT ![k] = w],
           w.pc \in {"idle", "handled"}, w.todo \subseteq w.list,
           w.pc = "handled" => ~refresh[k].command, refresh[k].pc \in {"fetch", "store", "save"},
           records' \in [AdminIds -> AdminDocs \cup {None}], \A i \in Admins!Stored' : i \in Admins!Stored /\ records'[i] = records[i],
           \A j \in Admins!Refreshing \ {k} : Admins!Refreshing # {j} /\ mingled => mingled',
           k \notin Admins!Refreshing => records' = records /\ mingled' = mingled,
           Admins!SnapshotTrue', AdminClaimed', missed' \in Nat \cup {None}, failures' \in 0 .. AdminFaults, mingled' \in BOOLEAN,
           UNCHANGED <<admins, marker, clock, promotions, base>>
    PROVE  AdminsInv'
<1> USE DEF AdminsInv
<1>1. /\ refresh' \in [Calls -> Refreshes] /\ refresh'[k] = w
      /\ \A l \in Calls \ {k} : refresh'[l] = refresh[l]
  BY JobTyped
<1>2. Admins!Refreshing' = Admins!Refreshing \ {k}
  BY <1>1 DEF Admins!Refreshing
<1>3. AdminsTyped'
  BY <1>1 DEF AdminsTyped
<1>4. AdminHandled'
  <2>1. w.pc = "handled" => marker' # None /\ ~Admins!Old(marker')
    BY DEF AdminHandled, AdminAt, AdminsTyped, AdminsUsual, Admins!Old
  <2> QED
    BY <2>1, Onwards
<1>5. AdminStores'
  <2>1. SUFFICES ASSUME NEW l \in Admins!Refreshing \ {k} PROVE IF refresh'[l].alone THEN AloneStores(l)' ELSE mingled'
    BY <1>2 DEF AdminStores
  <2>2. refresh'[l] = refresh[l] /\ IF refresh[l].alone THEN AloneStores(l) ELSE mingled
    BY <1>1 DEF AdminStores, Admins!Refreshing
  <2>3. CASE k \in Admins!Refreshing
    <3>1. ~AloneStores(l)
      BY <2>3 DEF AloneStores
    <3> QED
      BY <2>2, <2>3, <3>1
  <2>4. CASE k \notin Admins!Refreshing
    <3>1. Admins!Refreshing' = Admins!Refreshing /\ records' = records /\ mingled' = mingled
      BY <1>2, <2>4
    <3>2. Admins!Stored' = Admins!Stored /\ Admins!Recorded' = Admins!Recorded /\ \A u : Admins!Of(u)' = Admins!Of(u) /\ Admins!First(u)' = Admins!First(u) /\ KnownAt(u)' = KnownAt(u)
      BY <3>1 DEF Admins!Stored, Admins!Recorded, Admins!Of, Admins!First, KnownAt
    <3>3. AloneStores(l) => AloneStores(l)'
      BY <2>2, <3>1, <3>2 DEF AloneStores, AdminAt
    <3> QED
      BY <2>2, <3>1, <3>3
  <2> QED
    BY <2>3, <2>4
<1> QED
  BY <1>3, <1>4, <1>5

\* What Leave makes of a job.
LEMMA LeaveIs ==
    ASSUME AdminsTyped, NEW k \in Calls, Admins!Leave(k)
    PROVE  \E w \in Refreshes : /\ w.pc \in {"idle", "handled"} /\ w.todo \subseteq w.list
                                /\ w.pc = "handled" => ~refresh[k].command
                                /\ refresh' = [refresh EXCEPT ![k] = w]
<1>1. refresh \in [Calls -> Refreshes]
  BY DEF AdminsTyped
<1>2. CASE refresh[k].command
  <2>1. refresh' = [refresh EXCEPT ![k] = Admins!NoJob]
    BY <1>1, <1>2 DEF Admins!Leave
  <2> QED
    BY <1>2, <2>1, NoJobTyped
<1>3. CASE ~refresh[k].command
  <2>1. refresh' = [refresh EXCEPT ![k] = [Admins!NoJob EXCEPT !.pc = "handled"]]
    BY <1>1, <1>3 DEF Admins!Leave
  <2> QED
    BY <1>3, <2>1, NoJobTyped
<1> QED
  BY <1>2, <1>3

\* It deletes the documents of everybody else.
LEMMA AdminDeleteKeeps ==
    ASSUME AdminsUsual, AdminsInv, NEW k \in Calls, Admins!Delete(k) PROVE AdminsInv'
<1> USE DEF AdminsInv
<1>1. /\ refresh[k].pc = "store" /\ refresh[k].todo = {} /\ k \in Admins!Refreshing
      /\ mingled' = (mingled /\ ~refresh[k].alone) /\ missed' = (IF refresh[k].alone THEN missed ELSE clock)
      /\ records' = [i \in AdminIds |-> IF i \in Admins!Stored /\ records[i].user \in refresh[k].list THEN records[i] ELSE None]
      /\ UNCHANGED <<admins, marker, clock, promotions, failures, base>>
  BY DEF Admins!Delete, Admins!Refreshing
<1>2. PICK w \in Refreshes : /\ w.pc \in {"idle", "handled"} /\ w.todo \subseteq w.list
                             /\ w.pc = "handled" => ~refresh[k].command
                             /\ refresh' = [refresh EXCEPT ![k] = w]
  <2>1. Admins!Leave(k)
    BY DEF Admins!Delete
  <2> QED
    BY <2>1, LeaveIs
<1>3. records' \in [AdminIds -> AdminDocs \cup {None}]
  BY <1>1 DEF AdminsTyped, Admins!Stored
<1>4. Admins!Stored' = {i \in Admins!Stored : records[i].user \in refresh[k].list}
  BY <1>1 DEF Admins!Stored
<1>5. \A i \in Admins!Stored' : i \in Admins!Stored /\ records'[i] = records[i]
  BY <1>1, <1>4 DEF Admins!Stored
<1>6. Admins!Refreshing' = Admins!Refreshing \ {k}
  <2>1. refresh'[k] = w /\ \A l \in Calls \ {k} : refresh'[l] = refresh[l]
    BY <1>2, JobTyped
  <2> QED
    BY <1>2, <2>1 DEF Admins!Refreshing
<1>7. IF refresh[k].alone THEN AloneStores(k) ELSE mingled
  BY <1>1 DEF AdminStores
<1>8. clock \in Nat /\ clock # None /\ (marker # None => marker \in Nat /\ marker <= clock)
      /\ missed' \in Nat \cup {None} /\ failures' \in 0 .. AdminFaults /\ mingled' \in BOOLEAN
  BY <1>1 DEF AdminsTyped, AdminsUsual
<1>9. CASE refresh[k].alone
  <2>1. /\ Admins!Refreshing = {k} /\ refresh[k].list = base
        /\ \A u \in base : u \in Admins!Recorded /\ KnownAt(u) = clock
    BY <1>1, <1>7, <1>9 DEF AloneStores
  <2>2. \A u \in base : Admins!Of(u)' = Admins!Of(u)
    BY <1>4, <1>5, <2>1 DEF Admins!Of
  <2>3. \A u : u \in Admins!Recorded' <=> Admins!Of(u)' # {}
    BY DEF Admins!Recorded, Admins!Of
  <2>4. Admins!Recorded' = base
    <3>1. \A u \in base : u \in Admins!Recorded'
      BY <2>1, <2>2, <2>3, RecordedIs
    <3>2. \A i \in Admins!Stored' : records'[i].user \in base
      BY <1>4, <1>5, <2>1
    <3> QED
      BY <3>1, <3>2 DEF Admins!Recorded
  <2>5. ASSUME NEW u \in base PROVE KnownAt(u)' = clock
    <3>1. Admins!Of(u) # {} /\ Admins!First(u)' = Admins!First(u) /\ KnownAt(u) = clock
      BY <2>1, <2>2, RecordedIs DEF Admins!First
    <3>2. Admins!First(u) \in Admins!Of(u)'
      BY <2>2, <3>1, FirstIs
    <3>3. records'[Admins!First(u)] = records[Admins!First(u)]
      BY <1>5, <3>2 DEF Admins!Of
    <3> QED
      BY <3>1, <3>3 DEF KnownAt
  <2>6. Admins!SnapshotTrue' /\ AdminClaimed'
    BY <1>1, <1>8, <2>4, <2>5 DEF Admins!SnapshotTrue, AdminClaimed
  <2>7. \A j \in Admins!Refreshing \ {k} : FALSE
    BY <2>1
  <2> QED
    BY <1>1, <1>2, <1>3, <1>5, <1>8, <2>6, <2>7, Ends
<1>10. CASE ~refresh[k].alone
  <2>1. mingled' /\ mingled /\ missed' = clock
    BY <1>1, <1>7, <1>10
  <2>2. Admins!SnapshotTrue' /\ AdminClaimed'
    BY <1>1, <1>8, <2>1 DEF Admins!SnapshotTrue, AdminClaimed
  <2> QED
    BY <1>1, <1>2, <1>3, <1>5, <1>8, <2>1, <2>2, Ends
<1> QED
  BY <1>9, <1>10

\* The call of Telegram fails.
LEMMA FailKeeps ==
    ASSUME AdminsUsual, AdminsInv, NEW k \in Calls, Admins!Fail(k) PROVE AdminsInv'
<1> USE DEF AdminsInv
<1>1. /\ refresh[k].pc = "fetch" /\ k \notin Admins!Refreshing /\ missed' = clock /\ failures' \in 0 .. AdminFaults
      /\ UNCHANGED <<admins, records, marker, clock, promotions, base, mingled>>
  BY DEF Admins!Fail, Admins!Refreshing, AdminsTyped, AdminsUsual
<1>2. PICK w \in Refreshes : /\ w.pc \in {"idle", "handled"} /\ w.todo \subseteq w.list
                             /\ w.pc = "handled" => ~refresh[k].command
                             /\ refresh' = [refresh EXCEPT ![k] = w]
  <2>1. Admins!Leave(k)
    BY DEF Admins!Fail
  <2> QED
    BY <2>1, LeaveIs
<1>3. Admins!Stored' = Admins!Stored /\ Admins!Recorded' = Admins!Recorded
  BY <1>1 DEF Admins!Stored, Admins!Recorded
<1>4. clock \in Nat /\ clock # None /\ (marker # None => marker \in Nat /\ marker <= clock)
  BY DEF AdminsTyped, AdminsUsual
<1>5. Admins!Refreshing' = Admins!Refreshing
  <2>1. refresh'[k] = w /\ \A l \in Calls \ {k} : refresh'[l] = refresh[l]
    BY <1>2, JobTyped
  <2> QED
    BY <1>1, <1>2, <2>1 DEF Admins!Refreshing
<1>6. Admins!SnapshotTrue' /\ AdminClaimed'
  BY <1>1, <1>3, <1>4, <1>5 DEF Admins!SnapshotTrue, AdminClaimed
<1>7. records' \in [AdminIds -> AdminDocs \cup {None}] /\ mingled' \in BOOLEAN /\ missed' \in Nat \cup {None}
  BY <1>1, <1>4 DEF AdminsTyped
<1> QED
  BY <1>1, <1>2, <1>3, <1>6, <1>7, Ends

\* A job breaks off.
LEMMA DieKeeps ==
    ASSUME AdminsUsual, AdminsInv, NEW k \in Calls, Admins!Die(k) PROVE AdminsInv'
<1> USE DEF AdminsInv
<1>1. /\ refresh[k].pc \in {"fetch", "store", "save"} /\ missed' = clock /\ failures' \in 0 .. AdminFaults
      /\ mingled' = (mingled \/ refresh[k].pc # "fetch") /\ refresh' = [refresh EXCEPT ![k] = Admins!NoJob]
      /\ UNCHANGED <<admins, records, marker, clock, promotions, base>>
  BY DEF Admins!Die, AdminsTyped, AdminsUsual
<1>2. Admins!NoJob \in Refreshes /\ Admins!NoJob.pc = "idle" /\ Admins!NoJob.todo \subseteq Admins!NoJob.list
  BY NoJobTyped
<1>3. Admins!Stored' = Admins!Stored /\ Admins!Recorded' = Admins!Recorded
  BY <1>1 DEF Admins!Stored, Admins!Recorded
<1>4. clock \in Nat /\ clock # None /\ (marker # None => marker \in Nat /\ marker <= clock)
  BY DEF AdminsTyped, AdminsUsual
<1>5. Admins!Refreshing' = Admins!Refreshing \ {k} /\ (k \in Admins!Refreshing <=> refresh[k].pc # "fetch")
  <2>1. refresh'[k] = Admins!NoJob /\ \A l \in Calls \ {k} : refresh'[l] = refresh[l]
    BY <1>1, <1>2, JobTyped
  <2> QED
    BY <1>1, <1>2, <2>1 DEF Admins!Refreshing
<1>6. k \notin Admins!Refreshing => mingled' = mingled
  BY <1>1, <1>5 DEF AdminsTyped
<1>7. Admins!SnapshotTrue' /\ AdminClaimed'
  <2>1. AdminClaimed'
    BY <1>1, <1>4 DEF AdminClaimed
  <2>2. Admins!SnapshotTrue'
    BY <1>1, <1>3, <1>5, <1>6 DEF Admins!SnapshotTrue
  <2> QED
    BY <2>1, <2>2
<1>8. records' \in [AdminIds -> AdminDocs \cup {None}] /\ mingled' \in BOOLEAN /\ missed' \in Nat \cup {None}
  BY <1>1, <1>4 DEF AdminsTyped
<1> QED
  BY <1>1, <1>2, <1>3, <1>6, <1>7, <1>8, Ends

\* The invariant of AdminSnapshot holds after every step,
LEMMA AdminsNextPreserves ==
    ASSUME AdminsUsual, AdminsInv, Admins!Next PROVE AdminsInv'
<1>1. ASSUME NEW k \in Calls,
             \/ Admins!Update(k) \/ Admins!Claim(k) \/ Admins!Reset(k) \/ Admins!Fetch(k) \/ Admins!Save(k) \/ Admins!Delete(k) \/ Admins!Fail(k) \/ Admins!Die(k) \/ Admins!Done(k)
             \/ \E u \in Known : Admins!Find(k, u)
             \/ \E by \in Users, u \in Users :
                    Admins!Promote(k, by, u, admins \cup {u}) \/ Admins!Promote(k, by, u, admins \ {u})
      PROVE  AdminsInv'
  BY <1>1, UpdateKeeps, ClaimKeeps, AdminResetKeeps, FetchKeeps, SaveKeeps, AdminDeleteKeeps, FailKeeps, DieKeeps,
     DoneKeeps, AdminFindKeeps, PromoteKeeps
<1>2. ASSUME Admins!Tick \/ \E after \in SUBSET Users : Admins!Change(after) PROVE AdminsInv'
  BY <1>2, OutsideKeeps
<1> QED
  BY <1>1, <1>2 DEF Admins!Next

\* and when nothing happens.
LEMMA AdminsStutter ==
    ASSUME AdminsInv, UNCHANGED Admins!vars PROVE AdminsInv'
<1> USE DEF AdminsInv
<1>1. UNCHANGED <<admins, records, marker, clock, refresh, promotions, failures, base, mingled, missed>>
  BY DEF Admins!vars
<1>2. Admins!Stored' = Admins!Stored /\ Admins!Recorded' = Admins!Recorded /\ Admins!Refreshing' = Admins!Refreshing
  BY <1>1 DEF Admins!Stored, Admins!Recorded, Admins!Refreshing
<1>3. \A u : Admins!Of(u)' = Admins!Of(u) /\ Admins!First(u)' = Admins!First(u) /\ KnownAt(u)' = KnownAt(u)
  BY <1>1, <1>2 DEF Admins!Of, Admins!First, KnownAt
<1>4. AdminsTyped'
  BY <1>1, <1>2 DEF AdminsTyped
<1>5. Admins!SnapshotTrue' /\ AdminClaimed'
  BY <1>1, <1>2, <1>3 DEF Admins!SnapshotTrue, AdminClaimed, AdminActive, AdminAt
<1>6. AdminStores'
  BY <1>1, <1>2, <1>3 DEF AdminStores, AloneStores, AdminAt
<1>7. AdminHandled'
  BY <1>1, <1>2 DEF AdminHandled, AdminAt, Admins!Old
<1> QED
  BY <1>4, <1>5, <1>6, <1>7

\* The invariant implies what is checked of AdminSnapshot.
LEMMA AdminsInvImplies ==
    ASSUME AdminsUsual, AdminsInv PROVE Admins!SnapshotHolds /\ Admins!TypeOK
<1> USE DEF AdminsInv
<1>1. ASSUME NEW k \in Calls, refresh[k].pc = "handled", NEW u \in Admins!Recorded, Admins!Old(records[Admins!First(u)].at)
      PROVE  \/ \E j \in Calls : refresh[j].pc = "fetch" \/ j \in Admins!Refreshing
             \/ marker # None /\ ~Admins!Old(marker) /\ missed # None /\ ~Admins!Old(missed)
  <2>1. Admins!First(u) \in Admins!Stored /\ records[Admins!First(u)].at \in Nat
    <3>1. Admins!First(u) \in Admins!Stored
      BY FirstIs, RecordedIs
    <3> QED
      BY <3>1 DEF Admins!Stored, AdminsTyped, AdminDocs
  <2>2. marker # None /\ ~Admins!Old(marker)
    BY <1>1, <2>1 DEF AdminHandled, AdminAt
  <2>3. CASE AdminActive
    BY <2>3 DEF AdminActive, AdminAt, Admins!Refreshing
  <2>4. CASE missed # None /\ missed >= marker
    BY <2>2, <2>4 DEF Admins!Old, AdminsTyped, AdminsUsual
  <2>5. CASE \A v \in Admins!Recorded : KnownAt(v) >= marker
    <3>1. records[Admins!First(u)].at >= marker /\ marker \in Nat /\ clock \in Nat
      BY <2>2, <2>5 DEF KnownAt, AdminsTyped
    <3> QED
      BY <1>1, <2>1, <2>2, <3>1 DEF Admins!Old, AdminsUsual
  <2> QED
    BY <2>2, <2>3, <2>4, <2>5 DEF AdminClaimed
<1>2. Admins!SnapshotFresh
  BY <1>1 DEF Admins!SnapshotFresh
<1>3. Admins!TypeOK
  BY DEF AdminsTyped, Admins!TypeOK, Admins!Stored, AdminDocs, Refreshes, AdminSteps
<1> QED
  BY <1>2, <1>3 DEF Admins!SnapshotHolds

-----------------------------------------------------------------------------
(* Connections, by its own names of the slots *)

link == v1
allowed == v2
gone == v3
mark == v4
hour == v5
part == v6
updates == v7
switches == v8
revoked == v9
wish == v10
overlapped == v11

USE DEF link, allowed, gone, mark, hour, part, updates, switches, revoked, wish, overlapped

LinkDocs == [chat : Groups \cup {None}, until : Int, history : SUBSET Groups]

LinkWishes == [chat : Groups \cup {None}, past : SUBSET Groups]

\* None is none of the things it stands for the lack of.
LinksUsual ==
    /\ None \notin Groups /\ None \notin Int /\ None \notin LinkDocs
    /\ LinkTtl \in Nat /\ LinkTime \in Nat /\ LinkUpdates \in Nat /\ LinkChanges \in Nat
    /\ LinkLifetime \in Int

LinkLooks == {"served", "clear", "fetch", "mark", "check", "trust"}

\* The update of the private chat with the connection as it was read.
LinkMiddle == [pc : LinkLooks, chat : Groups \cup {None}, read : LinkDocs \cup {None}, back : {"served", "idle"}]

LinkWork == [pc : {"idle", "lookup"}] \cup [pc : {"find"}, chat : Groups] \cup [pc : {"resolve"}, read : LinkDocs]
            \cup [pc : {"insert", "save"}, new : LinkDocs] \cup LinkMiddle

LinksTyped ==
    /\ link \in LinkDocs \cup {None}
    /\ allowed \subseteq Groups /\ gone \subseteq Groups /\ hour \in 0 .. LinkTime
    /\ mark \in [Groups -> Int \cup {None}]
    /\ \A g \in Groups : mark[g] # None => mark[g] \in 0 .. hour
    /\ updates \in 0 .. LinkUpdates /\ switches \in 0 .. LinkChanges
    /\ part \in [Links!Actors -> LinkWork]
    /\ \A k \in Links!Actors : part[k].pc \in {"clear", "fetch", "mark", "check", "trust"} => part[k].read # None
    /\ \A k \in Links!Actors : part[k].pc \in {"fetch", "mark", "check", "trust"} =>
        part[k].chat # None /\ part[k].back = "served"
    /\ revoked \in [Groups -> Int \cup {None}]
    /\ wish \in LinkWishes /\ overlapped \in BOOLEAN

\* The right to g was held at t, or later.
HeldAt(g, t) == revoked[g] = None \/ revoked[g] >= t

\* A mark says so of its time, and an update that is trusted of now.
Trusted ==
    /\ \A g \in Groups : /\ revoked[g] # None => revoked[g] <= hour
                         /\ mark[g] # None => HeldAt(g, mark[g])
                         /\ g \in allowed => revoked[g] = None
    /\ part[Private].pc = "trust" => HeldAt(part[Private].chat, hour)

DocWish == wish.chat \notin gone => IF link = None THEN wish.chat = None ELSE link.chat = wish.chat

\* An update that is alone makes the document what its user asked for.
AloneWish(k) ==
    /\ part[k].pc = "lookup" => wish.chat = None
    /\ part[k].pc = "find" => wish.chat = part[k].chat
    /\ part[k].pc = "insert" => link = None
    /\ part[k].pc \in {"insert", "save"} => wish.chat \in gone \/ part[k].new.chat = wish.chat
    /\ part[k].pc = "resolve" => DocWish /\ (wish.chat \in gone \/ part[k].read.chat = wish.chat)
    /\ part[k].pc = "clear" /\ part[k].back = "idle" => wish.chat = None
    /\ part[k].pc \in LinkLooks /\ ~ (part[k].pc = "clear" /\ part[k].back = "idle") => DocWish

AloneTrue ==
    ~overlapped =>
        /\ \A k, l \in Links!Busy : k = l
        /\ Links!Busy = {} => DocWish
        /\ \A k \in Links!Busy : AloneWish(k)

\* The groups that are to be remembered, and those that are.
Due == wish.past \ gone
History == IF link = None THEN {} ELSE link.history

\* An update that is alone has read, or is about to save, all that is due.
PastKept(k) ==
    /\ part[k].pc \in {"clear", "fetch", "mark", "check", "trust", "resolve"} => Due \subseteq part[k].read.history
    /\ part[k].pc \in {"insert", "save"} => Due \subseteq part[k].new.history
    /\ part[k].pc = "insert" => link = None
    /\ part[k].pc = "find" => Due \subseteq History \cup {part[k].chat}
    /\ part[k].pc \in LinkLooks \cup {"lookup", "resolve"} => Due \subseteq History

PastTrue ==
    wish.past # {} =>
        /\ \A k, l \in Links!Busy : k = l
        /\ Links!Busy = {} => Due \subseteq History
        /\ \A k \in Links!Busy : PastKept(k)

LinksInv == LinksTyped /\ Trusted /\ Links!RightHeld /\ AloneTrue /\ PastTrue
-----------------------------------------------------------------------------

\* What the step of an actor says about its other fields.
LEMMA LinkWorkIs ==
    ASSUME NEW w \in LinkWork
    PROVE  /\ w.pc \in LinkLooks => w \in LinkMiddle
           /\ w.pc = "find" => w.chat \in Groups
           /\ w.pc \in {"insert", "save"} => w.new \in LinkDocs
           /\ w.pc = "resolve" => w.read \in LinkDocs
           /\ w.pc \in LinkLooks \cup {"idle", "lookup", "find", "resolve", "insert", "save"}
BY DEF LinkWork, LinkMiddle, LinkLooks

\* A step of one actor leaves the others.
LEMMA LinkJobTyped ==
    ASSUME LinksTyped, NEW k \in Links!Actors, NEW w \in LinkWork, part' = [part EXCEPT ![k] = w]
    PROVE  /\ part' \in [Links!Actors -> LinkWork] /\ part'[k] = w
           /\ \A l \in Links!Actors \ {k} : part'[l] = part[l]
BY DEF LinksTyped

\* The step of k leaves the others as busy as they are.
LEMMA BusyAfter ==
    ASSUME LinksTyped, NEW k \in Links!Actors, NEW w \in LinkWork, part' = [part EXCEPT ![k] = w]
    PROVE  /\ w.pc # "idle" => Links!Busy' = Links!Busy \cup {k}
           /\ w.pc = "idle" => Links!Busy' = Links!Busy \ {k}
<1>1. /\ part'[k] = w /\ \A l \in Links!Actors \ {k} : part'[l] = part[l]
  BY LinkJobTyped
<1> QED
  BY <1>1 DEF Links!Busy

PrivateIs == part[Private].pc \in LinkLooks => part[Private] \in LinkMiddle

\* The actor of the private chat is one.
LEMMA PrivateTyped ==
    ASSUME LinksTyped PROVE /\ Private \in Links!Actors /\ part[Private] \in LinkWork /\ PrivateIs
BY LinkWorkIs DEF LinksTyped, Links!Actors, PrivateIs

\* The invariant of Connections holds at the beginning.
LEMMA LinksBegin ==
    ASSUME LinksUsual, Links!Init PROVE LinksInv
<1> USE DEF LinksUsual
<1>1. part \in [Links!Actors -> LinkWork] /\ \A k \in Links!Actors : part[k].pc = "idle"
  BY DEF Links!Init, Links!NoJob, LinkWork
<1>2. LinksTyped
  <2>1. mark \in [Groups -> Int \cup {None}] /\ revoked \in [Groups -> Int \cup {None}]
    BY DEF Links!Init
  <2>2. hour \in 0 .. LinkTime /\ updates \in 0 .. LinkUpdates /\ switches \in 0 .. LinkChanges
    BY DEF Links!Init
  <2>3. wish \in LinkWishes
    BY DEF Links!Init, LinkWishes
  <2> QED
    BY <1>1, <2>1, <2>2, <2>3 DEF Links!Init, LinksTyped
<1>3. Trusted /\ Links!RightHeld
  BY <1>1 DEF Links!Init, Trusted, HeldAt, Links!RightHeld, Links!Actors
<1>4. Links!Busy = {} /\ DocWish /\ wish.past = {}
  BY <1>1 DEF Links!Init, Links!Busy, DocWish
<1> QED
  BY <1>2, <1>3, <1>4 DEF LinksInv, AloneTrue, PastTrue

\* The update of the private chat goes on in the middleware.
LEMMA GoesOn ==
    ASSUME LinksUsual, LinksInv, NEW pc \in LinkLooks,
           part[Private].pc \in {"fetch", "mark", "check", "trust"},
           part' = [part EXCEPT ![Private].pc = pc],
           pc = "trust" => HeldAt(part[Private].chat, hour),
           pc = "served" => revoked[part[Private].chat] = None \/ hour - revoked[part[Private].chat] <= LinkTtl,
           pc \in {"fetch", "mark", "check", "clear"} => mark' = mark,
           mark' \in [Groups -> Int \cup {None}],
           \A g \in Groups : mark'[g] # None => mark'[g] \in 0 .. hour /\ HeldAt(g, mark'[g]),
           UNCHANGED <<link, allowed, gone, hour, updates, switches, revoked, wish, overlapped>>
    PROVE  LinksInv'
<1> USE DEF LinksInv
<1>1. part[Private].pc \in LinkLooks /\ part[Private] \in LinkMiddle /\ part[Private].chat # None /\ part[Private].back = "served"
      /\ part[Private].pc # "idle"
  BY PrivateTyped DEF PrivateIs, LinkLooks, LinksTyped
<1> PICK w : w = [part[Private] EXCEPT !.pc = pc]
  OBVIOUS
<1>2. /\ w = [pc |-> pc, chat |-> part[Private].chat, read |-> part[Private].read, back |-> part[Private].back]
      /\ w \in LinkMiddle /\ w \in LinkWork
  BY <1>1 DEF LinkMiddle, LinkWork
<1>3. part' = [part EXCEPT ![Private] = w]
  BY PrivateTyped DEF LinksTyped
<1>4. part' \in [Links!Actors -> LinkWork] /\ part'[Private] = w /\ \A l \in Links!Actors \ {Private} : part'[l] = part[l]
  BY <1>2, <1>3, PrivateTyped, LinkJobTyped
<1>5. LinksTyped'
  BY <1>1, <1>2, <1>4 DEF LinksTyped
<1>6. Trusted'
  BY <1>2, <1>4 DEF Trusted, HeldAt
<1>7. Links!RightHeld'
  BY <1>2, <1>4 DEF Links!RightHeld
<1>8. Links!Busy' = Links!Busy /\ Private \in Links!Busy
  BY <1>1, <1>2, <1>3, PrivateTyped, BusyAfter DEF Links!Busy, LinkLooks
<1>9. AloneTrue'
  <2> SUFFICES ASSUME ~overlapped PROVE /\ \A k, l \in Links!Busy : k = l
                                        /\ Links!Busy = {} => DocWish'
                                        /\ \A k \in Links!Busy : AloneWish(k)'
    BY <1>8 DEF AloneTrue
  <2>1. /\ \A k, l \in Links!Busy : k = l
        /\ AloneWish(Private)
    BY <1>8 DEF AloneTrue
  <2>2. DocWish
    BY <1>1, <2>1 DEF AloneWish
  <2>3. DocWish'
    BY <2>2 DEF DocWish
  <2>4. AloneWish(Private)'
    BY <1>1, <1>2, <1>4, <2>3 DEF AloneWish, LinkLooks
  <2>5. \A k \in Links!Busy : k = Private
    BY <1>8, <2>1
  <2> QED
    BY <1>8, <2>1, <2>3, <2>4, <2>5
<1>10. PastTrue'
  <2> SUFFICES ASSUME wish.past # {} PROVE /\ \A k, l \in Links!Busy : k = l
                                           /\ Links!Busy = {} => Due' \subseteq History'
                                           /\ \A k \in Links!Busy : PastKept(k)'
    BY <1>8 DEF PastTrue
  <2>1. (\A k, l \in Links!Busy : k = l) /\ PastKept(Private)
    BY <1>8 DEF PastTrue
  <2>2. /\ Due \subseteq part[Private].read.history /\ Due \subseteq History
        /\ Due' = Due /\ History' = History
    BY <1>1, <2>1 DEF PastKept, Due, History
  <2>3. PastKept(Private)'
    BY <1>1, <1>2, <1>4, <2>2 DEF PastKept, LinkLooks
  <2>4. \A k \in Links!Busy : k = Private
    BY <1>8, <2>1
  <2> QED
    BY <1>8, <2>1, <2>3, <2>4
<1> QED
  BY <1>5, <1>6, <1>7, <1>9, <1>10

\* In the middleware the connection was read, of a group.
LEMMA MiddleIs ==
    ASSUME LinksUsual, LinksInv, part[Private].pc \in {"fetch", "mark", "check", "trust"}
    PROVE  /\ part[Private].chat \in Groups
           /\ \A g \in Groups : mark[g] # None => mark[g] \in 0 .. hour /\ HeldAt(g, mark[g])
           /\ mark \in [Groups -> Int \cup {None}]
           /\ revoked[part[Private].chat] \in Int \cup {None} /\ hour \in Int /\ LinkTtl \in Nat
BY PrivateTyped DEF PrivateIs, LinkLooks, LinksInv, LinksTyped, Trusted, LinkMiddle, LinksUsual

\* The middleware asks for the group.
LEMMA LinkFetchKeeps ==
    ASSUME LinksUsual, LinksInv, Links!Fetch PROVE LinksInv'
<1>1. PICK pc \in {"clear", "mark"} : part' = [part EXCEPT ![Private].pc = pc]
  BY DEF Links!Fetch, Links!Go
<1>2. part[Private].pc = "fetch" /\ UNCHANGED <<link, allowed, gone, mark, hour, updates, switches, revoked, wish, overlapped>>
  BY DEF Links!Fetch
<1>3. pc \in LinkLooks /\ pc # "trust" /\ pc # "served"
  BY DEF LinkLooks
<1> QED
  BY <1>1, <1>2, <1>3, GoesOn, MiddleIs

\* It looks at the mark of Redis.
LEMMA MarkKeeps ==
    ASSUME LinksUsual, LinksInv, Links!Mark PROVE LinksInv'
<1>1. PICK pc \in {"served", "check"} : part' = [part EXCEPT ![Private].pc = pc]
                                        /\ (pc = "served" => Links!Marked(part[Private].chat))
  BY DEF Links!Mark, Links!Go
<1>2. part[Private].pc = "mark" /\ UNCHANGED <<link, allowed, gone, mark, hour, updates, switches, revoked, wish, overlapped>>
  BY DEF Links!Mark
<1>3. pc \in LinkLooks /\ pc # "trust" /\ pc # "clear"
  BY DEF LinkLooks
<1>4. pc = "served" => revoked[part[Private].chat] = None \/ hour - revoked[part[Private].chat] <= LinkTtl
  BY <1>1, <1>2, MiddleIs DEF Links!Marked, HeldAt
<1> QED
  BY <1>1, <1>2, <1>3, <1>4, GoesOn, MiddleIs

\* It checks the right.
LEMMA CheckKeeps ==
    ASSUME LinksUsual, LinksInv, Links!Check PROVE LinksInv'
<1>1. PICK pc \in {"trust", "clear"} : part' = [part EXCEPT ![Private].pc = pc]
                                        /\ (pc = "trust" => part[Private].chat \in allowed)
  BY DEF Links!Check, Links!Go
<1>2. part[Private].pc = "check" /\ UNCHANGED <<link, allowed, gone, mark, hour, updates, switches, revoked, wish, overlapped>>
  BY DEF Links!Check
<1>3. pc \in LinkLooks /\ pc # "served"
  BY DEF LinkLooks
<1>4. pc = "trust" => HeldAt(part[Private].chat, hour)
  BY <1>1, <1>2, MiddleIs DEF HeldAt, LinksInv, Trusted
<1> QED
  BY <1>1, <1>2, <1>3, <1>4, GoesOn, MiddleIs

\* It marks that the right was found.
LEMMA TrustKeeps ==
    ASSUME LinksUsual, LinksInv, Links!Trust PROVE LinksInv'
<1>1. /\ part' = [part EXCEPT ![Private].pc = "served"] /\ part[Private].pc = "trust"
      /\ mark' = [mark EXCEPT ![part[Private].chat] = hour]
      /\ UNCHANGED <<link, allowed, gone, hour, updates, switches, revoked, wish, overlapped>>
  BY DEF Links!Trust, Links!Go
<1>2. HeldAt(part[Private].chat, hour)
  BY <1>1 DEF LinksInv, Trusted
<1>3. revoked[part[Private].chat] = None \/ hour - revoked[part[Private].chat] <= LinkTtl
  BY <1>1, <1>2, MiddleIs DEF HeldAt
<1>4. /\ mark' \in [Groups -> Int \cup {None}]
      /\ \A g \in Groups : mark'[g] # None => mark'[g] \in 0 .. hour /\ HeldAt(g, mark'[g])
  <2>1. hour \in 0 .. hour
    BY DEF LinksInv, LinksTyped
  <2> QED
    BY <1>1, <1>2, <2>1, MiddleIs
<1>5. "served" \in LinkLooks
  BY DEF LinkLooks
<1> QED
  BY <1>1, <1>3, <1>4, <1>5, GoesOn

\* An actor that is not in the middleware: what it takes up next, alone or not.
LEMMA Turns ==
    ASSUME LinksUsual, LinksInv, NEW k \in Links!Actors, NEW w \in LinkWork,
           part' = [part EXCEPT ![k] = w],
           w.pc # "trust", w.pc = "served" => w.chat = None,
           w.pc \in {"clear", "fetch", "mark", "check"} => w.read # None,
           w.pc \in {"fetch", "mark", "check"} => w.chat # None /\ w.back = "served",
           link' \in LinkDocs \cup {None}, wish' \in LinkWishes, overlapped' \in BOOLEAN,
           updates' \in 0 .. LinkUpdates,
           UNCHANGED <<allowed, gone, mark, hour, switches, revoked>>
    PROVE  LinksTyped' /\ Trusted' /\ Links!RightHeld'
<1> USE DEF LinksInv
<1>1. part' \in [Links!Actors -> LinkWork] /\ part'[k] = w /\ \A l \in Links!Actors \ {k} : part'[l] = part[l]
  BY LinkJobTyped
<1>2. Private \in Links!Actors
  BY PrivateTyped
<1>3. LinksTyped'
  BY <1>1 DEF LinksTyped
<1>4. Trusted'
  BY <1>1, <1>2 DEF Trusted, HeldAt
<1>5. Links!RightHeld'
  BY <1>1, <1>2 DEF Links!RightHeld
<1> QED
  BY <1>3, <1>4, <1>5

\* Who is alone and turns to something else is still alone.
LEMMA StaysAlone ==
    ASSUME LinksInv, NEW k \in Links!Actors, NEW w \in LinkWork, part' = [part EXCEPT ![k] = w],
           ~overlapped' => /\ Links!Busy \ {k} = {}
                           /\ w.pc = "idle" => DocWish'
                           /\ w.pc # "idle" => AloneWish(k)'
    PROVE  AloneTrue'
<1>1. /\ w.pc # "idle" => Links!Busy' = Links!Busy \cup {k}
      /\ w.pc = "idle" => Links!Busy' = Links!Busy \ {k}
  BY BusyAfter DEF LinksInv
<1> SUFFICES ASSUME ~overlapped' PROVE /\ \A l, m \in Links!Busy' : l = m
                                       /\ Links!Busy' = {} => DocWish'
                                       /\ \A l \in Links!Busy' : AloneWish(l)'
  BY DEF AloneTrue
<1>2. \A l \in Links!Busy' : l = k /\ w.pc # "idle"
  BY <1>1
<1> QED
  BY <1>1, <1>2

\* The same of the groups that are to be remembered.
LEMMA StaysPast ==
    ASSUME LinksInv, NEW k \in Links!Actors, NEW w \in LinkWork, part' = [part EXCEPT ![k] = w],
           wish'.past # {} => /\ Links!Busy \ {k} = {}
                              /\ w.pc = "idle" => Due' \subseteq History'
                              /\ w.pc # "idle" => PastKept(k)'
    PROVE  PastTrue'
<1>1. /\ w.pc # "idle" => Links!Busy' = Links!Busy \cup {k}
      /\ w.pc = "idle" => Links!Busy' = Links!Busy \ {k}
  BY BusyAfter DEF LinksInv
<1> SUFFICES ASSUME wish'.past # {} PROVE /\ \A l, m \in Links!Busy' : l = m
                                          /\ Links!Busy' = {} => Due' \subseteq History'
                                          /\ \A l \in Links!Busy' : PastKept(l)'
  BY DEF PastTrue
<1>2. \A l \in Links!Busy' : l = k /\ w.pc # "idle"
  BY <1>1
<1> QED
  BY <1>1, <1>2

\* Of an actor that is busy while groups are to be remembered, what PastTrue says.
LEMMA PastSays ==
    ASSUME LinksInv, wish.past # {}, NEW k \in Links!Actors, k \in Links!Busy
    PROVE  PastKept(k) /\ Links!Busy \ {k} = {}
BY DEF LinksInv, PastTrue

\* Of an actor that is alone, what AloneTrue says.
LEMMA AloneSays ==
    ASSUME LinksInv, ~overlapped, NEW k \in Links!Actors, k \in Links!Busy
    PROVE  AloneWish(k) /\ Links!Busy \ {k} = {}
BY DEF LinksInv, AloneTrue

\* An update of the private chat reads the connection.
LEMMA LinkReadKeeps ==
    ASSUME LinksUsual, LinksInv, Links!Read PROVE LinksInv'
<1> USE DEF LinksInv
<1> PICK w : w = [pc |-> IF link = None \/ link.chat = None THEN "served"
                         ELSE IF Links!Expired(link) THEN "clear" ELSE "fetch",
                  chat |-> IF link = None THEN None ELSE link.chat, read |-> link, back |-> "served"]
  OBVIOUS
<1>1. /\ part[Private].pc = "idle" /\ updates' \in 0 .. LinkUpdates
      /\ overlapped' = (overlapped \/ Links!Busy # {}) /\ overlapped' \in BOOLEAN
      /\ wish' \in LinkWishes /\ wish'.chat = wish.chat
      /\ wish'.past # {} => Links!Busy = {} /\ wish'.past = wish.past
      /\ part' = [part EXCEPT ![Private] = w]
      /\ UNCHANGED <<link, allowed, gone, mark, hour, switches, revoked>>
  <2>1. wish' = [wish EXCEPT !.past = IF Links!Busy = {} THEN @ ELSE {}]
    BY DEF Links!Read, Links!Begin
  <2>2. /\ wish' \in LinkWishes /\ wish'.chat = wish.chat
        /\ wish'.past # {} => Links!Busy = {} /\ wish'.past = wish.past
    BY <2>1 DEF LinksTyped, LinkWishes
  <2> QED
    BY <2>2 DEF Links!Read, Links!Begin, LinksTyped, LinksUsual
<1>2. /\ w.pc \in {"served", "clear", "fetch"} /\ w.back = "served" /\ w.read = link
      /\ w.pc = "served" => w.chat = None
      /\ w.pc # "served" => w.chat # None /\ link # None
      /\ w \in LinkMiddle
  BY DEF LinksTyped, LinkMiddle, LinkLooks, LinkDocs
<1>3. w \in LinkWork /\ Private \in Links!Actors
  BY <1>2, PrivateTyped DEF LinkWork
<1>4. LinksTyped' /\ Trusted' /\ Links!RightHeld'
  BY <1>1, <1>2, <1>3, Turns DEF LinksTyped
<1>5. part'[Private] = w
  BY <1>1, <1>3, LinkJobTyped
<1>6. ASSUME ~overlapped' PROVE Links!Busy \ {Private} = {} /\ AloneWish(Private)'
  <2>1. Links!Busy = {} /\ DocWish
    BY <1>1, <1>6 DEF AloneTrue
  <2>2. DocWish'
    BY <1>1, <2>1 DEF DocWish
  <2> QED
    BY <1>2, <1>5, <2>1, <2>2 DEF AloneWish
<1>7. AloneTrue'
  BY <1>1, <1>2, <1>3, <1>6, StaysAlone
<1>8. ASSUME wish'.past # {} PROVE Links!Busy \ {Private} = {} /\ PastKept(Private)'
  <2>1. Links!Busy = {} /\ Due \subseteq History /\ Due' = Due /\ History' = History
    BY <1>1, <1>8 DEF PastTrue, Due, History
  <2>2. w.pc # "served" => Due \subseteq w.read.history
    BY <1>2, <2>1 DEF History
  <2> QED
    BY <1>2, <1>5, <2>1, <2>2 DEF PastKept
<1>9. PastTrue'
  BY <1>1, <1>2, <1>3, <1>8, StaysPast
<1> QED
  BY <1>4, <1>7, <1>9

\* The handler of an update returns.
LEMMA OverKeeps ==
    ASSUME LinksUsual, LinksInv, Links!Over PROVE LinksInv'
<1> USE DEF LinksInv
<1>1. /\ part[Private].pc = "served" /\ part' = [part EXCEPT ![Private] = Links!NoJob]
      /\ UNCHANGED <<link, allowed, gone, mark, hour, updates, switches, revoked, wish, overlapped>>
  BY DEF Links!Over
<1>2. Links!NoJob \in LinkWork /\ Links!NoJob.pc = "idle" /\ Private \in Links!Actors
  BY PrivateTyped DEF LinkWork, Links!NoJob
<1>3. LinksTyped' /\ Trusted' /\ Links!RightHeld'
  BY <1>1, <1>2, Turns DEF LinksTyped
<1>4. ASSUME ~overlapped' PROVE Links!Busy \ {Private} = {} /\ DocWish'
  <2>1. AloneWish(Private) /\ Links!Busy \ {Private} = {}
    BY <1>1, <1>2, <1>4, AloneSays DEF Links!Busy
  <2>2. DocWish
    BY <1>1, <2>1 DEF AloneWish, LinkLooks
  <2> QED
    BY <1>1, <2>1, <2>2 DEF DocWish
<1>5. AloneTrue'
  BY <1>1, <1>2, <1>4, StaysAlone
<1>6. ASSUME wish'.past # {} PROVE Links!Busy \ {Private} = {} /\ Due' \subseteq History'
  <2>1. PastKept(Private) /\ Links!Busy \ {Private} = {}
    BY <1>1, <1>2, <1>6, PastSays DEF Links!Busy
  <2>2. Due \subseteq History
    BY <1>1, <2>1 DEF PastKept, LinkLooks
  <2> QED
    BY <1>1, <2>1, <2>2 DEF Due, History
<1>7. PastTrue'
  BY <1>1, <1>2, <1>6, StaysPast
<1> QED
  BY <1>3, <1>5, <1>7

\* A granted request is the user's last, and a refused one changes nothing.
LEMMA GrantKeeps ==
    ASSUME LinksUsual, LinksInv, NEW k \in Links!Actors, NEW g \in Groups, Links!Grant(k, g, part[k].pc),
           part[k].pc \in {"idle", "served"}, updates' \in 0 .. LinkUpdates,
           UNCHANGED <<link, allowed, gone, mark, hour, switches, revoked>>
    PROVE  LinksInv'
<1> USE DEF LinksInv
<1>1. CASE g \notin gone /\ g \in allowed
  <2> PICK w : w = [pc |-> "find", chat |-> g]
    OBVIOUS
  <2>1. /\ part' = [part EXCEPT ![k] = w] /\ overlapped' = (Links!Busy \ {k} # {})
        /\ wish' = [chat |-> g, past |-> IF Links!Busy \ {k} = {} THEN wish.past \cup {g} ELSE {}]
    BY <1>1 DEF Links!Grant
  <2>7. wish' \in LinkWishes
    BY <2>1 DEF LinksTyped, LinkWishes
  <2>2. w \in LinkWork /\ w.pc = "find" /\ w.chat = g
    BY DEF LinkWork
  <2>3. LinksTyped' /\ Trusted' /\ Links!RightHeld'
    BY <2>1, <2>2, <2>7, Turns DEF LinksTyped
  <2>4. part'[k] = w
    BY <2>1, <2>2, LinkJobTyped
  <2>5. AloneWish(k)'
    BY <2>1, <2>2, <2>4 DEF AloneWish, LinkLooks
  <2>6. AloneTrue'
    BY <2>1, <2>2, <2>5, StaysAlone
  <2>8. ASSUME wish'.past # {} PROVE Links!Busy \ {k} = {} /\ PastKept(k)'
    <3>1. Links!Busy \ {k} = {} /\ wish'.past = wish.past \cup {g}
      BY <2>1, <2>8
    <3>2. Due \subseteq History
      <4>1. CASE wish.past = {}
        BY <4>1 DEF Due
      <4>2. CASE wish.past # {} /\ Links!Busy = {}
        BY <4>2 DEF PastTrue
      <4>3. CASE wish.past # {} /\ k \in Links!Busy
        BY <4>3, PastSays DEF PastKept, Links!Busy, LinkLooks
      <4> QED
        BY <3>1, <4>1, <4>2, <4>3
    <3>3. Due' \subseteq Due \cup {g} /\ History' = History
      BY <3>1 DEF Due, History
    <3> QED
      BY <2>2, <2>4, <3>1, <3>2, <3>3 DEF PastKept, LinkLooks
  <2>9. PastTrue'
    BY <2>1, <2>2, <2>8, StaysPast
  <2> QED
    BY <2>3, <2>6, <2>9
<1>2. CASE ~ (g \notin gone /\ g \in allowed)
  <2>1. part' = [part EXCEPT ![k] = Links!NoJob] /\ UNCHANGED <<wish, overlapped>>
    BY <1>2 DEF Links!Grant
  <2>2. Links!NoJob \in LinkWork /\ Links!NoJob.pc = "idle"
    BY DEF LinkWork, Links!NoJob
  <2>3. LinksTyped' /\ Trusted' /\ Links!RightHeld'
    BY <2>1, <2>2, Turns DEF LinksTyped
  <2>4. ASSUME part[k].pc = "idle" PROVE AloneTrue'
    <3>1. Links!Busy' = Links!Busy
      BY <2>1, <2>2, <2>4, BusyAfter DEF Links!Busy
    <3>2. \A l \in Links!Busy : l # k /\ part'[l] = part[l]
      BY <2>1, <2>2, <2>4, LinkJobTyped DEF Links!Busy
    <3>3. DocWish' <=> DocWish
      BY <2>1 DEF DocWish
    <3>4. \A l \in Links!Busy : AloneWish(l) => AloneWish(l)'
      BY <2>1, <3>2, <3>3 DEF AloneWish
    <3> QED
      BY <2>1, <3>1, <3>3, <3>4 DEF AloneTrue
  <2>5. ASSUME part[k].pc = "served" PROVE AloneTrue'
    <3>1. ASSUME ~overlapped' PROVE Links!Busy \ {k} = {} /\ DocWish'
      <4>1. AloneWish(k) /\ Links!Busy \ {k} = {}
        BY <2>1, <2>5, <3>1, AloneSays DEF Links!Busy
      <4>2. DocWish
        BY <2>5, <4>1 DEF AloneWish, LinkLooks
      <4> QED
        BY <2>1, <4>1, <4>2 DEF DocWish
    <3> QED
      BY <2>1, <2>2, <3>1, StaysAlone
  <2>6. Due' = Due /\ History' = History
    BY <2>1 DEF Due, History
  <2>7. ASSUME part[k].pc = "idle" PROVE PastTrue'
    <3>1. Links!Busy' = Links!Busy
      BY <2>1, <2>2, <2>7, BusyAfter DEF Links!Busy
    <3>2. \A l \in Links!Busy : l # k /\ part'[l] = part[l]
      BY <2>1, <2>2, <2>7, LinkJobTyped DEF Links!Busy
    <3>3. \A l \in Links!Busy : PastKept(l) => PastKept(l)'
      BY <2>1, <2>6, <3>2 DEF PastKept
    <3> QED
      BY <2>1, <2>6, <3>1, <3>3 DEF PastTrue
  <2>8. ASSUME part[k].pc = "served" PROVE PastTrue'
    <3>1. ASSUME wish'.past # {} PROVE Links!Busy \ {k} = {} /\ Due' \subseteq History'
      <4>1. PastKept(k) /\ Links!Busy \ {k} = {}
        BY <2>1, <2>8, <3>1, PastSays DEF Links!Busy
      <4> QED
        BY <2>6, <2>8, <4>1 DEF PastKept, LinkLooks
    <3> QED
      BY <2>1, <2>2, <3>1, StaysPast
  <2> QED
    BY <2>3, <2>4, <2>5, <2>7, <2>8
<1> QED
  BY <1>1, <1>2

\* The user connects in the private chat.
LEMMA ConnectKeeps ==
    ASSUME LinksUsual, LinksInv, NEW g \in Groups, Links!Connect(g) PROVE LinksInv'
<1>1. /\ part[Private].pc = "served" /\ Links!Grant(Private, g, part[Private].pc)
      /\ UNCHANGED <<link, allowed, gone, mark, hour, updates, switches, revoked>>
  BY DEF Links!Connect
<1> QED
  BY <1>1, GrantKeeps, PrivateTyped DEF LinksInv, LinksTyped

\* The user connects in a group.
LEMMA ConnectInGroupKeeps ==
    ASSUME LinksUsual, LinksInv, NEW k \in InGroups, NEW g \in Groups, Links!ConnectInGroup(k, g) PROVE LinksInv'
<1>1. /\ part[k].pc = "idle" /\ Links!Grant(k, g, part[k].pc)
      /\ UNCHANGED <<link, allowed, gone, mark, hour, switches, revoked>>
  BY DEF Links!ConnectInGroup
<1>2. k \in Links!Actors /\ updates' \in 0 .. LinkUpdates
  BY DEF Links!ConnectInGroup, Links!Actors, LinksInv, LinksTyped, LinksUsual
<1> QED
  BY <1>1, <1>2, GrantKeeps

\* The user disconnects.
LEMMA DisconnectKeeps ==
    ASSUME LinksUsual, LinksInv, Links!Disconnect PROVE LinksInv'
<1> USE DEF LinksInv
<1> PICK w : w = [pc |-> "lookup"]
  OBVIOUS
<1>1. /\ part[Private].pc = "served" /\ part' = [part EXCEPT ![Private] = w]
      /\ wish' \in LinkWishes /\ wish'.chat = None /\ wish'.past = wish.past
      /\ overlapped' = (Links!Busy \ {Private} # {})
      /\ UNCHANGED <<link, allowed, gone, mark, hour, updates, switches, revoked>>
  BY DEF Links!Disconnect, LinksTyped, LinkWishes
<1>2. w \in LinkWork /\ w.pc = "lookup" /\ Private \in Links!Actors
  BY PrivateTyped DEF LinkWork
<1>3. LinksTyped' /\ Trusted' /\ Links!RightHeld'
  BY <1>1, <1>2, Turns DEF LinksTyped
<1>4. part'[Private] = w
  BY <1>1, <1>2, LinkJobTyped
<1>5. AloneWish(Private)'
  BY <1>1, <1>2, <1>4 DEF AloneWish, LinkLooks
<1>6. AloneTrue'
  BY <1>1, <1>2, <1>5, StaysAlone
<1>7. ASSUME wish'.past # {} PROVE Links!Busy \ {Private} = {} /\ PastKept(Private)'
  <2>1. PastKept(Private) /\ Links!Busy \ {Private} = {}
    BY <1>1, <1>2, <1>7, PastSays DEF Links!Busy
  <2>2. Due \subseteq History /\ Due' = Due /\ History' = History
    BY <1>1, <2>1 DEF PastKept, LinkLooks, Due, History
  <2> QED
    BY <1>2, <1>4, <2>1, <2>2 DEF PastKept
<1>8. PastTrue'
  BY <1>1, <1>2, <1>7, StaysPast
<1> QED
  BY <1>3, <1>6, <1>8

\* The disconnection looks the document up.
LEMMA LinkLookupKeeps ==
    ASSUME LinksUsual, LinksInv, Links!Lookup PROVE LinksInv'
<1> USE DEF LinksInv
<1> PICK w : w = IF link = None THEN Links!NoJob ELSE [pc |-> "clear", chat |-> None, read |-> link, back |-> "idle"]
  OBVIOUS
<1>1. /\ part[Private].pc = "lookup" /\ part' = [part EXCEPT ![Private] = w]
      /\ UNCHANGED <<link, allowed, gone, mark, hour, updates, switches, revoked, wish, overlapped>>
  BY DEF Links!Lookup
<1>2. /\ w \in LinkWork /\ w.pc \in {"idle", "clear"} /\ Private \in Links!Actors
      /\ w.pc = "clear" => w.back = "idle" /\ w.read # None /\ w.read = link
      /\ w.pc = "idle" => link = None
  <2>1. CASE link = None
    BY <2>1, PrivateTyped DEF LinkWork, Links!NoJob
  <2>2. CASE link # None
    <3>1. w = [pc |-> "clear", chat |-> None, read |-> link, back |-> "idle"] /\ w \in LinkMiddle
      BY <2>2 DEF LinkMiddle, LinkLooks, LinksTyped
    <3> QED
      BY <2>2, <3>1, PrivateTyped DEF LinkWork
  <2> QED
    BY <2>1, <2>2
<1>3. LinksTyped' /\ Trusted' /\ Links!RightHeld'
  BY <1>1, <1>2, Turns DEF LinksTyped
<1>4. part'[Private] = w
  BY <1>1, <1>2, LinkJobTyped
<1>5. ASSUME ~overlapped' PROVE /\ Links!Busy \ {Private} = {} /\ (w.pc = "idle" => DocWish')
                                /\ (w.pc # "idle" => AloneWish(Private)')
  <2>1. AloneWish(Private) /\ Links!Busy \ {Private} = {}
    BY <1>1, <1>2, <1>5, AloneSays DEF Links!Busy
  <2>2. wish.chat = None
    BY <1>1, <2>1 DEF AloneWish
  <2>3. w.pc = "idle" => DocWish'
    BY <1>1, <1>2, <2>2 DEF DocWish
  <2>4. w.pc # "idle" => AloneWish(Private)'
    BY <1>1, <1>2, <1>4, <2>2 DEF AloneWish
  <2> QED
    BY <2>1, <2>3, <2>4
<1>6. AloneTrue'
  BY <1>1, <1>2, <1>5, StaysAlone
<1>7. ASSUME wish'.past # {} PROVE /\ Links!Busy \ {Private} = {} /\ (w.pc = "idle" => Due' \subseteq History')
                                  /\ (w.pc # "idle" => PastKept(Private)')
  <2>1. PastKept(Private) /\ Links!Busy \ {Private} = {}
    BY <1>1, <1>2, <1>7, PastSays DEF Links!Busy
  <2>2. Due \subseteq History /\ Due' = Due /\ History' = History
    BY <1>1, <2>1 DEF PastKept, Due, History
  <2>3. w.pc # "idle" => Due \subseteq w.read.history
    BY <1>2, <2>2 DEF History
  <2> QED
    BY <1>2, <1>4, <2>1, <2>2, <2>3 DEF PastKept
<1>8. PastTrue'
  BY <1>1, <1>2, <1>7, StaysPast
<1> QED
  BY <1>3, <1>6, <1>8

\* The connection is cleared and saved.
LEMMA LinkClearKeeps ==
    ASSUME LinksUsual, LinksInv, Links!Clear PROVE LinksInv'
<1> USE DEF LinksInv
<1>1. /\ part[Private].pc = "clear" /\ Private \in Links!Actors /\ part[Private] \in LinkMiddle /\ part[Private].read \in LinkDocs
  BY PrivateTyped DEF Links!Clear, PrivateIs, LinkLooks, LinksTyped, LinkMiddle
<1> PICK w : w = IF part[Private].back = "served" THEN [part[Private] EXCEPT !.pc = "served", !.chat = None] ELSE Links!NoJob
  OBVIOUS
<1>2. /\ part' = [part EXCEPT ![Private] = w]
      /\ link' = [part[Private].read EXCEPT !.chat = None]
      /\ overlapped' = (overlapped \/ part[Private].back = "served") /\ overlapped' \in BOOLEAN
      /\ UNCHANGED <<allowed, gone, mark, hour, updates, switches, revoked, wish>>
  BY <1>1 DEF Links!Clear, LinksTyped
<1>3. /\ w \in LinkWork /\ w.pc \in {"idle", "served"}
      /\ w.pc = "served" => w.chat = None
      /\ w.pc = "served" <=> part[Private].back = "served"
  <2>1. CASE part[Private].back = "served"
    <3>1. w = [pc |-> "served", chat |-> None, read |-> part[Private].read, back |-> part[Private].back]
      BY <1>1, <2>1 DEF LinkMiddle
    <3>2. w \in LinkMiddle
      BY <1>1, <3>1 DEF LinkMiddle, LinkLooks
    <3> QED
      BY <2>1, <3>1, <3>2 DEF LinkWork
  <2>2. CASE part[Private].back # "served"
    BY <2>2 DEF LinkWork, Links!NoJob
  <2> QED
    BY <2>1, <2>2
<1>4. link' \in LinkDocs /\ link'.chat = None /\ link' # None /\ link'.history = part[Private].read.history
  BY <1>1, <1>2 DEF LinkDocs, LinksUsual
<1>5. LinksTyped' /\ Trusted' /\ Links!RightHeld'
  BY <1>2, <1>3, <1>4, <1>1, Turns DEF LinksTyped
<1>6. ASSUME ~overlapped' PROVE Links!Busy \ {Private} = {} /\ w.pc = "idle" /\ DocWish'
  <2>1. AloneWish(Private) /\ Links!Busy \ {Private} = {} /\ part[Private].back = "idle"
    BY <1>2, <1>6, <1>1, AloneSays DEF Links!Busy, LinkMiddle
  <2>2. wish.chat = None
    BY <1>1, <2>1 DEF AloneWish
  <2> QED
    BY <1>2, <1>3, <1>4, <2>1, <2>2 DEF DocWish
<1>7. AloneTrue'
  BY <1>2, <1>3, <1>6, <1>1, StaysAlone
<1>8. part'[Private] = w
  BY <1>1, <1>2, <1>3, LinkJobTyped
<1>9. ASSUME wish'.past # {} PROVE /\ Links!Busy \ {Private} = {} /\ (w.pc = "idle" => Due' \subseteq History')
                                  /\ (w.pc # "idle" => PastKept(Private)')
  <2>1. PastKept(Private) /\ Links!Busy \ {Private} = {}
    BY <1>1, <1>2, <1>9, PastSays DEF Links!Busy
  <2>2. Due \subseteq part[Private].read.history /\ Due' = Due /\ History' = part[Private].read.history
    BY <1>1, <1>2, <1>4, <2>1 DEF PastKept, Due, History
  <2> QED
    BY <1>3, <1>8, <2>1, <2>2 DEF PastKept
<1>10. PastTrue'
  BY <1>1, <1>2, <1>3, <1>9, StaysPast
<1> QED
  BY <1>5, <1>7, <1>10

\* set_connected_chat looks the document up.
LEMMA LinkFindKeeps ==
    ASSUME LinksUsual, LinksInv, NEW k \in Links!Actors, Links!Find(k) PROVE LinksInv'
<1> USE DEF LinksInv
<1>1. part[k] \in LinkWork /\ part[k].pc = "find" /\ part[k].chat \in Groups
  BY LinkWorkIs DEF Links!Find, LinksTyped
<1> DEFINE past == IF link = None THEN {} ELSE link.history
           new == [chat |-> part[k].chat, until |-> hour + LinkLifetime, history |-> past \cup {part[k].chat}]
<1>2. new \in LinkDocs /\ new.chat = part[k].chat /\ new.history = History \cup {part[k].chat}
  <2>1. past \subseteq Groups /\ past = History
    BY DEF LinksTyped, LinkDocs, History
  <2>2. hour + LinkLifetime \in Int
    BY DEF LinksTyped, LinksUsual
  <2> HIDE DEF past
  <2> QED
    BY <1>1, <2>1, <2>2 DEF LinkDocs
<1> PICK w : w = IF part[k].chat \in gone THEN Links!NoJob
                 ELSE [pc |-> IF link = None THEN "insert" ELSE "save", new |-> new]
  OBVIOUS
<1>3. /\ part' = [part EXCEPT ![k] = w]
      /\ UNCHANGED <<link, allowed, gone, mark, hour, updates, switches, revoked, wish, overlapped>>
  BY DEF Links!Find
<1> HIDE DEF new
<1>4. /\ w \in LinkWork /\ w.pc \in {"insert", "save", "idle"}
      /\ w.pc # "idle" => w.new = new /\ (w.pc = "insert" => link = None)
      /\ w.pc = "idle" => part[k].chat \in gone
  BY <1>2 DEF LinkWork, Links!NoJob
<1>5. LinksTyped' /\ Trusted' /\ Links!RightHeld'
  BY <1>3, <1>4, Turns DEF LinksTyped
<1>6. part'[k] = w
  BY <1>3, <1>4, LinkJobTyped
<1>7. ASSUME ~overlapped' PROVE Links!Busy \ {k} = {} /\ (w.pc = "idle" => DocWish') /\ (w.pc # "idle" => AloneWish(k)')
  <2>1. AloneWish(k) /\ Links!Busy \ {k} = {}
    BY <1>3, <1>7, <1>1, AloneSays DEF Links!Busy
  <2>2. wish.chat = part[k].chat
    BY <1>1, <2>1 DEF AloneWish
  <2> QED
    BY <1>3, <1>4, <1>6, <1>2, <2>1, <2>2 DEF AloneWish, DocWish, LinkLooks
<1>8. AloneTrue'
  BY <1>3, <1>4, <1>7, StaysAlone
<1>9. ASSUME wish'.past # {} PROVE /\ Links!Busy \ {k} = {} /\ (w.pc = "idle" => Due' \subseteq History')
                                  /\ (w.pc # "idle" => PastKept(k)')
  <2>1. PastKept(k) /\ Links!Busy \ {k} = {}
    BY <1>1, <1>3, <1>9, PastSays DEF Links!Busy
  <2>2. Due \subseteq History \cup {part[k].chat} /\ Due' = Due /\ History' = History
    BY <1>1, <1>3, <2>1 DEF PastKept, Due, History
  <2>3. w.pc = "idle" => Due' \subseteq History'
    BY <1>4, <2>2 DEF Due
  <2>4. w.pc # "idle" => PastKept(k)'
    BY <1>2, <1>3, <1>4, <1>6, <2>2 DEF PastKept, LinkLooks
  <2> QED
    BY <2>1, <2>3, <2>4
<1>10. PastTrue'
  BY <1>3, <1>4, <1>9, StaysPast
<1> QED
  BY <1>5, <1>8, <1>10

\* A bare /connect reads the document.
LEMMA ListKeeps ==
    ASSUME LinksUsual, LinksInv, Links!List PROVE LinksInv'
<1> USE DEF LinksInv
<1> PICK w : w = IF link = None \/ link.history = {} THEN Links!NoJob ELSE [pc |-> "resolve", read |-> link]
  OBVIOUS
<1>1. /\ part[Private].pc = "served" /\ part' = [part EXCEPT ![Private] = w]
      /\ UNCHANGED <<link, allowed, gone, mark, hour, updates, switches, revoked, wish, overlapped>>
  BY DEF Links!List
<1>2. /\ w \in LinkWork /\ w.pc \in {"idle", "resolve"} /\ Private \in Links!Actors
      /\ w.pc = "resolve" => w.read = link /\ link # None
  BY PrivateTyped DEF LinkWork, Links!NoJob, LinksTyped
<1>3. LinksTyped' /\ Trusted' /\ Links!RightHeld'
  BY <1>1, <1>2, Turns DEF LinksTyped
<1>4. part'[Private] = w
  BY <1>1, <1>2, LinkJobTyped
<1>5. ASSUME ~overlapped' PROVE Links!Busy \ {Private} = {} /\ DocWish' /\ (w.pc # "idle" => AloneWish(Private)')
  <2>1. AloneWish(Private) /\ Links!Busy \ {Private} = {}
    BY <1>1, <1>2, <1>5, AloneSays DEF Links!Busy
  <2>2. DocWish /\ DocWish'
    BY <1>1, <2>1 DEF AloneWish, LinkLooks, DocWish
  <2> QED
    BY <1>1, <1>2, <1>4, <2>1, <2>2 DEF AloneWish, DocWish, LinkLooks
<1>6. AloneTrue'
  BY <1>1, <1>2, <1>5, StaysAlone
<1>7. ASSUME wish'.past # {} PROVE Links!Busy \ {Private} = {} /\ Due' \subseteq History' /\ (w.pc # "idle" => PastKept(Private)')
  <2>1. PastKept(Private) /\ Links!Busy \ {Private} = {}
    BY <1>1, <1>2, <1>7, PastSays DEF Links!Busy
  <2>2. Due \subseteq History /\ Due' = Due /\ History' = History
    BY <1>1, <2>1 DEF PastKept, LinkLooks, Due, History
  <2>3. w.pc # "idle" => Due \subseteq w.read.history
    BY <1>2, <2>2 DEF History
  <2> QED
    BY <1>2, <1>4, <2>1, <2>2, <2>3 DEF PastKept
<1>8. PastTrue'
  BY <1>1, <1>2, <1>7, StaysPast
<1> QED
  BY <1>3, <1>6, <1>8

\* It drops the groups that are gone.
LEMMA ResolveKeeps ==
    ASSUME LinksUsual, LinksInv, Links!Resolve PROVE LinksInv'
<1> USE DEF LinksInv
<1>1. /\ part[Private].pc = "resolve" /\ Private \in Links!Actors /\ part[Private].read \in LinkDocs
  BY PrivateTyped, LinkWorkIs DEF Links!Resolve
<1> PICK read : read = part[Private].read
  OBVIOUS
<1> PICK new : new = [read EXCEPT !.history = @ \ gone]
  OBVIOUS
<1>2. new \in LinkDocs /\ new.chat = read.chat /\ new.history = read.history \ gone
  BY <1>1 DEF LinkDocs
<1> PICK w : w = IF read.history \cap gone = {} THEN Links!NoJob ELSE [pc |-> "save", new |-> new]
  OBVIOUS
<1>3. /\ part' = [part EXCEPT ![Private] = w]
      /\ UNCHANGED <<link, allowed, gone, mark, hour, updates, switches, revoked, wish, overlapped>>
  BY DEF Links!Resolve
<1>4. w \in LinkWork /\ w.pc \in {"idle", "save"} /\ (w.pc = "save" => w.new = new)
  BY <1>2 DEF LinkWork, Links!NoJob
<1>5. LinksTyped' /\ Trusted' /\ Links!RightHeld'
  BY <1>1, <1>3, <1>4, Turns DEF LinksTyped
<1>6. part'[Private] = w
  BY <1>1, <1>3, <1>4, LinkJobTyped
<1>7. ASSUME ~overlapped' PROVE Links!Busy \ {Private} = {} /\ DocWish' /\ (w.pc # "idle" => AloneWish(Private)')
  <2>1. AloneWish(Private) /\ Links!Busy \ {Private} = {}
    BY <1>1, <1>3, <1>7, AloneSays DEF Links!Busy
  <2>2. DocWish /\ (wish.chat \in gone \/ read.chat = wish.chat)
    BY <1>1, <2>1 DEF AloneWish
  <2>3. DocWish'
    BY <1>3, <2>2 DEF DocWish
  <2> QED
    BY <1>2, <1>3, <1>4, <1>6, <2>1, <2>2, <2>3 DEF AloneWish, LinkLooks
<1>8. AloneTrue'
  BY <1>1, <1>3, <1>4, <1>7, StaysAlone
<1>9. ASSUME wish'.past # {} PROVE Links!Busy \ {Private} = {} /\ Due' \subseteq History' /\ (w.pc # "idle" => PastKept(Private)')
  <2>1. PastKept(Private) /\ Links!Busy \ {Private} = {}
    BY <1>1, <1>3, <1>9, PastSays DEF Links!Busy
  <2>2. Due \subseteq History /\ Due \subseteq read.history /\ Due' = Due /\ History' = History
    BY <1>1, <1>3, <2>1 DEF PastKept, Due, History
  <2>3. Due \subseteq new.history
    BY <1>2, <2>2 DEF Due
  <2> QED
    BY <1>4, <1>6, <2>1, <2>2, <2>3 DEF PastKept, LinkLooks
<1>10. PastTrue'
  BY <1>1, <1>3, <1>4, <1>9, StaysPast
<1> QED
  BY <1>5, <1>8, <1>10

\* set_connected_chat saves or inserts it.
LEMMA StoreKeeps ==
    ASSUME LinksUsual, LinksInv, NEW k \in Links!Actors, Links!Store(k) PROVE LinksInv'
<1> USE DEF LinksInv
<1>1. part[k] \in LinkWork /\ part[k].pc \in {"insert", "save"} /\ part[k].new \in LinkDocs
  BY LinkWorkIs DEF Links!Store, LinksTyped
<1>2. /\ part' = [part EXCEPT ![k] = Links!NoJob]
      /\ link' = IF part[k].pc = "insert" /\ link # None THEN link ELSE part[k].new
      /\ UNCHANGED <<allowed, gone, mark, hour, updates, switches, revoked, wish, overlapped>>
  BY DEF Links!Store
<1>3. Links!NoJob \in LinkWork /\ Links!NoJob.pc = "idle"
  BY DEF LinkWork, Links!NoJob
<1>4. LinksTyped' /\ Trusted' /\ Links!RightHeld'
  BY <1>2, <1>3, <1>1, Turns DEF LinksTyped
<1>5. ASSUME ~overlapped' PROVE Links!Busy \ {k} = {} /\ DocWish'
  <2>1. AloneWish(k) /\ Links!Busy \ {k} = {}
    BY <1>2, <1>5, <1>1, AloneSays DEF Links!Busy
  <2>2. link' = part[k].new /\ link' # None /\ (wish.chat \in gone \/ part[k].new.chat = wish.chat)
    BY <1>2, <1>1, <2>1 DEF AloneWish, LinksUsual
  <2> QED
    BY <1>2, <2>1, <2>2 DEF DocWish
<1>6. AloneTrue'
  BY <1>2, <1>3, <1>5, StaysAlone
<1>7. ASSUME wish'.past # {} PROVE Links!Busy \ {k} = {} /\ Due' \subseteq History'
  <2>1. PastKept(k) /\ Links!Busy \ {k} = {}
    BY <1>1, <1>2, <1>7, PastSays DEF Links!Busy
  <2>2. link' = part[k].new /\ link' # None /\ Due \subseteq part[k].new.history /\ Due' = Due
    BY <1>1, <1>2, <2>1 DEF PastKept, Due, LinksUsual
  <2> QED
    BY <2>1, <2>2 DEF History
<1>8. PastTrue'
  BY <1>2, <1>3, <1>7, StaysPast
<1> QED
  BY <1>4, <1>6, <1>8

\* Nobody's step: rights, groups and the clock.
LEMMA LinkOutsideKeeps ==
    ASSUME LinksUsual, LinksInv, (\E g \in Groups : Links!Allow(g) \/ Links!Vanish(g)) \/ Links!Tick PROVE LinksInv'
<1> USE DEF LinksInv
<1>1. UNCHANGED <<link, mark, part, updates, wish, overlapped>>
  BY DEF Links!Allow, Links!Vanish, Links!Tick
<1>2. AloneTrue' /\ PastTrue'
  <2>1. gone \subseteq gone' /\ Links!Busy' = Links!Busy
    BY <1>1 DEF Links!Allow, Links!Vanish, Links!Tick, Links!Busy
  <2>2. DocWish => DocWish'
    BY <1>1, <2>1 DEF DocWish
  <2>3. \A k \in Links!Actors : AloneWish(k) => AloneWish(k)'
    BY <1>1, <2>1, <2>2 DEF AloneWish
  <2>4. Due' \subseteq Due /\ History' = History
    BY <1>1, <2>1 DEF Due, History
  <2>5. \A k \in Links!Actors : PastKept(k) => PastKept(k)'
    BY <1>1, <2>4 DEF PastKept
  <2>6. Links!Busy \subseteq Links!Actors
    BY DEF Links!Busy
  <2>7. AloneTrue'
    BY <1>1, <2>1, <2>2, <2>3, <2>6 DEF AloneTrue
  <2>8. PastTrue'
    BY <1>1, <2>1, <2>4, <2>5, <2>6 DEF PastTrue
  <2> QED
    BY <2>7, <2>8
<1>3. ASSUME NEW g \in Groups, Links!Allow(g) PROVE LinksInv'
  <2>1. /\ switches' \in 0 .. LinkChanges /\ allowed' \subseteq Groups /\ hour \in Nat
        /\ UNCHANGED <<gone, hour>>
        /\ revoked' = [revoked EXCEPT ![g] = IF g \in allowed THEN hour ELSE None]
        /\ g \in allowed' => revoked'[g] = None
        /\ \A h \in Groups \ {g} : revoked'[h] = revoked[h] /\ (h \in allowed' <=> h \in allowed)
        /\ revoked'[g] \in {hour, None}
    BY <1>3 DEF Links!Allow, LinksTyped, LinksUsual
  <2>2. LinksTyped'
    BY <1>1, <2>1 DEF LinksTyped
  <2>3. \A h \in Groups : mark[h] # None => mark[h] <= hour
    BY <2>1 DEF LinksTyped
  <2>4. part[Private].pc \in {"trust", "served"} => part[Private].chat \in Groups \cup {None}
    BY PrivateTyped DEF PrivateIs, LinkLooks, LinkMiddle
  <2>5. ASSUME NEW h \in Groups PROVE
            /\ revoked'[h] # None => revoked'[h] <= hour
            /\ mark[h] # None => HeldAt(h, mark[h])'
            /\ h \in allowed' => revoked'[h] = None
    <3>1. CASE h = g
      BY <3>1, <1>1, <2>1, <2>3 DEF HeldAt
    <3>2. CASE h # g
      BY <3>2, <1>1, <2>1 DEF Trusted, HeldAt
    <3> QED
      BY <3>1, <3>2
  <2>6. part[Private].pc = "trust" => HeldAt(part[Private].chat, hour)'
    <3> SUFFICES ASSUME part[Private].pc = "trust" PROVE HeldAt(part[Private].chat, hour)'
      OBVIOUS
    <3>1. part[Private].chat \in Groups
      BY <2>4, PrivateTyped DEF LinksTyped
    <3>2. CASE part[Private].chat = g
      BY <3>2, <1>1, <2>1 DEF HeldAt
    <3>3. CASE part[Private].chat # g
      BY <3>1, <3>3, <1>1, <2>1 DEF Trusted, HeldAt
    <3> QED
      BY <3>2, <3>3
  <2>7. Trusted'
    BY <1>1, <2>1, <2>5, <2>6 DEF Trusted
  <2>8. Links!RightHeld'
    <3> SUFFICES ASSUME part[Private].pc = "served", part[Private].chat # None
                 PROVE  revoked'[part[Private].chat] = None \/ hour - revoked'[part[Private].chat] <= LinkTtl
      BY <1>1, <2>1 DEF Links!RightHeld
    <3>1. part[Private].chat \in Groups
      BY <2>4
    <3>2. CASE part[Private].chat = g
      BY <3>2, <2>1 DEF LinksUsual
    <3>3. CASE part[Private].chat # g
      BY <3>1, <3>3, <2>1 DEF Links!RightHeld
    <3> QED
      BY <3>2, <3>3
  <2> QED
    BY <1>2, <2>2, <2>7, <2>8
<1>4. ASSUME NEW g \in Groups, Links!Vanish(g) PROVE LinksInv'
  <2>1. switches' \in 0 .. LinkChanges /\ gone' \subseteq Groups /\ UNCHANGED <<allowed, hour, revoked>>
    BY <1>4 DEF Links!Vanish, LinksTyped, LinksUsual
  <2> QED
    BY <1>1, <1>2, <2>1 DEF LinksTyped, Trusted, HeldAt, Links!RightHeld
<1>5. ASSUME Links!Tick PROVE LinksInv'
  <2>1. /\ hour' = hour + 1 /\ hour' \in 0 .. LinkTime /\ hour \in Nat
        /\ UNCHANGED <<allowed, gone, switches, revoked>> /\ part[Private].pc \notin {"trust", "mark", "served"}
    BY <1>5 DEF Links!Tick, LinksTyped, LinksUsual
  <2>2. LinksTyped'
    BY <1>1, <2>1 DEF LinksTyped
  <2>3. Trusted'
    BY <1>1, <2>1 DEF Trusted, HeldAt, LinksTyped
  <2>4. Links!RightHeld'
    BY <1>1, <2>1 DEF Links!RightHeld
  <2> QED
    BY <1>2, <2>2, <2>3, <2>4
<1> QED
  BY <1>3, <1>4, <1>5

\* The invariant of Connections holds after every step.
LEMMA LinksNextPreserves ==
    ASSUME LinksUsual, LinksInv, [Links!Next]_(Links!vars) PROVE LinksInv'
<1>1. CASE UNCHANGED Links!vars
  BY <1>1 DEF Links!vars, LinksInv, LinksTyped, Trusted, HeldAt, Links!RightHeld, AloneTrue,
      Links!Busy, AloneWish, DocWish, PastTrue, PastKept, Due, History
<1> QED
  BY <1>1, ListKeeps, ResolveKeeps, LinkReadKeeps, LinkFetchKeeps, MarkKeeps, CheckKeeps, TrustKeeps, OverKeeps, DisconnectKeeps,
     LinkLookupKeeps, LinkClearKeeps, LinkOutsideKeeps, ConnectKeeps, ConnectInGroupKeeps, LinkFindKeeps, StoreKeeps DEF
         Links!Next

\* The invariant implies what is checked of Connections.
LEMMA LinksInvImplies ==
    ASSUME LinksUsual, LinksInv PROVE Links!ConnectionsHold /\ Links!TypeOK
<1>1. Links!LastWishKept
  BY DEF LinksInv, AloneTrue, Links!LastWishKept, DocWish
<1>5. Links!AllRemembered
  BY DEF LinksInv, PastTrue, Links!AllRemembered, Due, History
<1>2. \A k \in Links!Actors : part[k].pc \in {"idle", "fetch", "mark", "check", "trust", "served", "find", "lookup", "resolve"} \cup Links!Ends
  BY LinkWorkIs DEF LinksInv, LinksTyped, LinkLooks, Links!Ends
<1>3. link # None => link.chat \in Groups \cup {None} /\ link.history \subseteq Groups
  BY DEF LinksInv, LinksTyped, LinkDocs
<1>4. Links!TypeOK
  BY <1>2, <1>3 DEF LinksInv, LinksTyped, LinkWishes, Links!TypeOK
<1> QED
  BY <1>1, <1>4, <1>5 DEF LinksInv, Links!ConnectionsHold
=============================================================================
