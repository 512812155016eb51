------------------------ MODULE FederationRegistry ------------------------
(***************************************************************************)
(* The documents of the federations (db/models/federations.py) and the     *)
(* commands and REST routes that change them: create, join, leave,         *)
(* subscribe, unsubscribe, transfer, promote, rename, delete.              *)
(*                                                                         *)
(* Every change reads the document, changes the copy and saves all of it:  *)
(* beanie's save() is an update with upsert, so it also writes back what   *)
(* another request has changed meanwhile, and even a document that is      *)
(* gone.  The federation of a chat is looked up in Redis first.            *)
(*                                                                         *)
(* A document keeps what the properties tell apart.  Its name, its         *)
(* administrators and its log channel are not: a command about them is a   *)
(* save of the copy.  Requests of anybody but the owner do nothing.        *)
(***************************************************************************)
EXTENDS Integers, FiniteSets

CONSTANTS
    Feds, Chats, Users, Jobs, None,
    Limit,       \* MAX_FEDERATIONS_PER_USER
    MaxRequests  \* bound on the requests

VARIABLES
    docs,     \* the Federation documents
    fresh,    \* the identifiers uuid4 has not returned yet
    cached,   \* fed:chat_fed_id:<chat> in Redis, five minutes
    offers,   \* fed_transfer:<fed_id> in Redis, five minutes
    job,      \* the requests
    requests, \* how many have started
    lost,     \* history: the federations of which a save wrote back an outdated copy
    crossed   \* history: the chats, and federations referred to, that overlapping requests
              \* or a wrong entry of Redis were about

vars == <<docs, fresh, cached, offers, job, requests, lost, crossed>>

Document(owner) == [owner |-> owner, chats |-> {}, subscribed |-> {}]

Documents == [owner : Users, chats : SUBSET Chats, subscribed : SUBSET Feds]

Idle == [pc |-> "idle", op |-> "none", fed |-> None, arg |-> None, copy |-> None, others |-> <<>>]

TypeOK ==
    /\ docs \in [Feds -> {None} \cup Documents]
    /\ fresh \subseteq {f \in Feds : docs[f] = None}
    /\ cached \in [Chats -> {None} \cup Feds]
    /\ offers \in [Feds -> {None} \cup (Users \X Users)]
    /\ \A j \in Jobs : /\ job[j].fed \in {None} \cup Feds
                       /\ job[j].copy \in {None} \cup Documents

Init ==
    /\ \E u \in Users, E \in SUBSET Feds :
       \E home \in [Chats -> {None} \cup E], ids \in [E -> SUBSET E] :
        /\ \A f \in E : f \notin ids[f]
        /\ docs = [f \in Feds |-> IF f \in E THEN [owner |-> u, subscribed |-> ids[f], chats |-> {c \in Chats : home[c] = f}]
                                ELSE None]
        /\ cached \in {home, [c \in Chats |-> None]}
    /\ fresh = {f \in Feds : docs[f] = None}
    /\ offers = [f \in Feds |-> None]
    /\ job = [j \in Jobs |-> Idle]
    /\ requests = 0
    /\ lost = {}
    /\ crossed = {}

---------------------------------------------------------------------------
(* Steps the requests share *)

Set(j, r) == job' = [job EXCEPT ![j] = r]
Go(j, s) == Set(j, [job[j] EXCEPT !.pc = s])
Stop(j) == Set(j, Idle)

Home(c) == {f \in Feds : docs[f] # None /\ c \in docs[f].chats}

\* The chat, or the federation referred to, that a request is about.
Subject(r) == CASE r.op \in {"join", "leave", "evict", "subscribe"} -> r.arg
                [] r.op = "delete" -> r.fed
                [] OTHER -> None

Conflict(r, s) == /\ Subject(r) # None /\ Subject(r) = Subject(s)
                  /\ ~ (r.op = "subscribe" /\ s.op = "subscribe")

Start(j, r) ==
    /\ requests < MaxRequests /\ requests' = requests + 1
    /\ job[j].pc = "idle"
    /\ Set(j, r)
    /\ crossed' = IF \E i \in Jobs : Conflict(r, job[i]) THEN crossed \cup {Subject(r)} ELSE crossed
    /\ UNCHANGED <<docs, fresh, cached, offers, lost>>

\* FedIdArg.parse, get_federation_by_id: the copy the request works on.
Read(j, op, f, x, s) ==
    /\ docs[f] # None
    /\ Start(j, [Idle EXCEPT !.pc = s, !.op = op, !.fed = f, !.arg = x, !.copy = docs[f]])

\* get_federation_for_chat: Redis ...
Lookup(j) ==
    LET c == job[j].arg IN
    /\ job[j].pc = "lookup"
    /\ IF cached[c] = None THEN Go(j, "find")
       ELSE Set(j, [job[j] EXCEPT !.pc = "get", !.others = <<cached[c]>>])
    /\ UNCHANGED <<docs, fresh, cached, offers, requests, lost, crossed>>

\* The lookup found federation f with its document, or None.
Located(j, f, doc) ==
    CASE job[j].op = "leave" /\ f # None ->
            Set(j, [Idle EXCEPT !.pc = "remove", !.op = "leave", !.fed = f, !.arg = job[j].arg, !.copy = doc])
      [] job[j].op = "evict" /\ f = job[j].fed -> Set(j, [job[j] EXCEPT !.pc = "remove", !.others = <<>>])
      [] job[j].op = "join" /\ f = None -> Set(j, [job[j] EXCEPT !.pc = "add", !.others = <<>>])
      [] OTHER -> Stop(j)

\* ... then the document of the federation Redis names, which may be gone ...
Get(j) ==
    LET f == job[j].others[1] IN
    /\ job[j].pc = "get"
    /\ Located(j, IF docs[f] = None THEN None ELSE f, docs[f])
    /\ UNCHANGED <<docs, fresh, cached, offers, requests, lost, crossed>>

\* Mutant: a miss in Redis is taken for an answer.
FindNothing(j) ==
    /\ job[j].pc = "find"
    /\ Located(j, None, None)
    /\ UNCHANGED <<docs, fresh, cached, offers, requests, lost, crossed>>

\* ... or the document that lists the chat ...
Find(j) ==
    LET c == job[j].arg IN
    /\ job[j].pc = "find"
    /\ IF Home(c) = {} THEN Located(j, None, None)
       ELSE \E f \in Home(c) : Set(j, [job[j] EXCEPT !.pc = "note", !.others = <<f, docs[f]>>])
    /\ UNCHANGED <<docs, fresh, cached, offers, requests, lost, crossed>>

\* ... which Redis remembers.
Note(j) ==
    LET c == job[j].arg
        f == job[j].others[1] IN
    /\ job[j].pc = "note"
    /\ cached' = [cached EXCEPT ![c] = f]
    /\ crossed' = IF f \in Home(c) /\ Home(c) \ lost \subseteq {f} THEN crossed ELSE crossed \cup {c}
    /\ Located(j, f, job[j].others[2])
    /\ UNCHANGED <<docs, fresh, offers, requests, lost>>

\* federation.save(): all fields, with upsert.
Save(f, read, doc) ==
    /\ docs' = [docs EXCEPT ![f] = doc]
    /\ lost' = IF docs[f] # read THEN lost \cup {f} ELSE lost
    /\ UNCHANGED <<fresh, offers, requests, crossed>>

---------------------------------------------------------------------------
(* Chats *)

\* JoinFederationHandler, POST /chats
Join(j, f, c) == Read(j, "join", f, c, "lookup")

\* LeaveFederationHandler
Leave(j, c) == Start(j, [Idle EXCEPT !.pc = "lookup", !.op = "leave", !.arg = c])

\* Every other lookup: commands without a federation, the ban check of a message.
Look(j, c) == Start(j, [Idle EXCEPT !.pc = "lookup", !.op = "look", !.arg = c])

\* DELETE /chats/<chat>: the copy is read before the lookup.
Evict(j, f, c) == Read(j, "evict", f, c, "lookup")

\* add_chat_to_federation
Add(j) ==
    LET r == job[j] IN
    /\ r.pc = "add"
    /\ IF r.arg \in r.copy.chats THEN Stop(j) /\ UNCHANGED <<docs, fresh, offers, requests, lost, crossed>>
       ELSE /\ Save(r.fed, r.copy, [r.copy EXCEPT !.chats = @ \cup {r.arg}])
            /\ Go(j, "added")
    /\ UNCHANGED cached

Added(j) ==
    /\ job[j].pc = "added"
    /\ cached' = [cached EXCEPT ![job[j].arg] = job[j].fed]
    /\ Stop(j)
    /\ UNCHANGED <<docs, fresh, offers, requests, lost, crossed>>

\* remove_chat_from_federation
Remove(j) ==
    LET r == job[j] IN
    /\ r.pc = "remove"
    /\ IF r.arg \notin r.copy.chats THEN Stop(j) /\ UNCHANGED <<docs, fresh, offers, requests, lost, crossed>>
       ELSE /\ Save(r.fed, r.copy, [r.copy EXCEPT !.chats = @ \ {r.arg}])
            /\ Go(j, "removed")
    /\ UNCHANGED cached

Removed(j) ==
    /\ job[j].pc = "removed"
    /\ cached' = [cached EXCEPT ![job[j].arg] = None]
    /\ Stop(j)
    /\ UNCHANGED <<docs, fresh, offers, requests, lost, crossed>>

---------------------------------------------------------------------------
(* Federations *)

\* create_federation: count, then insert.
Owned(u) == {f \in Feds : docs[f] # None /\ docs[f].owner = u}

Create(j, u) ==
    /\ Cardinality(Owned(u)) < Limit
    /\ Start(j, [Idle EXCEPT !.pc = "insert", !.op = "create", !.arg = u])

Insert(j) ==
    /\ job[j].pc = "insert"
    /\ \E f \in fresh : /\ docs' = [docs EXCEPT ![f] = Document(job[j].arg)]
                        /\ fresh' = fresh \ {f}
    /\ Stop(j)
    /\ UNCHANGED <<cached, offers, requests, lost, crossed>>

\* Promote, demote, rename, log channel; subscribe, unsubscribe.
Edit(j, f) == Read(j, "edit", f, None, "write")
Subscribe(j, f, g) == f # g /\ Read(j, "subscribe", f, g, "target")
Unsubscribe(j, f, g) == Read(j, "unsubscribe", f, g, "write")

\* subscribe_to_federation looks the target up.
Target(j) ==
    /\ job[j].pc = "target"
    /\ IF docs[job[j].arg] = None \/ job[j].arg \in job[j].copy.subscribed THEN Stop(j) ELSE Go(j, "write")
    /\ UNCHANGED <<docs, fresh, cached, offers, requests, lost, crossed>>

Changed(r) ==
    CASE r.op = "subscribe" -> [r.copy EXCEPT !.subscribed = @ \cup {r.arg}]
      [] r.op = "unsubscribe" -> [r.copy EXCEPT !.subscribed = @ \ {r.arg}]
      [] r.op = "accept" -> [r.copy EXCEPT !.owner = r.arg]
      [] OTHER -> r.copy

Write(j) ==
    /\ job[j].pc = "write"
    /\ Save(job[j].fed, job[j].copy, Changed(job[j]))
    /\ Stop(j)
    /\ UNCHANGED cached

\* TransferOwnershipHandler
Offer(f, u) ==
    /\ requests < MaxRequests /\ requests' = requests + 1
    /\ docs[f] # None /\ docs[f].owner # u
    /\ Cardinality(Owned(u)) < Limit
    /\ offers' = [offers EXCEPT ![f] = <<docs[f].owner, u>>]
    /\ UNCHANGED <<docs, fresh, cached, job, lost, crossed>>

\* AcceptTransferHandler: the offer is taken, then the document read, whose owner
\* must be the one who offered; the limit is not looked at again.  GET and GETDEL
\* are one step: the code deletes an offer unread that is made between them.
Accept(j, f) ==
    /\ requests < MaxRequests /\ requests' = requests + 1
    /\ job[j].pc = "idle"
    /\ offers[f] # None
    /\ offers' = [offers EXCEPT ![f] = None]
    /\ IF docs[f] # None /\ docs[f].owner = offers[f][1]
       THEN Set(j, [Idle EXCEPT !.pc = "write", !.op = "accept", !.fed = f, !.arg = offers[f][2], !.copy = docs[f]])
       ELSE UNCHANGED job
    /\ UNCHANGED <<docs, fresh, cached, lost, crossed>>

\* delete_federation: the subscribers, one after the other ...
Delete(j, f) == Read(j, "delete", f, None, "subscribers")

Subscribers(j) ==
    LET S == {g \in Feds : docs[g] # None /\ job[j].fed \in docs[g].subscribed} IN
    /\ job[j].pc = "subscribers"
    /\ Set(j, [job[j] EXCEPT !.pc = "release", !.others = [g \in S |-> docs[g]]])
    /\ UNCHANGED <<docs, fresh, cached, offers, requests, lost, crossed>>

Release(j) ==
    LET S == DOMAIN job[j].others IN
    /\ job[j].pc = "release"
    /\ IF S = {}
       THEN /\ cached' = [c \in Chats |-> IF c \in job[j].copy.chats THEN None ELSE cached[c]]
            /\ Go(j, "erase")
            /\ UNCHANGED <<docs, fresh, offers, requests, lost, crossed>>
       ELSE \E g \in S :
            LET doc == job[j].others[g] IN
            /\ Save(g, doc, [doc EXCEPT !.subscribed = @ \ {job[j].fed}])
            /\ Set(j, [job[j] EXCEPT !.others = [h \in S \ {g} |-> @[h]]])
            /\ UNCHANGED cached

\* ... the cache of its chats, and the document.
Erase(j) ==
    /\ job[j].pc = "erase"
    /\ docs' = [docs EXCEPT ![job[j].fed] = None]
    /\ Stop(j)
    /\ UNCHANGED <<fresh, cached, offers, requests, lost, crossed>>

---------------------------------------------------------------------------

\* Redis keys expire.
Expire ==
    /\ \/ \E c \in Chats : cached' = [cached EXCEPT ![c] = None] /\ UNCHANGED offers
       \/ \E f \in Feds : offers' = [offers EXCEPT ![f] = None] /\ UNCHANGED cached
    /\ UNCHANGED <<docs, fresh, job, requests, lost, crossed>>

Next ==
    \/ \E j \in Jobs :
        \/ \E c \in Chats : Leave(j, c) \/ Look(j, c)
        \/ \E f \in Feds, c \in Chats : Join(j, f, c) \/ Evict(j, f, c)
        \/ \E f, g \in Feds : Subscribe(j, f, g) \/ Unsubscribe(j, f, g)
        \/ \E f \in Feds : Edit(j, f) \/ Accept(j, f) \/ Delete(j, f)
        \/ \E u \in Users : Create(j, u)
        \/ Lookup(j) \/ Get(j) \/ Find(j) \/ Note(j)
        \/ Add(j) \/ Added(j) \/ Remove(j) \/ Removed(j)
        \/ Insert(j) \/ Target(j) \/ Write(j)
        \/ Subscribers(j) \/ Release(j) \/ Erase(j)
    \/ \E f \in Feds, u \in Users : Offer(f, u)
    \/ Expire

Spec == Init /\ [][Next]_vars

---------------------------------------------------------------------------

\* A chat is in one federation at most: the bans of one federation only are
\* enforced in it (get_federation_for_chat takes the first it finds).  Joins
\* check before they add, so the exceptions are a chat that joined or left
\* twice at a time or that Redis remembers wrongly, and a federation of which
\* a save wrote back an old copy.
OneFederationPerChat ==
    \A c \in Chats \ crossed : Cardinality(Home(c) \ lost) <= 1

\* Deleting a federation leaves no subscription to it behind, unless the
\* subscriber subscribed meanwhile or a save wrote back an old copy of it.
NoDanglingSubscription ==
    \A f \in Feds \ lost : docs[f] # None =>
        \A g \in docs[f].subscribed \ (lost \cup crossed) : docs[g] # None
===========================================================================
