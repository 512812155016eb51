----------------------------- MODULE AICatalog -----------------------------
(***************************************************************************)
(* The catalog of AI models (modules/ai): its documents in MongoDB, the    *)
(* counter in Redis that every mutation raises, the snapshot one process   *)
(* has loaded, and the models built from that snapshot.                    *)
(*                                                                         *)
(* A mutation writes its documents and then raises the counter; a load     *)
(* reads the documents and then the counter.  Neither is atomic, and loads *)
(* and mutations run concurrently.  One (mode, purpose) stands for all.    *)
(***************************************************************************)
EXTENDS Integers, Sequences, SequencesExt

CONSTANTS
    Providers,
    Models,
    Loads,         \* coroutines of the process that use the catalog
    Operators,     \* requests of operators, over the API or as commands
    None,
    MaxVersion     \* bound on the mutations

VARIABLES
    providers,   \* the AICatalogProviderModel documents
    models,      \* the AICatalogModelModel documents
    version,     \* "ai:catalog:version" in Redis
    snapshot,    \* _catalog
    built,       \* _ModelCache
    load,
    op,
    torn         \* history: versions whose documents changed under a load or without a bump

vars == <<providers, models, version, snapshot, built, load, op, torn>>

\* A provider is enabled or not; a model is, and refers to a provider.
ProviderDocuments == [enabled : BOOLEAN]

Documents == [provider : Providers, enabled : BOOLEAN]

\* A change of one document.  find_one comes first: the request goes on with
\* a "new" name or a "stored" document only, or with "any".  What is found
\* is saved whole or updated in place.
Changes ==
    [on : {"provider"}, name : Providers, doc : ProviderDocuments, when : {"new", "stored", "any"}, save : {TRUE}]
    \cup [on : {"provider"}, name : Providers, doc : {None}, when : {"stored"}, save : {FALSE}]
    \cup [on : {"model"}, name : Models, doc : Documents, when : {"new", "stored"}, save : {FALSE}]
    \cup [on : {"model"}, name : Models, doc : Documents, when : {"any"}, save : BOOLEAN]
    \cup [on : {"model"}, name : Models, doc : {None}, when : {"stored"}, save : {FALSE}]

NoLoad == [pc |-> "idle", providers |-> {}, models |-> <<>>, version |-> 0]

NoOp == [pc |-> "new", queue |-> <<>>, found |-> FALSE]

TypeOK ==
    /\ providers \in [Providers -> ProviderDocuments \cup {None}]
    /\ models \in [Models -> Documents \cup {None}]
    /\ version \in 0 .. MaxVersion
    /\ \A s \in {snapshot, built} : s.version \in 0 .. MaxVersion /\ DOMAIN s.models \subseteq Models
    /\ \A l \in Loads : load[l].pc \in {"idle", "providers", "models", "version"}
    /\ \A o \in Operators : op[o].pc \in {"new", "list", "find", "write", "bump", "done"}
    /\ torn \subseteq 0 .. MaxVersion

Init ==
    /\ providers \in [Providers -> {None, [enabled |-> TRUE]}]
    /\ models = [m \in Models |-> None]
    /\ version = 0
    /\ snapshot = [version |-> 0, models |-> <<>>]
    /\ built = [version |-> 0, models |-> <<>>]
    /\ load = [l \in Loads |-> NoLoad]
    /\ op = [o \in Operators |-> NoOp]
    /\ torn = {}

---------------------------------------------------------------------------
(* get_catalog and load_catalog *)

Enabled == {m \in Models : models[m] # None /\ models[m].enabled}

Begin(l) ==
    /\ load[l].pc = "idle"
    /\ load' = [load EXCEPT ![l] = [NoLoad EXCEPT !.pc = "providers", !.version = version]]
    /\ UNCHANGED <<providers, models, version, snapshot, built, op, torn>>

\* get_catalog loads when the counter is not the one of the snapshot.
Lookup(l) == version # snapshot.version /\ Begin(l)

\* POST /op/ai/catalog/reload.
Reload(l) == Begin(l)

ReadProviders(l) ==
    /\ load[l].pc = "providers"
    /\ load' = [load EXCEPT ![l].pc = "models",
                            ![l].providers = {p \in Providers : providers[p] = [enabled |-> TRUE]}]
    /\ UNCHANGED <<providers, models, version, snapshot, built, op, torn>>

\* A model that refers to a missing or disabled provider fails the load.
ReadModels(l) ==
    /\ load[l].pc = "models"
    /\ load' = [load EXCEPT ![l] =
           IF \A m \in Enabled : models[m].provider \in @.providers
           THEN [@ EXCEPT !.pc = "version", !.models = [m \in Enabled |-> models[m]]]
           ELSE NoLoad]
    /\ UNCHANGED <<providers, models, version, snapshot, built, op, torn>>

\* The counter is read last; load[l].version, read first, is for the history.
ReadVersion(l) ==
    /\ load[l].pc = "version"
    /\ snapshot' = [version |-> version, models |-> load[l].models]
    /\ load' = [load EXCEPT ![l] = NoLoad]
    /\ torn' = IF load[l].version = version THEN torn ELSE torn \cup {version}
    /\ UNCHANGED <<providers, models, version, built, op>>

\* get_ai_model: what is built stays until the version of the snapshot changes.
Build(m) ==
    /\ m \in DOMAIN snapshot.models
    /\ LET kept == IF built.version = snapshot.version THEN built.models ELSE <<>> IN
       built' = [version |-> snapshot.version,
                 models |-> [n \in {m} \cup DOMAIN kept |->
                                IF n \in DOMAIN kept THEN kept[n] ELSE snapshot.models[n]]]
    /\ UNCHANGED <<providers, models, version, snapshot, load, op, torn>>

---------------------------------------------------------------------------
(* The requests: for every document find_one and a write, then bump_version *)

\* create_*, update_*, delete_*, /op_ai_provider, /op_ai_model.
Request(o, c) ==
    /\ op[o].pc = "new"
    /\ op' = [op EXCEPT ![o].pc = "find", ![o].queue = <<c>>]
    /\ UNCHANGED <<providers, models, version, snapshot, built, load, torn>>

\* import_catalog of one model; with "replace" the others are deleted first.
Import(o, c, replace) ==
    /\ op[o].pc = "new"
    /\ c.on = "model" /\ c.when = "any" /\ ~c.save
    /\ op' = [op EXCEPT ![o].pc = IF replace THEN "list" ELSE "find", ![o].queue = <<c>>]
    /\ UNCHANGED <<providers, models, version, snapshot, built, load, torn>>

List(o) ==
    /\ op[o].pc = "list"
    /\ LET others == {m \in Models : models[m] # None} \ {op[o].queue[1].name}
           gone == [m \in others |-> [on |-> "model", name |-> m, doc |-> None, when |-> "any", save |-> FALSE]]
       IN op' = [op EXCEPT ![o].pc = "find", ![o].queue = SetToSeq({gone[m] : m \in others}) \o @]
    /\ UNCHANGED <<providers, models, version, snapshot, built, load, torn>>

Stored(c) == IF c.on = "provider" THEN providers[c.name] # None ELSE models[c.name] # None

Find(o) ==
    /\ op[o].pc = "find"
    /\ LET c == op[o].queue[1] IN
       op' = [op EXCEPT
           ![o].pc = IF c.when = (IF Stored(c) THEN "new" ELSE "stored") THEN "done" ELSE "write",
           ![o].found = Stored(c)]
    /\ UNCHANGED <<providers, models, version, snapshot, built, load, torn>>

\* save() writes a found document again if it is gone, an update and a
\* delete() do not; a new document fails on the unique name if another
\* request has written it.
Write(o) ==
    /\ op[o].pc = "write"
    /\ LET c == op[o].queue[1]
           fails == ~op[o].found /\ Stored(c) /\ c.doc # None
           lands == IF op[o].found THEN c.save \/ Stored(c) ELSE c.doc # None
       IN
       /\ providers' = IF lands /\ ~fails /\ c.on = "provider"
                       THEN [providers EXCEPT ![c.name] = c.doc] ELSE providers
       /\ models' = IF lands /\ ~fails /\ c.on = "model" THEN [models EXCEPT ![c.name] = c.doc] ELSE models
       /\ op' = [op EXCEPT ![o].pc = IF fails THEN "done" ELSE IF Len(op[o].queue) = 1 THEN "bump" ELSE "find",
                           ![o].queue = Tail(@)]
    /\ UNCHANGED <<version, snapshot, built, load, torn>>

\* Mutant: the counter is left alone.
BumpNothing(o) ==
    /\ op[o].pc = "bump"
    /\ op' = [op EXCEPT ![o].pc = "done"]
    /\ UNCHANGED <<providers, models, version, snapshot, built, load, torn>>

Bump(o) ==
    /\ op[o].pc = "bump"
    /\ version < MaxVersion
    /\ version' = version + 1
    /\ op' = [op EXCEPT ![o].pc = "done"]
    /\ UNCHANGED <<providers, models, snapshot, built, load, torn>>

\* The request fails, or its process dies, and the counter does not move.
Die(o) ==
    /\ op[o].pc \in {"find", "write", "bump"}
    /\ op' = [op EXCEPT ![o].pc = "done"]
    /\ torn' = torn \cup {version}
    /\ UNCHANGED <<providers, models, version, snapshot, built, load>>

Next ==
    \/ \E l \in Loads : Lookup(l) \/ Reload(l) \/ ReadProviders(l) \/ ReadModels(l) \/ ReadVersion(l)
    \/ \E m \in Models : Build(m)
    \/ \E o \in Operators :
        \/ \E c \in Changes : Request(o, c) \/ \E replace \in BOOLEAN : Import(o, c, replace)
        \/ List(o) \/ Find(o) \/ Write(o) \/ Bump(o) \/ Die(o)

Spec == Init /\ [][Next]_vars

---------------------------------------------------------------------------

Quiet == \A o \in Operators : op[o].pc \in {"new", "done"}

\* Once the operators' requests are over, a snapshot of the current version
\* holds the documents and what is built for it are its models, unless the
\* documents changed while it was loaded or a request ended between its write
\* and bump_version.  (bump_version, load_catalog, get_ai_model)
SnapshotFollows ==
    Quiet /\ snapshot.version = version /\ version \notin torn =>
        /\ snapshot.models = [m \in Enabled |-> models[m]]
        /\ built.version = version =>
               \A m \in DOMAIN built.models \cap DOMAIN snapshot.models :
                   built.models[m] = snapshot.models[m]
=============================================================================
