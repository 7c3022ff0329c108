------------------------------ MODULE Deployment ------------------------------
(***************************************************************************)
(* The retrieval index and the processes that build and load it: deployed  *)
(* containers (app/deployment/start.py), which bootstrap under an advisory *)
(* lock and then serve, and a workstation with the index script            *)
(* (scripts/index_advanced_knowledge.py), which takes no lock.             *)
(*                                                                         *)
(* One index is spread over Chroma (children), Redis (parents) and three   *)
(* files per machine.  They are written one after the other, and a process *)
(* may stop between any two writes or inside one.                          *)
(*                                                                         *)
(* Child and parent identifiers hash their content, so a record never      *)
(* changes under its identifier and a set of identifiers is an index.      *)
(***************************************************************************)
EXTENDS Naturals, FiniteSets

CONSTANTS
    Containers,    \* deployed containers, each with a file system of its own
    Images,        \* builds of the repository, each with its knowledge files
    Children,      \* child identifiers, numbered in the order of the corpus
    Corpus,        \* the children an image's knowledge files are split into
    ParentOf,      \* the parent section of each child
    BatchSize,     \* settings.rag_bootstrap_batch_size
    MaxBegun,      \* bound: bootstraps, script runs and calls begun
    NoOne          \* nobody holds the advisory lock

ASSUME DeploymentAssumption ==
    /\ Children \subseteq Nat
    /\ IsFiniteSet(Children)
    /\ Images # {}
    /\ Corpus \in [Images -> (SUBSET Children) \ {{}}]
    /\ ParentOf \in [Children -> Nat]
    /\ BatchSize \in Nat \ {0}
    /\ MaxBegun \in Nat
    /\ NoOne \notin Containers
    /\ {"script", "workstation"} \intersect Containers = {}
    /\ {"none", "torn"} \intersect Images = {}

Parents == {ParentOf[k] : k \in Children}
ParentsOf(image) == {ParentOf[k] : k \in Corpus[image]}

Jobs == Containers \union {"script"}
Machines == Containers \union {"workstation"}
MachineOf(p) == IF p = "script" THEN "workstation" ELSE p

VARIABLES
    chroma,      \* child identifiers in the collection
    redis,       \* parent identifiers that have a key
    lock,        \* holder of pg_advisory_lock(181710)
    disk,        \* the manifest's three files, per machine
    job,         \* bootstraps and the script: where each is, what it holds
    app,         \* each container's application
    late,        \* batches whose thread outlives its cancelled bootstrap
    begun,       \* how many bootstraps, script runs and calls were begun
    seen,        \* history: every child that has been in the collection
    deleted,     \* history: children and parents the script has deleted
    disturbed    \* history: another process wrote since the script began

history == <<seen, deleted, disturbed>>
deployVars == <<chroma, redis, lock, disk, job, app, late, begun, history>>

-----------------------------------------------------------------------------
(* State.                                                                   *)

Files == {"parents", "children", "meta"}

\* The order in which save_rag_manifest writes them.
Order == [parents |-> 1, children |-> 2, meta |-> 3]

\* The image a file was written from; a file cut short does not parse.
Content == Images \union {"none", "torn"}

JobPoints == {"off", "lock", "batch", "put", "manifest",
              "read", "upsert", "delete", "stale", "verify"}

\* missing: children to upsert; stale: children to delete; rest: parents to
\* put; drop: parents to delete; fault: how the last attempt was refused.
Job == [pc: JobPoints, image: Images, missing: SUBSET Children,
        stale: SUBSET Children, rest: SUBSET Parents, drop: SUBSET Parents,
        fault: {"none", "differs", "unverified"}]

TypeOK ==
    /\ chroma \in SUBSET Children
    /\ redis \in SUBSET Parents
    /\ lock \in Containers \union {NoOne}
    /\ disk \in [Machines -> [Files -> Content]]
    /\ job \in [Jobs -> Job]
    /\ app \in [Containers -> {"off", "load", "serving"}]
    /\ late \in SUBSET SUBSET Children
    /\ begun \in 0..MaxBegun
    /\ seen \in SUBSET Children
    /\ deleted \in [children: SUBSET Children, parents: SUBSET Parents]
    /\ disturbed \in BOOLEAN

IdleJob(image) == [pc |-> "off", image |-> image, missing |-> {}, stale |-> {},
                   rest |-> {}, drop |-> {}, fault |-> "none"]

\* The script's image before its first run.
AnyImage == CHOOSE image \in Images : TRUE

Init ==
    /\ chroma = {}
    /\ redis = {}
    /\ lock = NoOne
    /\ disk = [m \in Machines |-> [f \in Files |-> "none"]]
    /\ \E image \in [Containers -> Images] :
         job = [p \in Jobs |-> IF p = "script" THEN IdleJob(AnyImage) ELSE IdleJob(image[p])]
    /\ app = [c \in Containers |-> "off"]
    /\ late = {}
    /\ begun = 0
    /\ seen = {}
    /\ deleted = [children |-> {}, parents |-> {}]
    /\ disturbed = FALSE

-----------------------------------------------------------------------------
(* Helpers.                                                                 *)

At(p, pc) == job[p].pc = pc
Goto(p, pc) == job' = [job EXCEPT ![p].pc = pc]

\* A container's write to the shared stores, seen from a running script.
Disturb == disturbed' = (disturbed \/ job["script"].pc # "off")

\* Adding children to the collection.
Upsert(batch) ==
    /\ chroma' = chroma \union batch
    /\ seen' = seen \union batch

Begin ==
    /\ begun < MaxBegun
    /\ begun' = begun + 1

Unlocked(p) == lock' = IF lock = p THEN NoOne ELSE lock

\* load_rag_manifest accepts files that parse and whose counts agree.
Loads(f) ==
    /\ \A n \in Files : f[n] \in Images
    /\ Cardinality(Corpus[f["children"]]) = Cardinality(Corpus[f["meta"]])
    /\ Cardinality(ParentsOf(f["parents"])) = Cardinality(ParentsOf(f["meta"]))

Written(image) == [f \in Files |-> image]

\* The next batch in corpus order.
FirstOf(missing) ==
    {k \in missing : Cardinality({j \in missing : j < k}) < BatchSize}

-----------------------------------------------------------------------------
(* The bootstrap of a container (deployment/bootstrap.py).                  *)

StartContainer(c) ==
    /\ At(c, "off") /\ app[c] = "off"
    /\ Begin
    /\ job' = [job EXCEPT ![c] = [IdleJob(job[c].image) EXCEPT !.pc = "lock"]]
    /\ UNCHANGED <<chroma, redis, lock, disk, app, late, history>>

\* ValueError: the index differs and needs a deliberate migration.
Refuse(c) ==
    /\ job' = [job EXCEPT ![c] = [IdleJob(job[c].image) EXCEPT !.fault = "differs"]]
    /\ Unlocked(c)

\* Mutant of ReadExisting: children of another corpus are removed.
ReadExistingPruned(c) ==
    LET expected == Corpus[job[c].image] IN
    /\ At(c, "lock") /\ lock = NoOne /\ lock' = c
    /\ chroma' = chroma \intersect expected
    /\ job' = [job EXCEPT ![c].pc = "batch", ![c].missing = expected \ chroma]
    /\ UNCHANGED <<begun, redis, disk, app, late, history>>

\* Mutant of ReadExisting: an index that is not complete counts as different.
ReadExistingWhole(c) ==
    LET expected == Corpus[job[c].image] IN
    /\ At(c, "lock") /\ lock = NoOne
    /\ \/ chroma \notin {{}, expected} /\ Refuse(c)
       \/ /\ chroma \in {{}, expected}
          /\ lock' = c
          /\ job' = [job EXCEPT ![c].pc = "batch", ![c].missing = expected \ chroma]
    /\ UNCHANGED <<begun, chroma, redis, disk, app, late, history>>

\* Under the lock: schema setup, the embedding model and the corpus, which
\* change nothing here and can only fail; then missing_ids, additions only.
ReadExisting(c) ==
    LET expected == Corpus[job[c].image] IN
    /\ At(c, "lock") /\ lock = NoOne
    /\ \/ ~(chroma \subseteq expected) /\ Refuse(c)
       \/ /\ chroma \subseteq expected
          /\ lock' = c
          /\ job' = [job EXCEPT ![c].pc = "batch", ![c].missing = expected \ chroma]
    /\ UNCHANGED <<begun, chroma, redis, disk, app, late, history>>

UpsertBatch(c) ==
    LET batch == FirstOf(job[c].missing) IN
    /\ At(c, "batch")
    /\ job[c].missing # {}
    /\ Upsert(batch)
    /\ job' = [job EXCEPT ![c].missing = @ \ batch]
    /\ Disturb
    /\ UNCHANGED <<begun, redis, lock, disk, app, late, deleted>>

\* After the last batch: the collection holds as many children as the corpus.
CheckCount(c) ==
    LET expected == Corpus[job[c].image] IN
    /\ At(c, "batch")
    /\ job[c].missing = {}
    /\ \/ Cardinality(chroma) # Cardinality(expected) /\ Refuse(c)
       \/ /\ Cardinality(chroma) = Cardinality(expected)
          /\ job' = [job EXCEPT ![c].pc = "put", ![c].rest = ParentsOf(job[c].image)]
          /\ UNCHANGED lock
    /\ UNCHANGED <<begun, chroma, redis, disk, app, late, history>>

\* The three files; the lock's connection closes behind the last one, and
\* start.py goes on to the application.
WriteManifest(c) ==
    /\ At(c, "manifest")
    /\ disk' = [disk EXCEPT ![c] = Written(job[c].image)]
    /\ job' = [job EXCEPT ![c] = IdleJob(job[c].image)]
    /\ Unlocked(c)
    /\ app' = [app EXCEPT ![c] = "load"]
    /\ UNCHANGED <<begun, chroma, redis, late, history>>

\* The thread of a batch cannot be cancelled with its bootstrap: its request
\* is answered later, when others may hold the lock, or it is lost.
LateBatch ==
    \E batch \in late :
        /\ late' = late \ {batch}
        /\ \/ Upsert(batch) /\ Disturb
           \/ UNCHANGED <<chroma, seen, disturbed>>
        /\ UNCHANGED <<begun, redis, lock, disk, job, app, deleted>>

-----------------------------------------------------------------------------
(* The index script (scripts/index_advanced_knowledge.py, rag/indexer.py).  *)

\* The checkout may have changed since the last run.
StartScript ==
    /\ At("script", "off")
    /\ Begin
    /\ \E image \in Images :
         job' = [job EXCEPT !["script"] = [IdleJob(image) EXCEPT !.pc = "read"]]
    /\ disturbed' = FALSE
    /\ UNCHANGED <<chroma, redis, lock, disk, app, late, seen, deleted>>

\* What is stale: every foreign child in the collection, and the parents of the
\* previous manifest, if that one loads.
ScriptRead ==
    LET image == job["script"].image
        files == disk["workstation"] IN
    /\ At("script", "read")
    /\ job' = [job EXCEPT !["script"].pc = "upsert",
           !["script"].stale = chroma \ Corpus[image],
           !["script"].drop = IF Loads(files) THEN ParentsOf(files["parents"]) \ ParentsOf(image)
                                              ELSE {}]
    /\ UNCHANGED <<begun, chroma, redis, lock, disk, app, late, history>>

ScriptUpsert ==
    /\ At("script", "upsert")
    /\ Upsert(Corpus[job["script"].image])
    /\ Goto("script", "delete")
    /\ UNCHANGED <<begun, redis, lock, disk, app, late, deleted, disturbed>>

ScriptDelete ==
    /\ At("script", "delete")
    /\ chroma' = chroma \ job["script"].stale
    /\ deleted' = [deleted EXCEPT !.children = @ \union job["script"].stale]
    /\ job' = [job EXCEPT !["script"].pc = "put",
                          !["script"].rest = ParentsOf(job["script"].image)]
    /\ UNCHANGED <<begun, redis, lock, disk, app, late, seen, disturbed>>

DropStaleParents ==
    /\ At("script", "stale")
    /\ redis' = redis \ job["script"].drop
    /\ deleted' = [deleted EXCEPT !.parents = @ \union job["script"].drop]
    /\ Goto("script", "manifest")
    /\ UNCHANGED <<begun, chroma, lock, disk, app, late, seen, disturbed>>

ScriptManifest ==
    /\ At("script", "manifest")
    /\ disk' = [disk EXCEPT !["workstation"] = Written(job["script"].image)]
    /\ Goto("script", "verify")
    /\ UNCHANGED <<begun, chroma, redis, lock, app, late, history>>

\* _verify_index: exact children, every parent, and the manifest read back.
Verify ==
    LET image == job["script"].image
        files == disk["workstation"]
        verified == /\ chroma = Corpus[image]
                    /\ ParentsOf(image) \subseteq redis
                    /\ Loads(files) /\ files["meta"] = image
    IN  /\ At("script", "verify")
        /\ job' = [job EXCEPT !["script"] = [IdleJob(image) EXCEPT
                      !.fault = IF verified THEN "none" ELSE "unverified"]]
        /\ UNCHANGED <<begun, chroma, redis, lock, disk, app, late, history>>

-----------------------------------------------------------------------------
(* Steps of both.                                                            *)

\* The parents one by one.
PutParent(p) ==
    /\ At(p, "put")
    /\ \/ /\ \E next \in job[p].rest :
               /\ \A other \in job[p].rest : next <= other
               /\ redis' = redis \union {next}
               /\ job' = [job EXCEPT ![p].rest = @ \ {next}]
          /\ IF p = "script" THEN UNCHANGED disturbed ELSE Disturb
       \/ /\ job[p].rest = {}
          /\ Goto(p, IF p = "script" THEN "stale" ELSE "manifest")
          /\ UNCHANGED <<redis, disturbed>>
    /\ UNCHANGED <<begun, chroma, lock, disk, app, late, seen, deleted>>

\* An exception, a deadline or the end of the process, before the effect of
\* the step in progress: a batch may be late, and of the three files, which no
\* other process reads, the first may be written and the next one cut short.
Break(p) ==
    LET m == MachineOf(p) IN
    /\ ~At(p, "off")
    /\ job' = [job EXCEPT ![p] = IdleJob(job[p].image)]
    /\ Unlocked(p)
    /\ \/ UNCHANGED disk
       \/ /\ At(p, "manifest")
          /\ \E n \in 1..3, cut \in BOOLEAN :
               disk' = [disk EXCEPT ![m] = [f \in Files |->
                   CASE Order[f] < n -> job[p].image
                     [] Order[f] = n /\ cut -> "torn"
                     [] OTHER -> disk[m][f]]]
    /\ \/ UNCHANGED late
       \/ /\ p \in Containers /\ At(p, "batch") /\ job[p].missing # {}
          /\ late' = late \union {FirstOf(job[p].missing)}
    /\ UNCHANGED <<begun, chroma, redis, app, history>>

-----------------------------------------------------------------------------
(* The application of a container (rag/runtime.py, core/lifespan.py).       *)

\* The manifest has to load and to match the collection's count and the
\* embedding model; production does not serve without an index.
LoadIndex(c) ==
    /\ app[c] = "load"
    /\ \E indexed \in BOOLEAN :
         /\ indexed => /\ Loads(disk[c])
                       /\ Cardinality(chroma) = Cardinality(Corpus[disk[c]["meta"]])
         /\ app' = [app EXCEPT ![c] = IF indexed THEN "serving" ELSE "off"]
    /\ UNCHANGED <<begun, chroma, redis, lock, disk, job, late, history>>

\* It stops, or its process does.
StopApp(c) ==
    /\ app[c] # "off"
    /\ app' = [app EXCEPT ![c] = "off"]
    /\ UNCHANGED <<begun, chroma, redis, lock, disk, job, late, history>>

-----------------------------------------------------------------------------
Bootstrap(c) ==
    \/ StartContainer(c) \/ ReadExisting(c) \/ UpsertBatch(c)
    \/ CheckCount(c) \/ WriteManifest(c)

Script ==
    \/ StartScript \/ ScriptRead \/ ScriptUpsert \/ ScriptDelete
    \/ DropStaleParents \/ ScriptManifest \/ Verify

Next ==
    \/ \E c \in Containers : Bootstrap(c)
    \/ Script
    \/ \E p \in Jobs : PutParent(p) \/ Break(p)
    \/ LateBatch
    \/ \E c \in Containers : LoadIndex(c) \/ StopApp(c)

Spec == Init /\ [][Next]_deployVars

-----------------------------------------------------------------------------
(* Properties.                                                              *)

\* A container serves the whole index of its own image.  Whatever deployments
\* and crashes went before or overlap, a child or a parent it should find is
\* missing only if the script, which takes no lock, has deleted it.
ServingIsIndexed ==
    \A c \in Containers :
        app[c] = "serving" =>
            /\ \A f \in Files : disk[c][f] = job[c].image
            /\ Corpus[job[c].image] \ chroma \subseteq deleted.children
            /\ ParentsOf(job[c].image) \ redis \subseteq deleted.parents

\* No stop, deadline or overlap of deployments of one image makes a later one
\* ask for a migration: that needs a child of another corpus or a deletion.
\* The script, run alone, repairs whatever earlier runs left behind.
FailuresHaveCauses ==
    /\ \A c \in Containers :
         job[c].fault = "differs" =>
             ~(seen \subseteq Corpus[job[c].image]) \/ deleted.children # {}
    /\ job["script"].fault = "unverified" => disturbed

=============================================================================
