---------------------------- MODULE KnowledgeProofs ----------------------------
(***************************************************************************)
(* What Deployment promises, for any number of containers, images and      *)
(* children, and what Retrieval promises on top of it; and, sharing no     *)
(* state with them, what Preferences promises.                             *)
(*                                                                         *)
(* None of the properties is inductive.  ServingIsIndexed needs what a     *)
(* bootstrap has secured at each of its points while others write          *)
(* (Secured), FailuresHaveCauses what an undisturbed script has (Alone).   *)
(* An answer is built over several steps while others write to the stores, *)
(* so OmissionsHaveCauses needs what a call's evidence covers up to now    *)
(* (Truthful), and rests on the first part for what the stores lack.       *)
(* RememberedIsListed needs which of a run's preferences are stored, and   *)
(* which were deleted since, at each step of its memory node (MemoryInv).  *)
(***************************************************************************)
EXTENDS Retrieval, Preferences, TLAPS, FiniteSetTheorems

\* A bootstrap lacks at most what it still has to write and what the script
\* has deleted; the files of a container that loads or serves are its image's.
Secured(c) ==
    LET image == job[c].image
        lacking == Corpus[image] \ chroma
        orphans == ParentsOf(image) \ redis
    IN  /\ At(c, "batch") => lacking \subseteq job[c].missing \union deleted.children
        /\ At(c, "put") => lacking \subseteq deleted.children
        /\ At(c, "put") => orphans \subseteq job[c].rest \union deleted.parents
        /\ (At(c, "manifest") \/ app[c] # "off") =>
              lacking \subseteq deleted.children /\ orphans \subseteq deleted.parents
        /\ app[c] # "off" => At(c, "off") /\ \A f \in Files : disk[c][f] = image
        /\ job[c].fault = "differs" =>
              ~(seen \subseteq Corpus[image]) \/ deleted.children # {}

\* What a script that nobody has disturbed knows at its points.
Alone ==
    LET s == job["script"]
        image == s.image
    IN  /\ s.fault = "unverified" => disturbed
        /\ ~disturbed =>
             /\ s.pc \in {"upsert", "delete"} =>
                   chroma \ Corpus[image] \subseteq s.stale /\ s.stale \intersect Corpus[image] = {}
             /\ s.pc = "delete" => Corpus[image] \subseteq chroma
             /\ s.pc \in {"put", "stale", "manifest", "verify"} => chroma = Corpus[image]
             /\ s.pc = "put" => ParentsOf(image) \ redis \subseteq s.rest
             /\ s.pc \in {"stale", "manifest", "verify"} => ParentsOf(image) \subseteq redis
             /\ s.pc \in {"upsert", "delete", "put", "stale"} =>
                   s.drop \intersect ParentsOf(image) = {}
             /\ s.pc = "verify" => \A f \in Files : disk["workstation"][f] = image

DeployInv ==
    /\ TypeOK
    /\ chroma \subseteq seen
    /\ \A c \in Containers : Secured(c)
    /\ Alone

-----------------------------------------------------------------------------
(* Facts about the constants and the types.                                 *)

LEMMA Names ==
    /\ "script" \notin Containers /\ "workstation" \notin Containers
    /\ NoOne \notin Containers
    /\ "script" \in Jobs /\ "workstation" \in Machines
    /\ \A c \in Containers : c \in Jobs /\ c \in Machines /\ c # "script"
                             /\ c # "workstation" /\ MachineOf(c) = c
    /\ MachineOf("script") = "workstation"
    /\ \A p \in Jobs : p \in Containers \/ p = "script"
    /\ \A p \in Jobs : MachineOf(p) \in Machines
BY DeploymentAssumption DEF Jobs, Machines, MachineOf

LEMMA CorporaTyped ==
    /\ \A i \in Images : Corpus[i] \subseteq Children
    /\ \A i \in Images : ParentsOf(i) \subseteq Parents
BY DeploymentAssumption DEF ParentsOf, Parents

LEMMA Batches ==
    ASSUME NEW missing \in SUBSET Children
    PROVE  FirstOf(missing) \in SUBSET missing
BY DEF FirstOf

LEMMA IdleIsAJob ==
    ASSUME NEW image \in Images
    PROVE  /\ IdleJob(image) \in Job
           /\ IdleJob(image).pc = "off" /\ IdleJob(image).image = image
           /\ IdleJob(image).fault = "none"
BY DEF IdleJob, Job, JobPoints

\* A step that leaves a container's own state alone keeps what it has secured,
\* if everything it takes out of the stores is recorded as deleted.
LEMMA SecuredKept ==
    ASSUME NEW c \in Containers, Secured(c),
           job'[c] = job[c], app'[c] = app[c], disk'[c] = disk[c],
           chroma \ chroma' \subseteq deleted'.children,
           redis \ redis' \subseteq deleted'.parents,
           deleted.children \subseteq deleted'.children,
           deleted.parents \subseteq deleted'.parents,
           seen \subseteq seen'
    PROVE  Secured(c)'
BY DEF Secured, At, ParentsOf

\* A step of another process either disturbs a running script or writes
\* nothing the script reads.
LEMMA AloneKept ==
    ASSUME Alone, disturbed \in BOOLEAN,
           job'["script"] = job["script"], disk'["workstation"] = disk["workstation"],
           \/ disturbed' = disturbed /\ chroma' = chroma /\ redis' = redis
           \/ disturbed' = (disturbed \/ job["script"].pc # "off")
    PROVE  Alone'
BY DEF Alone, ParentsOf

\* What a step of one container owes to the others and to the script.
LEMMA ContainerStep ==
    ASSUME DeployInv, TypeOK', NEW c \in Containers, Secured(c)',
           \A q \in Jobs : q # c => job'[q] = job[q],
           \A d \in Containers : d # c => app'[d] = app[d],
           \A m \in Machines : m # c => disk'[m] = disk[m],
           chroma' \subseteq seen', seen \subseteq seen', deleted' = deleted,
           chroma \subseteq chroma', redis \subseteq redis',
           \/ disturbed' = disturbed /\ chroma' = chroma /\ redis' = redis
           \/ disturbed' = (disturbed \/ job["script"].pc # "off")
    PROVE  DeployInv'
<1>1. ASSUME NEW d \in Containers PROVE Secured(d)'
  <2>1. CASE d = c
    BY <2>1
  <2>2. CASE d # c
    BY <2>2, SecuredKept, Names DEF DeployInv
  <2> QED BY <2>1, <2>2
<1>2. Alone'
  BY AloneKept, Names DEF DeployInv, TypeOK
<1> QED BY <1>1, <1>2 DEF DeployInv

\* And what a step of the script owes to the containers.
LEMMA ScriptStep ==
    ASSUME DeployInv, TypeOK', Alone',
           \A c \in Containers : job'[c] = job[c],
           app' = app,
           \A c \in Containers : disk'[c] = disk[c],
           chroma' \subseteq seen', seen \subseteq seen',
           chroma \ chroma' \subseteq deleted'.children,
           redis \ redis' \subseteq deleted'.parents,
           deleted.children \subseteq deleted'.children,
           deleted.parents \subseteq deleted'.parents
    PROVE  DeployInv'
<1>1. ASSUME NEW c \in Containers PROVE Secured(c)'
  BY SecuredKept DEF DeployInv
<1> QED BY <1>1 DEF DeployInv

-----------------------------------------------------------------------------
LEMMA InitDeploys == Init => DeployInv
<1> SUFFICES ASSUME Init PROVE DeployInv
  OBVIOUS
<1>1. PICK image \in [Containers -> Images] :
        job = [p \in Jobs |-> IF p = "script" THEN IdleJob(AnyImage) ELSE IdleJob(image[p])]
  BY DEF Init
<1>2. AnyImage \in Images
  BY DeploymentAssumption DEF AnyImage
<1>3. \A p \in Jobs : job[p] \in Job /\ job[p].pc = "off" /\ job[p].fault = "none"
  <2>1. ASSUME NEW p \in Jobs PROVE job[p] \in Job /\ job[p].pc = "off" /\ job[p].fault = "none"
    <3>1. CASE p = "script"
      BY <1>1, <1>2, <3>1, IdleIsAJob
    <3>2. CASE p # "script"
      <4>1. p \in Containers /\ image[p] \in Images
        BY <3>2, Names
      <4> QED BY <1>1, <3>2, <4>1, IdleIsAJob
    <3> QED BY <3>1, <3>2
  <2> QED BY <2>1
<1>4. TypeOK
  <2>1. job \in [Jobs -> Job]
    BY <1>1, <1>3
  <2>2. disk \in [Machines -> [Files -> Content]]
    BY DEF Init, Content
  <2>3. app \in [Containers -> {"off", "load", "serving"}] /\ begun \in 0..MaxBegun
    BY DeploymentAssumption DEF Init
  <2>4. deleted \in [children: SUBSET Children, parents: SUBSET Parents]
    BY DEF Init
  <2> QED BY <2>1, <2>2, <2>3, <2>4 DEF Init, TypeOK
<1>5. chroma \subseteq seen
  BY DEF Init
<1>6. \A c \in Containers : Secured(c)
  BY <1>3, Names DEF Init, Secured, At
<1>7. Alone
  BY <1>3, Names DEF Init, Alone
<1> QED BY <1>4, <1>5, <1>6, <1>7 DEF DeployInv

-----------------------------------------------------------------------------
(* The steps of a container.                                                *)

\* A job whose fields keep their types.
LEMMA JobFields ==
    ASSUME TypeOK, NEW p \in Jobs
    PROVE  /\ job[p] \in Job /\ job[p].image \in Images
           /\ job[p].missing \in SUBSET Children /\ job[p].stale \in SUBSET Children
           /\ job[p].rest \in SUBSET Parents /\ job[p].drop \in SUBSET Parents
           /\ Corpus[job[p].image] \in SUBSET Children
           /\ ParentsOf(job[p].image) \in SUBSET Parents
BY CorporaTyped DEF TypeOK, Job

LEMMA StartContainerKeeps ==
    ASSUME DeployInv, NEW c \in Containers, StartContainer(c)
    PROVE  DeployInv'
<1>1. TypeOK /\ c \in Jobs /\ job[c].image \in Images
  BY Names, JobFields DEF DeployInv
<1> DEFINE new == [IdleJob(job[c].image) EXCEPT !.pc = "lock"]
<1>2. new \in Job /\ new.pc = "lock" /\ new.fault = "none"
  BY <1>1, IdleIsAJob DEF Job, JobPoints, IdleJob
<1> HIDE DEF new
<1>3. job' = [job EXCEPT ![c] = new] /\ begun' \in 0..MaxBegun
  BY <1>1, DeploymentAssumption DEF StartContainer, new, Begin, TypeOK
<1>4. TypeOK'
  BY <1>1, <1>2, <1>3 DEF TypeOK, StartContainer, history
<1>5. job'[c] = new /\ \A q \in Jobs : q # c => job'[q] = job[q]
  BY <1>1, <1>3 DEF TypeOK
<1>6. Secured(c)'
  BY <1>2, <1>5 DEF Secured, At, StartContainer
<1> QED BY <1>4, <1>5, <1>6, ContainerStep DEF DeployInv, StartContainer, history

LEMMA ReadExistingKeeps ==
    ASSUME DeployInv, NEW c \in Containers, ReadExisting(c)
    PROVE  DeployInv'
<1> DEFINE expected == Corpus[job[c].image]
<1>1. TypeOK /\ c \in Jobs /\ job[c] \in Job /\ job[c].image \in Images /\ expected \in SUBSET Children
  BY Names, JobFields DEF DeployInv
<1>2. CASE ~(chroma \subseteq expected) /\ Refuse(c)
  <2> DEFINE new == [IdleJob(job[c].image) EXCEPT !.fault = "differs"]
  <2>1. new \in Job /\ new.pc = "off" /\ new.image = job[c].image
    BY <1>1 DEF Job, JobPoints, IdleJob
  <2>2. ~(seen \subseteq expected)
    BY <1>2 DEF DeployInv
  <2> HIDE DEF new
  <2>3. job' = [job EXCEPT ![c] = new] /\ lock' \in Containers \union {NoOne}
    BY <1>1, <1>2 DEF Refuse, Unlocked, new, TypeOK
  <2>4. TypeOK'
    BY <1>1, <2>1, <2>3 DEF TypeOK, ReadExisting, history
  <2>5. job'[c] = new /\ \A q \in Jobs : q # c => job'[q] = job[q]
    BY <1>1, <2>3 DEF TypeOK
  <2>6. app'[c] = "off"
    BY DEF DeployInv, Secured, At, ReadExisting
  <2>7. Secured(c)'
    BY <2>1, <2>2, <2>5, <2>6 DEF Secured, At, ReadExisting, history
  <2> QED BY <2>4, <2>5, <2>7, ContainerStep DEF DeployInv, ReadExisting, history
<1>3. CASE chroma \subseteq expected /\ lock' = c /\
           job' = [job EXCEPT ![c].pc = "batch", ![c].missing = expected \ chroma]
  <2> DEFINE new == [job[c] EXCEPT !.pc = "batch", !.missing = expected \ chroma]
  <2>1. /\ new \in Job /\ new.pc = "batch" /\ new.image = job[c].image
        /\ new.missing = expected \ chroma /\ new.fault = job[c].fault
    BY <1>1 DEF Job, JobPoints
  <2>2. job' = [job EXCEPT ![c] = new]
    BY <1>3 DEF TypeOK
  <2> HIDE DEF new
  <2>3. TypeOK'
    BY <1>1, <1>3, <2>1, <2>2 DEF TypeOK, ReadExisting, history
  <2>4. job'[c] = new /\ \A q \in Jobs : q # c => job'[q] = job[q]
    BY <1>1, <2>2 DEF TypeOK
  <2>5. app'[c] = "off"
    BY DEF DeployInv, Secured, At, ReadExisting
  <2>6. Secured(c)
    BY DEF DeployInv
  <2>7. Secured(c)'
    BY <2>1, <2>4, <2>5, <2>6 DEF Secured, At, ReadExisting, history
  <2> QED BY <2>3, <2>4, <2>7, ContainerStep DEF DeployInv, ReadExisting, history
<1> QED BY <1>2, <1>3 DEF ReadExisting

LEMMA UpsertBatchKeeps ==
    ASSUME DeployInv, NEW c \in Containers, UpsertBatch(c)
    PROVE  DeployInv'
<1> DEFINE batch == FirstOf(job[c].missing)
           new == [job[c] EXCEPT !.missing = @ \ batch]
<1>1. TypeOK /\ c \in Jobs /\ job[c] \in Job /\ job[c].missing \in SUBSET Children
  BY Names, JobFields DEF DeployInv
<1>2. batch \in SUBSET Children
  BY <1>1, Batches
<1>3. /\ chroma' = chroma \union batch /\ seen' = seen \union batch
      /\ job' = [job EXCEPT ![c].missing = @ \ batch]
  BY DEF UpsertBatch, Upsert
<1> HIDE DEF batch
<1>4. /\ new \in Job /\ new.pc = job[c].pc /\ new.image = job[c].image
      /\ new.missing = job[c].missing \ batch /\ new.fault = job[c].fault
      /\ new.rest = job[c].rest
  BY <1>1 DEF Job
<1>5. job' = [job EXCEPT ![c] = new]
  BY <1>3 DEF TypeOK
<1> HIDE DEF new
<1>6. job'[c] = new /\ \A q \in Jobs : q # c => job'[q] = job[q]
  BY <1>1, <1>5 DEF TypeOK
<1>7. TypeOK'
  BY <1>1, <1>2, <1>3, <1>4, <1>5 DEF TypeOK, UpsertBatch, Disturb
<1>8. Secured(c) /\ At(c, "batch")
  BY DEF DeployInv, UpsertBatch
<1>9. Secured(c)'
  BY <1>3, <1>4, <1>6, <1>8 DEF Secured, At, UpsertBatch
<1> QED BY <1>3, <1>6, <1>7, <1>9, ContainerStep DEF DeployInv, UpsertBatch, Disturb

LEMMA CheckCountKeeps ==
    ASSUME DeployInv, NEW c \in Containers, CheckCount(c)
    PROVE  DeployInv'
<1> DEFINE expected == Corpus[job[c].image]
<1>1. TypeOK /\ c \in Jobs /\ job[c] \in Job /\ job[c].image \in Images
      /\ expected \in SUBSET Children /\ ParentsOf(job[c].image) \in SUBSET Parents
  BY Names, JobFields DEF DeployInv
<1>2. Secured(c) /\ At(c, "batch") /\ app[c] = "off" /\ job[c].missing = {}
  BY DEF DeployInv, Secured, At, CheckCount
<1>3. expected \ chroma \subseteq deleted.children
  BY <1>2 DEF Secured
<1>4. CASE Cardinality(chroma) # Cardinality(expected) /\ Refuse(c)
  <2> DEFINE new == [IdleJob(job[c].image) EXCEPT !.fault = "differs"]
  <2>1. new \in Job /\ new.pc = "off" /\ new.image = job[c].image
    BY <1>1 DEF Job, JobPoints, IdleJob
  <2>2. ~(seen \subseteq expected) \/ deleted.children # {}
    <3> SUFFICES ASSUME seen \subseteq expected, deleted.children = {} PROVE FALSE
      OBVIOUS
    <3>1. chroma = expected
      BY <1>3 DEF DeployInv
    <3> QED BY <3>1, <1>4
  <2> HIDE DEF new
  <2>3. job' = [job EXCEPT ![c] = new] /\ lock' \in Containers \union {NoOne}
    BY <1>1, <1>4 DEF Refuse, Unlocked, new, TypeOK
  <2>4. TypeOK'
    BY <1>1, <2>1, <2>3 DEF TypeOK, CheckCount, history
  <2>5. job'[c] = new /\ \A q \in Jobs : q # c => job'[q] = job[q]
    BY <1>1, <2>3 DEF TypeOK
  <2>6. Secured(c)'
    BY <1>2, <2>1, <2>2, <2>5 DEF Secured, At, CheckCount, history
  <2> QED BY <2>4, <2>5, <2>6, ContainerStep DEF DeployInv, CheckCount, history
<1>5. CASE /\ job' = [job EXCEPT ![c].pc = "put", ![c].rest = ParentsOf(job[c].image)]
           /\ UNCHANGED lock
  <2> DEFINE new == [job[c] EXCEPT !.pc = "put", !.rest = ParentsOf(job[c].image)]
  <2>1. /\ new \in Job /\ new.pc = "put" /\ new.image = job[c].image
        /\ new.rest = ParentsOf(job[c].image) /\ new.fault = job[c].fault
    BY <1>1 DEF Job, JobPoints
  <2>2. job' = [job EXCEPT ![c] = new]
    BY <1>5 DEF TypeOK
  <2> HIDE DEF new
  <2>3. TypeOK'
    <3>1. UNCHANGED <<begun, chroma, redis, lock, disk, app, late, seen, deleted, disturbed>>
      BY <1>5 DEF CheckCount, history
    <3> QED BY <1>1, <2>1, <2>2, <3>1 DEF TypeOK
  <2>4. job'[c] = new /\ \A q \in Jobs : q # c => job'[q] = job[q]
    BY <1>1, <2>2 DEF TypeOK
  <2>5. Secured(c)'
    BY <1>2, <1>3, <2>1, <2>4 DEF Secured, At, CheckCount, history, ParentsOf
  <2> QED BY <2>3, <2>4, <2>5, ContainerStep DEF DeployInv, CheckCount, history
<1> QED BY <1>4, <1>5 DEF CheckCount

LEMMA WriteManifestKeeps ==
    ASSUME DeployInv, NEW c \in Containers, WriteManifest(c)
    PROVE  DeployInv'
<1> DEFINE new == IdleJob(job[c].image)
           files == Written(job[c].image)
<1>1. TypeOK /\ c \in Jobs /\ c \in Machines /\ job[c].image \in Images
  BY Names, JobFields DEF DeployInv
<1>2. /\ new \in Job /\ new.pc = "off" /\ new.image = job[c].image /\ new.fault = "none"
  BY <1>1, IdleIsAJob
<1>3. files \in [Files -> Content] /\ \A f \in Files : files[f] = job[c].image
  BY <1>1 DEF Written, Content
<1> HIDE DEF new, files
<1>4. /\ job' = [job EXCEPT ![c] = new] /\ disk' = [disk EXCEPT ![c] = files]
      /\ app' = [app EXCEPT ![c] = "load"] /\ lock' \in Containers \union {NoOne}
  BY <1>1 DEF WriteManifest, new, files, Unlocked, TypeOK
<1>5. TypeOK'
  BY <1>1, <1>2, <1>3, <1>4 DEF TypeOK, WriteManifest, history
<1>6. /\ job'[c] = new /\ disk'[c] = files
      /\ \A q \in Jobs : q # c => job'[q] = job[q]
      /\ \A m \in Machines : m # c => disk'[m] = disk[m]
      /\ \A d \in Containers : d # c => app'[d] = app[d]
  BY <1>1, <1>4 DEF TypeOK
<1>7. Secured(c) /\ At(c, "manifest")
  BY DEF DeployInv, WriteManifest
<1>8. Secured(c)'
  BY <1>2, <1>3, <1>6, <1>7 DEF Secured, At, WriteManifest, history, ParentsOf
<1> QED BY <1>5, <1>6, <1>8, ContainerStep DEF DeployInv, WriteManifest, history

\* An application step of a container: what it has secured needs no writing.
LEMMA AppKeeps ==
    ASSUME DeployInv, NEW c \in Containers, NEW to \in {"serving", "off"}, app[c] # "off",
           app' = [app EXCEPT ![c] = to],
           UNCHANGED <<begun, chroma, redis, lock, disk, job, late, history>>
    PROVE  DeployInv'
<1>1. TypeOK /\ Secured(c)
  BY DEF DeployInv
<1>2. TypeOK'
  BY <1>1 DEF TypeOK, history
<1>3. \A d \in Containers : d # c => app'[d] = app[d]
  BY <1>1 DEF TypeOK
<1>4. Secured(c)'
  BY <1>1 DEF Secured, At, history, ParentsOf
<1> QED BY <1>2, <1>3, <1>4, ContainerStep DEF DeployInv, history

LEMMA LoadIndexKeeps ==
    ASSUME DeployInv, NEW c \in Containers, LoadIndex(c)
    PROVE  DeployInv'
<1>1. PICK indexed \in BOOLEAN : app' = [app EXCEPT ![c] = IF indexed THEN "serving" ELSE "off"]
  BY DEF LoadIndex
<1>2. CASE indexed
  BY <1>1, <1>2, AppKeeps DEF LoadIndex
<1>3. CASE ~indexed
  BY <1>1, <1>3, AppKeeps DEF LoadIndex
<1> QED BY <1>2, <1>3

LEMMA StopAppKeeps ==
    ASSUME DeployInv, NEW c \in Containers, StopApp(c)
    PROVE  DeployInv'
BY AppKeeps DEF StopApp

LEMMA LateBatchKeeps ==
    ASSUME DeployInv, LateBatch
    PROVE  DeployInv'
<1>1. TypeOK /\ Alone
  BY DEF DeployInv
<1>2. PICK batch \in late :
        /\ late' = late \ {batch}
        /\ \/ Upsert(batch) /\ Disturb
           \/ UNCHANGED <<chroma, seen, disturbed>>
        /\ UNCHANGED <<begun, redis, lock, disk, job, app, deleted>>
  BY DEF LateBatch
<1>3. batch \in SUBSET Children
  BY <1>1 DEF TypeOK
<1>4. /\ chroma \subseteq chroma' /\ seen \subseteq seen' /\ chroma' \subseteq seen'
      /\ chroma' \in SUBSET Children /\ seen' \in SUBSET Children
      /\ \/ disturbed' = disturbed /\ chroma' = chroma /\ redis' = redis
         \/ disturbed' = (disturbed \/ job["script"].pc # "off")
  BY <1>1, <1>2, <1>3 DEF Upsert, Disturb, DeployInv, TypeOK
<1>5. TypeOK'
  <2>1. disturbed' \in BOOLEAN
    BY <1>1, <1>4 DEF TypeOK
  <2> QED BY <1>1, <1>2, <1>4, <2>1 DEF TypeOK
<1>6. \A c \in Containers : Secured(c)'
  BY <1>2, <1>4, SecuredKept DEF DeployInv
<1>7. Alone'
  BY <1>1, <1>2, <1>4, AloneKept DEF TypeOK
<1> QED BY <1>4, <1>5, <1>6, <1>7 DEF DeployInv

-----------------------------------------------------------------------------
(* The steps of the script.                                                 *)

LEMMA StartScriptKeeps ==
    ASSUME DeployInv, StartScript
    PROVE  DeployInv'
<1>1. TypeOK /\ "script" \in Jobs
  BY Names DEF DeployInv
<1>2. PICK image \in Images :
        job' = [job EXCEPT !["script"] = [IdleJob(image) EXCEPT !.pc = "read"]]
  BY DEF StartScript
<1> DEFINE new == [IdleJob(image) EXCEPT !.pc = "read"]
<1>3. new \in Job /\ new.pc = "read" /\ new.fault = "none"
  BY IdleIsAJob DEF Job, JobPoints, IdleJob
<1> HIDE DEF new
<1>4. job' = [job EXCEPT !["script"] = new]
  BY <1>2 DEF new
<1>5. TypeOK'
  <2>1. begun' \in 0..MaxBegun
    BY <1>1, DeploymentAssumption DEF StartScript, Begin, TypeOK
  <2> QED BY <1>1, <1>3, <1>4, <2>1 DEF TypeOK, StartScript
<1>6. job'["script"] = new /\ \A c \in Containers : job'[c] = job[c]
  BY <1>1, <1>4, Names DEF TypeOK
<1>7. Alone'
  BY <1>3, <1>6 DEF Alone
<1> QED BY <1>5, <1>6, <1>7, ScriptStep DEF DeployInv, StartScript

LEMMA ScriptReadKeeps ==
    ASSUME DeployInv, ScriptRead
    PROVE  DeployInv'
<1> DEFINE image == job["script"].image
           files == disk["workstation"]
           drop == IF Loads(files) THEN ParentsOf(files["parents"]) \ ParentsOf(image) ELSE {}
           new == [job["script"] EXCEPT !.pc = "upsert", !.stale = chroma \ Corpus[image],
                                        !.drop = drop]
<1>1. /\ TypeOK /\ "script" \in Jobs /\ job["script"] \in Job /\ image \in Images
      /\ Corpus[image] \in SUBSET Children
  BY Names, JobFields DEF DeployInv
<1>2. drop \in SUBSET Parents /\ drop \intersect ParentsOf(image) = {}
  <2>1. CASE Loads(files)
    <3>1. files["parents"] \in Images
      BY <2>1 DEF Loads, Files
    <3> QED BY <2>1, <3>1, CorporaTyped
  <2>2. CASE ~Loads(files)
    BY <2>2
  <2> QED BY <2>1, <2>2
<1>3. /\ job' = [job EXCEPT !["script"].pc = "upsert",
                            !["script"].stale = chroma \ Corpus[image], !["script"].drop = drop]
      /\ UNCHANGED <<begun, chroma, redis, lock, disk, app, late, history>>
  BY DEF ScriptRead
<1> HIDE DEF drop
<1>4. job' = [job EXCEPT !["script"] = new]
  BY <1>3 DEF TypeOK
<1>5. /\ new \in Job /\ new.pc = "upsert" /\ new.image = image /\ new.fault = job["script"].fault
      /\ new.stale = chroma \ Corpus[image] /\ new.drop = drop
  BY <1>1, <1>2 DEF Job, JobPoints, TypeOK
<1> HIDE DEF new
<1>6. TypeOK'
  <2>1. job' \in [Jobs -> Job]
    BY <1>1, <1>4, <1>5 DEF TypeOK
  <2>2. UNCHANGED <<begun, chroma, redis, lock, disk, app, late, seen, deleted, disturbed>>
    BY <1>3 DEF history
  <2> HIDE <1>3, <1>4
  <2> QED BY <1>1, <2>1, <2>2 DEF TypeOK
<1>7. job'["script"] = new /\ \A c \in Containers : job'[c] = job[c]
  BY <1>1, <1>4, Names DEF TypeOK
<1>8. Alone'
  BY <1>2, <1>3, <1>5, <1>7 DEF Alone, DeployInv, ParentsOf, history
<1> QED BY <1>3, <1>6, <1>7, <1>8, ScriptStep DEF DeployInv, history

LEMMA ScriptUpsertKeeps ==
    ASSUME DeployInv, ScriptUpsert
    PROVE  DeployInv'
<1> DEFINE image == job["script"].image
           new == [job["script"] EXCEPT !.pc = "delete"]
<1>1. /\ TypeOK /\ "script" \in Jobs /\ job["script"] \in Job /\ image \in Images
      /\ Corpus[image] \in SUBSET Children /\ Alone
  BY Names, JobFields DEF DeployInv
<1>2. /\ job["script"].pc = "upsert"
      /\ chroma' = chroma \union Corpus[image] /\ seen' = seen \union Corpus[image]
      /\ UNCHANGED <<begun, redis, lock, disk, app, late, deleted, disturbed>>
  BY DEF ScriptUpsert, Upsert, At
<1>3. job' = [job EXCEPT !["script"] = new]
  BY DEF ScriptUpsert, Goto, TypeOK
<1>4. /\ new \in Job /\ new.pc = "delete" /\ new.image = image /\ new.fault = job["script"].fault
      /\ new.stale = job["script"].stale /\ new.drop = job["script"].drop
  BY <1>1 DEF Job, JobPoints
<1> HIDE DEF new
<1>5. TypeOK'
  BY <1>1, <1>2, <1>3, <1>4 DEF TypeOK
<1>6. job'["script"] = new /\ \A c \in Containers : job'[c] = job[c]
  BY <1>1, <1>3, Names DEF TypeOK
<1>7. Alone'
  BY <1>1, <1>2, <1>4, <1>6 DEF Alone, ParentsOf
<1> QED BY <1>2, <1>5, <1>6, <1>7, ScriptStep DEF DeployInv

LEMMA ScriptDeleteKeeps ==
    ASSUME DeployInv, ScriptDelete
    PROVE  DeployInv'
<1> DEFINE image == job["script"].image
           stale == job["script"].stale
           new == [job["script"] EXCEPT !.pc = "put", !.rest = ParentsOf(image)]
<1>1. /\ TypeOK /\ "script" \in Jobs /\ job["script"] \in Job /\ image \in Images
      /\ stale \in SUBSET Children /\ ParentsOf(image) \in SUBSET Parents /\ Alone
  BY Names, JobFields DEF DeployInv
<1>2. /\ job["script"].pc = "delete"
      /\ chroma' = chroma \ stale
      /\ deleted' = [deleted EXCEPT !.children = @ \union stale]
      /\ job' = [job EXCEPT !["script"].pc = "put", !["script"].rest = ParentsOf(image)]
      /\ UNCHANGED <<begun, redis, lock, disk, app, late, seen, disturbed>>
  BY DEF ScriptDelete, At
<1>3. job' = [job EXCEPT !["script"] = new]
  BY <1>2 DEF TypeOK
<1>4. /\ new \in Job /\ new.pc = "put" /\ new.image = image /\ new.fault = job["script"].fault
      /\ new.rest = ParentsOf(image) /\ new.drop = job["script"].drop
  BY <1>1 DEF Job, JobPoints
<1> HIDE DEF new
<1>5. /\ deleted' \in [children: SUBSET Children, parents: SUBSET Parents]
      /\ deleted'.children = deleted.children \union stale /\ deleted'.parents = deleted.parents
  BY <1>1, <1>2 DEF TypeOK
<1>6. TypeOK'
  <2>1. chroma' \in SUBSET Children /\ job' \in [Jobs -> Job]
    BY <1>1, <1>2, <1>3, <1>4 DEF TypeOK
  <2> QED BY <1>1, <1>2, <1>5, <2>1 DEF TypeOK
<1>7. job'["script"] = new /\ \A c \in Containers : job'[c] = job[c]
  BY <1>1, <1>3, Names DEF TypeOK
<1>8. Alone'
  BY <1>1, <1>2, <1>4, <1>7 DEF Alone, ParentsOf
<1> QED BY <1>2, <1>5, <1>6, <1>7, <1>8, ScriptStep DEF DeployInv

LEMMA DropStaleParentsKeeps ==
    ASSUME DeployInv, DropStaleParents
    PROVE  DeployInv'
<1> DEFINE image == job["script"].image
           drop == job["script"].drop
           new == [job["script"] EXCEPT !.pc = "manifest"]
<1>1. /\ TypeOK /\ "script" \in Jobs /\ job["script"] \in Job /\ image \in Images
      /\ drop \in SUBSET Parents /\ Alone
  BY Names, JobFields DEF DeployInv
<1>2. /\ job["script"].pc = "stale"
      /\ redis' = redis \ drop
      /\ deleted' = [deleted EXCEPT !.parents = @ \union drop]
      /\ UNCHANGED <<begun, chroma, lock, disk, app, late, seen, disturbed>>
  BY DEF DropStaleParents, At
<1>3. job' = [job EXCEPT !["script"] = new]
  BY DEF DropStaleParents, Goto, TypeOK
<1>4. /\ new \in Job /\ new.pc = "manifest" /\ new.image = image
      /\ new.fault = job["script"].fault /\ new.drop = job["script"].drop
  BY <1>1 DEF Job, JobPoints
<1> HIDE DEF new
<1>5. /\ deleted' \in [children: SUBSET Children, parents: SUBSET Parents]
      /\ deleted'.children = deleted.children /\ deleted'.parents = deleted.parents \union drop
  BY <1>1, <1>2 DEF TypeOK
<1>6. TypeOK'
  <2>1. redis' \in SUBSET Parents /\ job' \in [Jobs -> Job]
    BY <1>1, <1>2, <1>3, <1>4 DEF TypeOK
  <2> QED BY <1>1, <1>2, <1>5, <2>1 DEF TypeOK
<1>7. job'["script"] = new /\ \A c \in Containers : job'[c] = job[c]
  BY <1>1, <1>3, Names DEF TypeOK
<1>8. Alone'
  BY <1>1, <1>2, <1>4, <1>7 DEF Alone, ParentsOf
<1> QED BY <1>2, <1>5, <1>6, <1>7, <1>8, ScriptStep DEF DeployInv

LEMMA ScriptManifestKeeps ==
    ASSUME DeployInv, ScriptManifest
    PROVE  DeployInv'
<1> DEFINE image == job["script"].image
           files == Written(image)
           new == [job["script"] EXCEPT !.pc = "verify"]
<1>1. /\ TypeOK /\ "script" \in Jobs /\ "workstation" \in Machines
      /\ job["script"] \in Job /\ image \in Images /\ Alone
  BY Names, JobFields DEF DeployInv
<1>2. files \in [Files -> Content] /\ \A f \in Files : files[f] = image
  BY <1>1 DEF Written, Content
<1> HIDE DEF files
<1>3. /\ job["script"].pc = "manifest"
      /\ disk' = [disk EXCEPT !["workstation"] = files]
      /\ UNCHANGED <<begun, chroma, redis, lock, app, late, history>>
  BY DEF ScriptManifest, At, files
<1>4. job' = [job EXCEPT !["script"] = new]
  BY DEF ScriptManifest, Goto, TypeOK
<1>5. /\ new \in Job /\ new.pc = "verify" /\ new.image = image
      /\ new.fault = job["script"].fault /\ new.drop = job["script"].drop
  BY <1>1 DEF Job, JobPoints
<1> HIDE DEF new
<1>6. TypeOK'
  BY <1>1, <1>2, <1>3, <1>4, <1>5 DEF TypeOK, history
<1>7. /\ job'["script"] = new /\ \A c \in Containers : job'[c] = job[c] /\ disk'[c] = disk[c]
      /\ disk'["workstation"] = files
  BY <1>1, <1>3, <1>4, Names DEF TypeOK
<1>8. Alone'
  BY <1>1, <1>2, <1>3, <1>5, <1>7 DEF Alone, ParentsOf, history
<1> QED BY <1>3, <1>6, <1>7, <1>8, ScriptStep DEF DeployInv, history

LEMMA VerifyKeeps ==
    ASSUME DeployInv, Verify
    PROVE  DeployInv'
<1> DEFINE image == job["script"].image
           files == disk["workstation"]
           verified == /\ chroma = Corpus[image]
                       /\ ParentsOf(image) \subseteq redis
                       /\ Loads(files) /\ files["meta"] = image
           fault == IF verified THEN "none" ELSE "unverified"
           new == [IdleJob(image) EXCEPT !.fault = fault]
<1>1. /\ TypeOK /\ "script" \in Jobs /\ image \in Images /\ Alone
  BY Names, JobFields DEF DeployInv
<1>2. ~disturbed => verified
  <2> SUFFICES ASSUME ~disturbed PROVE verified
    OBVIOUS
  <2>1. /\ chroma = Corpus[image] /\ ParentsOf(image) \subseteq redis
        /\ \A f \in Files : files[f] = image
    BY <1>1 DEF Alone, Verify, At
  <2>2. files["meta"] = image /\ files["children"] = image /\ files["parents"] = image
    BY <2>1 DEF Files
  <2> QED BY <1>1, <2>1, <2>2 DEF Loads
<1>3. fault \in {"none", "unverified"} /\ (fault = "unverified" => disturbed)
  BY <1>2
<1>4. /\ job' = [job EXCEPT !["script"] = [IdleJob(image) EXCEPT !.fault = fault]]
      /\ UNCHANGED <<begun, chroma, redis, lock, disk, app, late, history>>
  BY DEF Verify
<1> HIDE DEF fault
<1>5. new \in Job /\ new.pc = "off" /\ new.fault = fault
  BY <1>1, <1>3 DEF Job, JobPoints, IdleJob
<1>6. job' = [job EXCEPT !["script"] = new]
  BY <1>4
<1> HIDE DEF new
<1>7. TypeOK'
  BY <1>1, <1>4, <1>5, <1>6 DEF TypeOK, history
<1>8. job'["script"] = new /\ \A c \in Containers : job'[c] = job[c]
  BY <1>1, <1>6, Names DEF TypeOK
<1>9. Alone'
  BY <1>3, <1>4, <1>5, <1>8 DEF Alone, history
<1> QED BY <1>4, <1>7, <1>8, <1>9, ScriptStep DEF DeployInv, history

-----------------------------------------------------------------------------
(* The steps of both.                                                       *)

LEMMA PutNextKeeps ==
    ASSUME DeployInv, NEW p \in Jobs, At(p, "put"), NEW next \in job[p].rest,
           redis' = redis \union {next},
           job' = [job EXCEPT ![p].rest = @ \ {next}],
           IF p = "script" THEN UNCHANGED disturbed ELSE Disturb,
           UNCHANGED <<begun, chroma, lock, disk, app, late, seen, deleted>>
    PROVE  DeployInv'
<1> DEFINE new == [job[p] EXCEPT !.rest = @ \ {next}]
<1>1. /\ TypeOK /\ job[p] \in Job /\ job[p].rest \in SUBSET Parents
      /\ next \in Parents /\ Alone
  BY JobFields DEF DeployInv
<1>2. /\ new \in Job /\ new.pc = "put" /\ new.image = job[p].image /\ new.missing = job[p].missing
      /\ new.rest = job[p].rest \ {next} /\ new.fault = job[p].fault /\ new.drop = job[p].drop
  BY <1>1 DEF Job, At
<1>3. job' = [job EXCEPT ![p] = new]
  BY DEF TypeOK
<1> HIDE DEF new
<1>4. job'[p] = new /\ \A q \in Jobs : q # p => job'[q] = job[q]
  BY <1>1, <1>3 DEF TypeOK
<1>5. TypeOK'
  <2>1. job' \in [Jobs -> Job] /\ redis' \in SUBSET Parents
    BY <1>1, <1>2, <1>3 DEF TypeOK
  <2>2. disturbed' \in BOOLEAN
    BY <1>1 DEF TypeOK, Disturb
  <2> QED BY <1>1, <2>1, <2>2 DEF TypeOK
<1>6. CASE p = "script"
  <2>1. Alone'
    BY <1>1, <1>2, <1>4, <1>6 DEF Alone, At, ParentsOf
  <2>2. \A c \in Containers : job'[c] = job[c]
    BY <1>4, <1>6, Names
  <2> QED BY <1>5, <2>1, <2>2, ScriptStep DEF DeployInv
<1>7. CASE p # "script"
  <2>1. p \in Containers /\ Disturb
    BY <1>7, Names
  <2>2. Secured(p)
    BY <2>1 DEF DeployInv
  <2>3. Secured(p)'
    BY <1>2, <1>4, <2>2 DEF Secured, At, ParentsOf
  <2> QED BY <1>4, <1>5, <2>1, <2>3, ContainerStep DEF DeployInv, Disturb
<1> QED BY <1>6, <1>7

LEMMA PutDoneKeeps ==
    ASSUME DeployInv, NEW p \in Jobs, At(p, "put"), job[p].rest = {},
           Goto(p, IF p = "script" THEN "stale" ELSE "manifest"),
           UNCHANGED <<begun, chroma, redis, lock, disk, app, late, seen, deleted, disturbed>>
    PROVE  DeployInv'
<1> DEFINE pc == IF p = "script" THEN "stale" ELSE "manifest"
           new == [job[p] EXCEPT !.pc = pc]
<1>1. TypeOK /\ job[p] \in Job /\ Alone
  BY JobFields DEF DeployInv
<1>2. /\ new \in Job /\ new.pc = pc /\ new.image = job[p].image
      /\ new.fault = job[p].fault /\ new.drop = job[p].drop
  BY <1>1 DEF Job, JobPoints
<1>3. job' = [job EXCEPT ![p] = new]
  BY DEF Goto, TypeOK
<1> HIDE DEF new
<1>4. job'[p] = new /\ \A q \in Jobs : q # p => job'[q] = job[q]
  BY <1>1, <1>3 DEF TypeOK
<1>5. TypeOK'
  <2>1. job' \in [Jobs -> Job]
    BY <1>1, <1>2, <1>3 DEF TypeOK
  <2> QED BY <1>1, <2>1 DEF TypeOK
<1>6. CASE p = "script"
  <2>1. Alone'
    BY <1>1, <1>2, <1>4, <1>6 DEF Alone, At, ParentsOf
  <2>2. \A c \in Containers : job'[c] = job[c]
    BY <1>4, <1>6, Names
  <2> QED BY <1>5, <2>1, <2>2, ScriptStep DEF DeployInv
<1>7. CASE p # "script"
  <2>1. p \in Containers /\ pc = "manifest"
    BY <1>7, Names
  <2>2. Secured(p) /\ app[p] = "off"
    BY <2>1 DEF DeployInv, Secured, At
  <2>3. Secured(p)'
    BY <1>2, <1>4, <2>1, <2>2 DEF Secured, At, ParentsOf
  <2> QED BY <1>4, <1>5, <2>1, <2>3, ContainerStep DEF DeployInv
<1> QED BY <1>6, <1>7

LEMMA BreakKeeps ==
    ASSUME DeployInv, NEW p \in Jobs, Break(p)
    PROVE  DeployInv'
<1> DEFINE new == IdleJob(job[p].image)
           m == MachineOf(p)
<1>1. /\ TypeOK /\ job[p].image \in Images /\ m \in Machines /\ Alone
      /\ job[p].missing \in SUBSET Children
  BY JobFields, Names DEF DeployInv
<1>2. new \in Job /\ new.pc = "off" /\ new.image = job[p].image /\ new.fault = "none"
  BY <1>1, IdleIsAJob
<1>3. /\ job' = [job EXCEPT ![p] = new] /\ lock' \in Containers \union {NoOne}
      /\ UNCHANGED <<begun, chroma, redis, app, seen, deleted, disturbed>>
  BY <1>1 DEF Break, Unlocked, history, TypeOK
<1> HIDE DEF new
<1>4. /\ disk' \in [Machines -> [Files -> Content]]
      /\ \A n \in Machines : n # m => disk'[n] = disk[n]
  <2>1. CASE UNCHANGED disk
    BY <1>1, <2>1 DEF TypeOK
  <2>2. ASSUME NEW n \in 1..3, NEW cut \in BOOLEAN,
               disk' = [disk EXCEPT ![m] = [f \in Files |->
                   CASE Order[f] < n -> job[p].image
                     [] Order[f] = n /\ cut -> "torn"
                     [] OTHER -> disk[m][f]]]
        PROVE  /\ disk' \in [Machines -> [Files -> Content]]
               /\ \A q \in Machines : q # m => disk'[q] = disk[q]
    <3> DEFINE files == [f \in Files |->
                   CASE Order[f] < n -> job[p].image
                     [] Order[f] = n /\ cut -> "torn"
                     [] OTHER -> disk[m][f]]
    <3>1. ASSUME NEW f \in Files PROVE files[f] \in Content
      <4>1. disk[m][f] \in Content /\ "torn" \in Content /\ job[p].image \in Content
        BY <1>1 DEF TypeOK, Content
      <4>2. files[f] \in {job[p].image, "torn", disk[m][f]}
        BY Zenon
      <4> QED BY <4>1, <4>2
    <3>2. files \in [Files -> Content]
      BY <3>1
    <3> HIDE DEF files
    <3>3. disk' = [disk EXCEPT ![m] = files]
      BY <2>2 DEF files
    <3> QED BY <1>1, <3>2, <3>3 DEF TypeOK
  <2> QED BY <2>1, <2>2 DEF Break
<1>5. late' \in SUBSET SUBSET Children
  BY <1>1, Batches DEF Break, TypeOK
<1>6. TypeOK'
  BY <1>1, <1>2, <1>3, <1>4, <1>5 DEF TypeOK
<1>7. job'[p] = new /\ \A q \in Jobs : q # p => job'[q] = job[q]
  BY <1>1, <1>3 DEF TypeOK
<1>8. CASE p = "script"
  <2>1. Alone'
    BY <1>2, <1>7, <1>8 DEF Alone
  <2>2. \A c \in Containers : job'[c] = job[c] /\ disk'[c] = disk[c]
    BY <1>4, <1>7, <1>8, Names
  <2> QED BY <1>3, <1>6, <2>1, <2>2, ScriptStep DEF DeployInv
<1>9. CASE p # "script"
  <2>1. p \in Containers /\ m = p
    BY <1>9, Names
  <2>2. app'[p] = "off"
    BY <1>3, <2>1 DEF DeployInv, Secured, Break
  <2>3. Secured(p)'
    BY <1>2, <1>7, <2>2 DEF Secured, At
  <2> QED BY <1>3, <1>4, <1>6, <1>7, <2>1, <2>3, ContainerStep DEF DeployInv
<1> QED BY <1>8, <1>9

-----------------------------------------------------------------------------
LEMMA StepDeploys == DeployInv /\ [Next]_deployVars => DeployInv'
<1> SUFFICES ASSUME DeployInv, [Next]_deployVars PROVE DeployInv'
  OBVIOUS
<1>1. ASSUME NEW c \in Containers, Bootstrap(c) PROVE DeployInv'
  BY <1>1, StartContainerKeeps, ReadExistingKeeps, UpsertBatchKeeps, CheckCountKeeps,
     WriteManifestKeeps DEF Bootstrap
<1>2. CASE Script
  BY <1>2, StartScriptKeeps, ScriptReadKeeps, ScriptUpsertKeeps, ScriptDeleteKeeps,
     DropStaleParentsKeeps, ScriptManifestKeeps, VerifyKeeps DEF Script
<1>3. ASSUME NEW p \in Jobs, PutParent(p) PROVE DeployInv'
  BY <1>3, PutNextKeeps, PutDoneKeeps DEF PutParent
<1>4. ASSUME NEW p \in Jobs, Break(p) PROVE DeployInv'
  BY <1>4, BreakKeeps
<1>5. CASE LateBatch
  BY <1>5, LateBatchKeeps
<1>6. ASSUME NEW c \in Containers, LoadIndex(c) \/ StopApp(c) PROVE DeployInv'
  BY <1>6, LoadIndexKeeps, StopAppKeeps
<1>7. CASE UNCHANGED deployVars
  BY <1>7 DEF deployVars, history, DeployInv, TypeOK, Secured, Alone, At, ParentsOf
<1> QED BY <1>1, <1>2, <1>3, <1>4, <1>5, <1>6, <1>7 DEF Next

LEMMA AlwaysDeployed == Spec => []DeployInv
BY InitDeploys, StepDeploys, PTL DEF Spec

\* Every variable of the index and of the processes around it keeps its type.
THEOREM IndexTypeCorrect == Spec => []TypeOK
<1>1. DeployInv => TypeOK
  BY DEF DeployInv
<1> QED BY <1>1, AlwaysDeployed, PTL

\* Whatever deployments, crashes, late batches and script runs overlap, what a
\* serving container lacks of its image's index was deleted by the script.
THEOREM ServesItsWholeIndex == Spec => []ServingIsIndexed
<1>1. DeployInv => ServingIsIndexed
  BY DEF DeployInv, Secured, ServingIsIndexed
<1> QED BY <1>1, AlwaysDeployed, PTL

\* A bootstrap asks for a migration only if a child of another corpus was ever
\* written or one was deleted, and a script that nobody disturbs verifies.
THEOREM RefusalsHaveCauses == Spec => []FailuresHaveCauses
<1>1. DeployInv => FailuresHaveCauses
  BY DEF DeployInv, Secured, Alone, FailuresHaveCauses
<1> QED BY <1>1, AlwaysDeployed, PTL

-----------------------------------------------------------------------------
(* Retrieval.                                                               *)

\* Every section of the image is in the set, or the script deleted a child of it.
Covers(set, image) ==
    \A k \in Corpus[image] : ParentOf[k] \in set \/ k \in deleted.children

\* An answer that was cut to k parents.
Sound(answer, image, k) ==
    /\ Explained(answer, image, k)
    /\ Cardinality(answer.parents) <= k

AnswerType == [parents: SUBSET Parents, degraded: SUBSET {"dense", "sparse", "reranker"},
               missing: Nat, hit: BOOLEAN, error: BOOLEAN]

EntryType == [kind: {"none", "answer", "corrupt"}, answer: AnswerType, limit: Nat]

CallType == [pc: {"idle", "lookup", "dense", "parents", "save", "answered"},
             topK: Nat, limit: Nat, rest: 0..Variants, hits: SUBSET Children,
             evidence: SUBSET Parents, answer: AnswerType]

Truthful(c) ==
    LET k == call[c] IN
    /\ k.pc \notin {"idle", "answered"} => app[c] # "off"
    /\ k.pc = "parents" =>
         \/ k.answer.degraded # {}
         \/ k.answer.missing > 0
         \/ Covers(k.evidence \union k.answer.parents, job[c].image)
    /\ k.pc \in {"save", "answered"} => Sound(k.answer, job[c].image, k.limit)
    /\ k.limit # k.topK => k.pc = "answered" /\ k.answer.hit

SoundEntry(entry, image) ==
    entry.kind = "answer" => Sound(entry.answer, image, entry.limit)

CallsInv ==
    /\ call \in [Containers -> CallType]
    /\ cache \in [Images -> EntryType]
    /\ \A c \in Containers : Truthful(c)
    /\ \A i \in Images : SoundEntry(cache[i], i)

-----------------------------------------------------------------------------
(* A step of Deployment keeps each container's image and every deletion.    *)

LEMMA StepKeepsImages ==
    ASSUME DeployInv, Next
    PROVE  /\ \A c \in Containers : job'[c].image = job[c].image
           /\ deleted.children \subseteq deleted'.children
<1>1. TypeOK
  BY DEF DeployInv
<1>2. ASSUME NEW c \in Containers, Bootstrap(c)
      PROVE  /\ \A d \in Containers : job'[d].image = job[d].image
             /\ deleted.children \subseteq deleted'.children
  <2>1. c \in Jobs /\ \A d \in Containers : d \in Jobs /\ job[d] \in Job
    BY <1>1, Names, JobFields
  <2>2. CASE StartContainer(c)
    <3> DEFINE new == [IdleJob(job[c].image) EXCEPT !.pc = "lock"]
    <3>1. new.image = job[c].image
      BY DEF IdleJob
    <3> HIDE DEF new
    <3>2. job' = [job EXCEPT ![c] = new] /\ deleted' = deleted
      BY <2>2 DEF StartContainer, new, history
    <3> QED BY <1>1, <2>1, <3>1, <3>2 DEF TypeOK
  <2>3. ASSUME Refuse(c), deleted' = deleted
        PROVE  \A d \in Containers : job'[d].image = job[d].image
    <3> DEFINE new == [IdleJob(job[c].image) EXCEPT !.fault = "differs"]
    <3>1. new.image = job[c].image
      BY DEF IdleJob
    <3> HIDE DEF new
    <3>2. job' = [job EXCEPT ![c] = new]
      BY <2>3 DEF Refuse, new
    <3> QED BY <1>1, <2>1, <3>1, <3>2 DEF TypeOK
  <2>4. CASE ReadExisting(c)
    <3>1. deleted' = deleted
      BY <2>4 DEF ReadExisting, history
    <3>2. CASE Refuse(c)
      BY <2>3, <3>1, <3>2
    <3>3. CASE job' = [job EXCEPT ![c].pc = "batch",
                                  ![c].missing = Corpus[job[c].image] \ chroma]
      <4> DEFINE new == [job[c] EXCEPT !.pc = "batch",
                                       !.missing = Corpus[job[c].image] \ chroma]
      <4>1. new.image = job[c].image
        BY <2>1 DEF Job
      <4>2. job' = [job EXCEPT ![c] = new]
        BY <3>3 DEF TypeOK
      <4> HIDE DEF new
      <4> QED BY <1>1, <2>1, <3>1, <4>1, <4>2 DEF TypeOK
    <3> QED BY <2>4, <3>1, <3>2, <3>3 DEF ReadExisting
  <2>5. CASE UpsertBatch(c)
    <3> DEFINE new == [job[c] EXCEPT !.missing = @ \ FirstOf(job[c].missing)]
    <3>1. new.image = job[c].image
      BY <2>1 DEF Job
    <3>2. job' = [job EXCEPT ![c] = new] /\ deleted' = deleted
      BY <2>5 DEF UpsertBatch
    <3> HIDE DEF new
    <3> QED BY <1>1, <2>1, <3>1, <3>2 DEF TypeOK
  <2>6. CASE CheckCount(c)
    <3>1. deleted' = deleted
      BY <2>6 DEF CheckCount, history
    <3>2. CASE Refuse(c)
      BY <2>3, <3>1, <3>2
    <3>3. CASE job' = [job EXCEPT ![c].pc = "put", ![c].rest = ParentsOf(job[c].image)]
      <4> DEFINE new == [job[c] EXCEPT !.pc = "put", !.rest = ParentsOf(job[c].image)]
      <4>1. new.image = job[c].image
        BY <2>1 DEF Job
      <4>2. job' = [job EXCEPT ![c] = new]
        BY <3>3 DEF TypeOK
      <4> HIDE DEF new
      <4> QED BY <1>1, <2>1, <3>1, <4>1, <4>2 DEF TypeOK
    <3> QED BY <2>6, <3>1, <3>2, <3>3 DEF CheckCount
  <2>7. CASE WriteManifest(c)
    <3> DEFINE new == IdleJob(job[c].image)
    <3>1. new.image = job[c].image
      BY DEF IdleJob
    <3> HIDE DEF new
    <3>2. job' = [job EXCEPT ![c] = new] /\ deleted' = deleted
      BY <2>7 DEF WriteManifest, new, history
    <3> QED BY <1>1, <2>1, <3>1, <3>2 DEF TypeOK
  <2> QED BY <1>2, <2>2, <2>4, <2>5, <2>6, <2>7 DEF Bootstrap
<1>3. ASSUME Script
      PROVE  /\ \A d \in Containers : job'[d].image = job[d].image
             /\ deleted.children \subseteq deleted'.children
  <2>1. \A d \in Containers : d \in Jobs /\ d # "script"
    BY Names
  <2>2. \A d \in Containers : job'[d] = job[d]
    BY <1>1, <1>3, <2>1 DEF Script, StartScript, ScriptRead, ScriptUpsert, ScriptDelete,
       DropStaleParents, ScriptManifest, Verify, Goto, TypeOK
  <2>3. deleted.children \subseteq deleted'.children
    BY <1>1, <1>3 DEF Script, StartScript, ScriptRead, ScriptUpsert, ScriptDelete,
       DropStaleParents, ScriptManifest, Verify, history, TypeOK
  <2> QED BY <2>2, <2>3
<1>4. ASSUME NEW p \in Jobs, PutParent(p) \/ Break(p)
      PROVE  /\ \A d \in Containers : job'[d].image = job[d].image
             /\ deleted.children \subseteq deleted'.children
  <2>1. /\ \A d \in Containers : d \in Jobs
        /\ job[p] \in Job
    BY <1>1, Names, JobFields
  <2>2. deleted' = deleted
    BY <1>4 DEF PutParent, Break, history
  <2>3. ASSUME NEW next, job' = [job EXCEPT ![p].rest = @ \ {next}]
        PROVE  \A d \in Containers : job'[d].image = job[d].image
    <3> DEFINE new == [job[p] EXCEPT !.rest = @ \ {next}]
    <3>1. new.image = job[p].image
      BY <2>1 DEF Job
    <3>2. job' = [job EXCEPT ![p] = new]
      BY <2>3
    <3> HIDE DEF new
    <3> QED BY <1>1, <2>1, <3>1, <3>2 DEF TypeOK
  <2>4. ASSUME NEW pc, Goto(p, pc)
        PROVE  \A d \in Containers : job'[d].image = job[d].image
    <3> DEFINE new == [job[p] EXCEPT !.pc = pc]
    <3>1. new.image = job[p].image
      BY <2>1 DEF Job
    <3>2. job' = [job EXCEPT ![p] = new]
      BY <2>4 DEF Goto
    <3> HIDE DEF new
    <3> QED BY <1>1, <2>1, <3>1, <3>2 DEF TypeOK
  <2>5. CASE PutParent(p)
    BY <2>2, <2>3, <2>4, <2>5 DEF PutParent
  <2>6. CASE Break(p)
    <3> DEFINE new == IdleJob(job[p].image)
    <3>1. new.image = job[p].image
      BY DEF IdleJob
    <3> HIDE DEF new
    <3>2. job' = [job EXCEPT ![p] = new]
      BY <2>6 DEF Break, new
    <3> QED BY <1>1, <2>1, <2>2, <3>1, <3>2 DEF TypeOK
  <2> QED BY <1>4, <2>5, <2>6
<1>5. ASSUME LateBatch \/ \E c \in Containers : LoadIndex(c) \/ StopApp(c)
      PROVE  job' = job /\ deleted' = deleted
  BY <1>5 DEF LateBatch, LoadIndex, StopApp, history
<1> QED BY <1>2, <1>3, <1>4, <1>5 DEF Next

-----------------------------------------------------------------------------
(* Sets and truncated rankings.                                             *)

LEMMA FewParents ==
    ASSUME NEW set \in SUBSET Parents
    PROVE  IsFiniteSet(set) /\ Cardinality(set) \in Nat
<1>1. IsFiniteSet(Children)
  BY DeploymentAssumption
<1> DEFINE f == [k \in Children |-> ParentOf[k]]
<1>2. f \in Surjection(Children, Parents)
  BY DEF Surjection, Parents
<1>3. IsFiniteSet(Parents)
  BY <1>1, <1>2, FS_Surjection
<1>4. IsFiniteSet(set)
  BY <1>3, FS_Subset
<1> QED BY <1>4, FS_CardinalityType

\* A cut is the whole set, or as large as the limit allows and smaller than it.
LEMMA CutOrWhole ==
    ASSUME NEW set \in SUBSET Parents, NEW k \in Nat, NEW cut \in Cuts(set, k)
    PROVE  /\ cut \in SUBSET Parents
           /\ Cardinality(cut) \in Nat /\ Cardinality(cut) <= k
           /\ \/ cut = set
              \/ Cardinality(cut) = k /\ k < Cardinality(set)
<1>1. /\ cut \in SUBSET set /\ cut \in SUBSET Parents
      /\ Cardinality(cut) = Smaller(k, Cardinality(set))
  BY DEF Cuts
<1>2. IsFiniteSet(set) /\ Cardinality(set) \in Nat /\ Cardinality(cut) \in Nat
  BY <1>1, FewParents
<1>3. CASE k < Cardinality(set)
  BY <1>1, <1>2, <1>3 DEF Smaller
<1>4. CASE ~(k < Cardinality(set))
  <2>1. Cardinality(cut) = Cardinality(set) /\ Cardinality(set) <= k
    BY <1>1, <1>2, <1>4 DEF Smaller
  <2>2. cut = set
    BY <1>1, <1>2, <2>1, FS_Subset
  <2> QED BY <1>1, <1>2, <2>1, <2>2
<1> QED BY <1>3, <1>4

\* A cached answer stays sound when it is cut to a later call's top_k.
LEMMA CutIsSound ==
    ASSUME NEW answer \in AnswerType, NEW image \in Images, NEW limit \in Nat,
           Sound(answer, image, limit),
           NEW k \in Nat, NEW cut \in Cuts(answer.parents, k), NEW short,
           short = [answer EXCEPT !.parents = cut, !.hit = TRUE]
    PROVE  /\ short \in AnswerType /\ short.hit
           /\ Smaller(k, limit) \in Nat /\ Sound(short, image, Smaller(k, limit))
<1>1. answer.parents \in SUBSET Parents
  BY DEF AnswerType
<1>2. /\ cut \in SUBSET Parents /\ Cardinality(cut) \in Nat /\ Cardinality(cut) <= k
      /\ \/ cut = answer.parents
         \/ Cardinality(cut) = k /\ k < Cardinality(answer.parents)
  BY <1>1, CutOrWhole
<1>3. Cardinality(answer.parents) \in Nat /\ Cardinality(answer.parents) <= limit
  BY <1>1, FewParents DEF Sound
<1>4. Smaller(k, limit) \in Nat
  BY DEF Smaller
<1>5. /\ short \in AnswerType /\ short.parents = cut /\ short.hit
      /\ short.degraded = answer.degraded /\ short.missing = answer.missing
      /\ short.error = answer.error
  BY <1>2 DEF AnswerType
<1>6. CASE cut = answer.parents
  <2>1. Cardinality(cut) <= Smaller(k, limit)
    BY <1>2, <1>3, <1>6 DEF Smaller
  <2>2. Cardinality(answer.parents) = limit => Cardinality(cut) = Smaller(k, limit)
    BY <1>2, <1>3, <1>6 DEF Smaller
  <2> QED BY <1>4, <1>5, <1>6, <2>1, <2>2 DEF Sound, Explained
<1>7. CASE Cardinality(cut) = k /\ k < Cardinality(answer.parents)
  <2>1. Cardinality(cut) = Smaller(k, limit)
    BY <1>3, <1>7 DEF Smaller
  <2> QED BY <1>2, <1>4, <1>5, <2>1 DEF Sound, Explained
<1> QED BY <1>2, <1>6, <1>7

-----------------------------------------------------------------------------
\* Later deletions take nothing away from what a call or an answer claims.
LEMMA SoundKept ==
    ASSUME NEW answer, NEW image, NEW k, Sound(answer, image, k),
           deleted.children \subseteq deleted'.children
    PROVE  Sound(answer, image, k)'
BY DEF Sound, Explained

LEMMA Nothing ==
    /\ NoAnswer \in AnswerType /\ NoAnswer.parents = {} /\ NoAnswer.missing = 0
    /\ NoCall \in CallType /\ NoCall.pc = "idle" /\ NoCall.limit = NoCall.topK
    /\ NoEntry \in EntryType /\ NoEntry.kind = "none"
    /\ \A left \in {"none", "corrupt"} : /\ [NoEntry EXCEPT !.kind = left] \in EntryType
                                        /\ [NoEntry EXCEPT !.kind = left].kind # "answer"
<1>1. NoAnswer \in AnswerType /\ NoAnswer.parents = {} /\ NoAnswer.missing = 0
  BY DEF NoAnswer, AnswerType
<1>2. NoCall \in CallType /\ NoCall.pc = "idle" /\ NoCall.limit = NoCall.topK
  BY <1>1, RetrievalAssumption DEF NoCall, CallType
<1>3. NoEntry \in EntryType /\ NoEntry.kind = "none"
  BY <1>1 DEF NoEntry, Entry, EntryType
<1>4. \A left \in {"none", "corrupt"} : /\ [NoEntry EXCEPT !.kind = left] \in EntryType
                                      /\ [NoEntry EXCEPT !.kind = left].kind # "answer"
  BY <1>3 DEF EntryType
<1> QED BY <1>1, <1>2, <1>3, <1>4

LEMMA DeploymentKeepsCalls ==
    ASSUME DeployInv, DeployInv', CallsInv, DeploymentStep
    PROVE  CallsInv'
<1>1. /\ \A c \in Containers : job'[c].image = job[c].image
      /\ deleted.children \subseteq deleted'.children
  BY StepKeepsImages DEF DeploymentStep
<1>2. /\ call' = [c \in Containers |-> IF app'[c] = "serving" THEN call[c] ELSE NoCall]
      /\ cache' = cache
  BY DEF DeploymentStep
<1>3. NoCall \in CallType /\ NoCall.pc = "idle" /\ NoCall.limit = NoCall.topK
  BY Nothing
<1>4. call' \in [Containers -> CallType]
  BY <1>2, <1>3 DEF CallsInv
<1>5. ASSUME NEW c \in Containers PROVE Truthful(c)'
  <2>1. CASE app'[c] = "serving"
    <3>1. call'[c] = call[c] /\ Truthful(c)
      BY <1>2, <2>1 DEF CallsInv
    <3>2. call[c].pc \in {"save", "answered"} =>
            Sound(call[c].answer, job[c].image, call[c].limit)'
      BY <1>1, <3>1, SoundKept DEF Truthful, Sound, Explained
    <3> QED BY <1>1, <2>1, <3>1, <3>2 DEF Truthful, Covers
  <2>2. CASE app'[c] # "serving"
    BY <1>2, <1>3, <2>2 DEF Truthful
  <2> QED BY <2>1, <2>2
<1>6. \A i \in Images : SoundEntry(cache[i], i)'
  BY <1>1, <1>2, SoundKept DEF CallsInv, SoundEntry
<1> QED BY <1>2, <1>4, <1>5, <1>6 DEF CallsInv

-----------------------------------------------------------------------------
(* The steps of one call.                                                   *)

\* A step of one call, which writes nothing of Deployment but a counter.
LEMMA CallStep ==
    ASSUME CallsInv, NEW c \in Containers, NEW new \in CallType,
           call' = [call EXCEPT ![c] = new],
           UNCHANGED <<chroma, redis, job, app, deleted>>,
           Truthful(c)',
           cache' \in [Images -> EntryType],
           \A i \in Images : SoundEntry(cache'[i], i)
    PROVE  CallsInv'
<1>1. call' \in [Containers -> CallType]
  BY DEF CallsInv
<1>2. ASSUME NEW d \in Containers PROVE Truthful(d)'
  <2>1. CASE d = c
    BY <2>1
  <2>2. CASE d # c
    <3>1. call'[d] = call[d] /\ Truthful(d)
      BY <2>2 DEF CallsInv
    <3> QED BY <3>1 DEF Truthful, Covers, Sound, Explained
  <2> QED BY <2>1, <2>2
<1> QED BY <1>1, <1>2 DEF CallsInv, SoundEntry, Sound, Explained

LEMMA CallFields ==
    ASSUME DeployInv, CallsInv, NEW c \in Containers
    PROVE  /\ call[c] \in CallType /\ call[c].answer \in AnswerType
           /\ call[c].evidence \in SUBSET Parents /\ call[c].hits \in SUBSET Children
           /\ call[c].topK \in Nat /\ call[c].limit \in Nat
           /\ call[c].answer.parents \in SUBSET Parents
           /\ call[c].answer.missing \in Nat
           /\ Truthful(c) /\ Secured(c) /\ job[c].image \in Images
           /\ Corpus[job[c].image] \in SUBSET Children
BY JobFields, Names DEF DeployInv, CallsInv, CallType, AnswerType

LEMMA AskKeeps ==
    ASSUME DeployInv, CallsInv, NEW c \in Containers, Ask(c)
    PROVE  CallsInv'
<1>1. PICK k \in 1..FinalK :
        call' = [call EXCEPT ![c] = [NoCall EXCEPT !.pc = "lookup", !.topK = k, !.limit = k]]
  BY DEF Ask
<1> DEFINE new == [NoCall EXCEPT !.pc = "lookup", !.topK = k, !.limit = k]
<1>2. new \in CallType /\ new.pc = "lookup" /\ new.limit = new.topK
  <2>1. k \in Nat
    BY RetrievalAssumption
  <2> QED BY <2>1, Nothing DEF CallType
<1> HIDE DEF new
<1>3. call' = [call EXCEPT ![c] = new] /\ UNCHANGED <<cache, chroma, redis, job, app, deleted>>
  BY <1>1 DEF Ask, history, new
<1>4. Truthful(c)'
  BY <1>2, <1>3 DEF Truthful, Ask, CallsInv
<1> QED BY <1>2, <1>3, <1>4, CallStep DEF CallsInv

LEMMA LookUpKeeps ==
    ASSUME DeployInv, CallsInv, NEW c \in Containers, LookUp(c)
    PROVE  CallsInv'
<1> DEFINE image == job[c].image
           entry == cache[image]
<1>1. /\ call[c] \in CallType /\ Truthful(c) /\ image \in Images
      /\ call[c].pc = "lookup" /\ app[c] # "off"
      /\ call[c].topK \in Nat /\ call[c].limit = call[c].topK
      /\ UNCHANGED <<chroma, redis, job, app, deleted>>
  BY CallFields DEF LookUp, deployVars, history, Truthful
<1>2. /\ entry.answer \in AnswerType /\ entry.limit \in Nat
      /\ entry.kind = "answer" => Sound(entry.answer, image, entry.limit)
  BY <1>1 DEF CallsInv, EntryType, SoundEntry
<1>3. CASE call' = [call EXCEPT ![c].pc = "dense", ![c].rest = Variants]
  <2> DEFINE new == [call[c] EXCEPT !.pc = "dense", !.rest = Variants]
  <2>1. new \in CallType /\ new.pc = "dense" /\ new.limit = new.topK
    <3>1. Variants \in 0..Variants
      BY RetrievalAssumption
    <3> QED BY <1>1, <3>1 DEF CallType
  <2>2. call' = [call EXCEPT ![c] = new]
    BY <1>3 DEF CallsInv
  <2> HIDE DEF new
  <2>3. call'[c] = new
    BY <2>2 DEF CallsInv
  <2>4. Truthful(c)'
    BY <1>1, <2>1, <2>3 DEF Truthful
  <2>5. \/ cache' = cache
        \/ cache' = [cache EXCEPT ![image] = NoEntry]
    BY DEF LookUp, CacheKey
  <2>6. /\ cache' \in [Images -> EntryType]
        /\ \A i \in Images : SoundEntry(cache'[i], i)
    BY <1>1, <2>5, Nothing DEF CallsInv, SoundEntry
  <2> QED BY <1>1, <2>1, <2>2, <2>4, <2>6, CallStep
<1>4. ASSUME entry.kind = "answer", NEW cut \in Cuts(entry.answer.parents, call[c].topK),
             call' = [call EXCEPT
                 ![c].pc = "answered",
                 ![c].limit = Smaller(@, entry.limit),
                 ![c].answer = [entry.answer EXCEPT !.parents = cut, !.hit = TRUE]],
             UNCHANGED cache
      PROVE  CallsInv'
  <2> DEFINE short == [entry.answer EXCEPT !.parents = cut, !.hit = TRUE]
             limit == Smaller(call[c].topK, entry.limit)
  <2>1. short \in AnswerType /\ short.hit /\ limit \in Nat /\ Sound(short, image, limit)
    <3> DEFINE answer == entry.answer
    <3>1. /\ answer \in AnswerType /\ image \in Images /\ entry.limit \in Nat
          /\ Sound(answer, image, entry.limit) /\ call[c].topK \in Nat
          /\ cut \in Cuts(answer.parents, call[c].topK)
          /\ short = [answer EXCEPT !.parents = cut, !.hit = TRUE]
      BY <1>1, <1>2, <1>4
    <3> HIDE DEF answer, short, entry, image
    <3> QED BY <3>1, CutIsSound
  <2> HIDE DEF short
  <2> DEFINE new == [call[c] EXCEPT !.pc = "answered", !.limit = limit, !.answer = short]
  <2>2. call' = [call EXCEPT ![c] = new]
    BY <1>1, <1>4 DEF CallsInv, short
  <2> HIDE DEF limit
  <2>3. new \in CallType /\ new.pc = "answered" /\ new.answer = short /\ new.limit = limit
    BY <1>1, <2>1 DEF CallType
  <2> HIDE DEF new
  <2>4. call'[c] = new
    BY <2>2 DEF CallsInv
  <2>5. Truthful(c)'
    BY <1>1, <2>1, <2>3, <2>4 DEF Truthful, Sound, Explained
  <2> QED BY <1>1, <1>4, <2>2, <2>3, <2>5, CallStep DEF CallsInv
<1> QED BY <1>3, <1>4 DEF LookUp, CacheKey

\* The end of the search: without a failure the evidence covers the image, if
\* the last variant was searched.
LEMMA FuseKeeps ==
    ASSUME DeployInv, CallsInv, NEW c \in Containers, call[c].pc = "dense",
           NEW hits \in SUBSET Children, NEW degraded \in SUBSET {"dense", "sparse", "reranker"},
           Fuse(c, hits, degraded), UNCHANGED <<cache, deployVars>>,
           degraded # {} \/ Corpus[job[c].image] \ hits \subseteq deleted.children
    PROVE  CallsInv'
<1> DEFINE image == job[c].image
           all == Corpora(c) \intersect Lexical
<1>1. /\ call[c] \in CallType /\ Truthful(c) /\ image \in Images /\ app[c] # "off"
      /\ call[c].limit = call[c].topK /\ call[c].limit \in Nat
      /\ UNCHANGED <<chroma, redis, job, app, deleted>>
      /\ all \in SUBSET Children
  BY CallFields DEF deployVars, history, Truthful, Corpora
<1>2. PICK sparse \in {all, {}} :
        LET failed == sparse # all
            found == hits \union sparse
            parts == degraded \union (IF failed THEN {"sparse"} ELSE {})
        IN  call' = [call EXCEPT
                ![c].pc = IF found = {} THEN "answered" ELSE "parents",
                ![c].rest = 0,
                ![c].hits = {},
                ![c].evidence = {ParentOf[k] : k \in found},
                ![c].answer = [NoAnswer EXCEPT !.degraded = parts, !.error = found = {}]]
  BY DEF Fuse
<1> DEFINE found == hits \union sparse
           parts == degraded \union (IF sparse # all THEN {"sparse"} ELSE {})
           evidence == {ParentOf[k] : k \in found}
           pc == IF found = {} THEN "answered" ELSE "parents"
           error == found = {}
           answer == [NoAnswer EXCEPT !.degraded = parts, !.error = error]
           new == [call[c] EXCEPT !.pc = pc, !.rest = 0, !.hits = {},
                                  !.evidence = evidence, !.answer = answer]
<1>3. found \in SUBSET Children
  BY <1>1, <1>2
<1>4. evidence \in SUBSET Parents /\ \A k \in found : ParentOf[k] \in evidence
  BY <1>3 DEF Parents
<1>5. parts \in SUBSET {"dense", "sparse", "reranker"} /\ (degraded # {} => parts # {})
  OBVIOUS
<1>6. /\ pc \in {"answered", "parents"} /\ error \in BOOLEAN
      /\ (pc = "answered" => error)
  OBVIOUS
<1> HIDE DEF parts, evidence, pc, error
<1>7. /\ answer \in AnswerType /\ answer.degraded = parts /\ answer.error = error
      /\ answer.parents = {} /\ answer.missing = 0
  BY <1>5, <1>6, Nothing DEF AnswerType
<1>8. call' = [call EXCEPT ![c] = new]
  BY <1>2 DEF CallsInv, pc, evidence, parts, error
<1> HIDE DEF answer
<1>9. /\ new \in CallType /\ new.pc = pc /\ new.answer = answer /\ new.evidence = evidence
      /\ new.limit = call[c].limit /\ new.topK = call[c].topK
  <2>1. 0 \in 0..Variants
    BY RetrievalAssumption
  <2> QED BY <1>1, <1>4, <1>6, <1>7, <2>1 DEF CallType
<1> HIDE DEF new
<1>10. call'[c] = new
  BY <1>8 DEF CallsInv
<1>11. parts # {} \/ Covers(evidence \union {}, image)
  <2> SUFFICES ASSUME parts = {} PROVE Covers(evidence \union {}, image)
    OBVIOUS
  <2>1. Corpus[image] \ hits \subseteq deleted.children
    BY <1>5
  <2> QED BY <1>4, <2>1 DEF Covers
<1>12. pc = "answered" => Sound(answer, image, call[c].limit)
  BY <1>1, <1>6, <1>7, FS_EmptySet DEF Sound, Explained
<1>13. Truthful(c)'
  BY <1>1, <1>6, <1>7, <1>9, <1>10, <1>11, <1>12 DEF Truthful, Covers, Sound, Explained
<1> QED BY <1>1, <1>8, <1>9, <1>13, CallStep DEF CallsInv

LEMMA SearchDenseKeeps ==
    ASSUME DeployInv, CallsInv, NEW c \in Containers, SearchDense(c)
    PROVE  CallsInv'
<1>1. /\ call[c] \in CallType /\ Truthful(c) /\ app[c] # "off" /\ call[c].pc = "dense"
      /\ call[c].hits \in SUBSET Children /\ chroma \in SUBSET Children
      /\ UNCHANGED <<cache, chroma, redis, job, app, deleted>>
  BY CallFields DEF deployVars, history, Truthful, SearchDense, DeployInv, TypeOK
<1>2. Corpus[job[c].image] \ chroma \subseteq deleted.children
  BY <1>1, CallFields DEF Secured
<1>3. CASE /\ call[c].rest > 1
           /\ call' = [call EXCEPT ![c].rest = @ - 1, ![c].hits = @ \union chroma]
  <2> DEFINE new == [call[c] EXCEPT !.rest = @ - 1, !.hits = @ \union chroma]
  <2>1. new \in CallType /\ new.pc = "dense" /\ new.limit = call[c].limit /\ new.topK = call[c].topK
    <3>1. call[c].rest \in 0..Variants /\ Variants \in Nat
      BY <1>1, RetrievalAssumption DEF CallType
    <3>2. call[c].rest - 1 \in 0..Variants
      BY <1>3, <3>1
    <3> QED BY <1>1, <3>2 DEF CallType
  <2>2. call' = [call EXCEPT ![c] = new]
    BY <1>3 DEF CallsInv
  <2> HIDE DEF new
  <2>3. call'[c] = new
    BY <2>2 DEF CallsInv
  <2>4. Truthful(c)'
    BY <1>1, <2>1, <2>3 DEF Truthful
  <2> QED BY <1>1, <2>1, <2>2, <2>4, CallStep DEF CallsInv
<1>4. CASE call[c].rest = 1 /\ Fuse(c, call[c].hits \union chroma, {})
  BY <1>1, <1>2, <1>4, FuseKeeps DEF SearchDense
<1>5. CASE Fuse(c, {}, {"dense"})
  BY <1>1, <1>5, FuseKeeps DEF SearchDense
<1> QED BY <1>3, <1>4, <1>5 DEF SearchDense

\* A parent leaves the evidence for the answer, or is counted as missing.
LEMMA FetchParentKeeps ==
    ASSUME DeployInv, CallsInv, NEW c \in Containers, FetchParent(c)
    PROVE  CallsInv'
<1>1. /\ call[c] \in CallType /\ Truthful(c) /\ app[c] # "off" /\ call[c].pc = "parents"
      /\ call[c].answer \in AnswerType
      /\ UNCHANGED <<cache, chroma, redis, job, app, deleted>>
  BY CallFields DEF deployVars, history, Truthful, FetchParent
<1>2. PICK p \in call[c].evidence, has \in BOOLEAN :
        call' = [call EXCEPT
            ![c].evidence = @ \ {p},
            ![c].answer.parents = IF has THEN @ \union {p} ELSE @,
            ![c].answer.missing = IF has THEN @ ELSE @ + 1]
  BY DEF FetchParent
<1> DEFINE old == call[c].answer
           parents == IF has THEN old.parents \union {p} ELSE old.parents
           missing == IF has THEN old.missing ELSE old.missing + 1
           answer == [old EXCEPT !.parents = parents, !.missing = missing]
           new == [call[c] EXCEPT !.evidence = @ \ {p}, !.answer = answer]
<1>3. /\ p \in Parents /\ old.parents \in SUBSET Parents /\ old.missing \in Nat
      /\ call[c].evidence \in SUBSET Parents
  BY <1>1 DEF CallType, AnswerType
<1>4. /\ parents \in SUBSET Parents /\ missing \in Nat
      /\ (has => parents = old.parents \union {p} /\ missing = old.missing)
      /\ (~has => missing > 0)
  BY <1>3
<1>5. call' = [call EXCEPT ![c] = new]
  BY <1>2 DEF CallsInv
<1> HIDE DEF parents, missing
<1>6. /\ answer \in AnswerType /\ answer.parents = parents /\ answer.missing = missing
      /\ answer.degraded = old.degraded
  BY <1>1, <1>4 DEF AnswerType
<1> HIDE DEF answer
<1>7. /\ new \in CallType /\ new.pc = "parents" /\ new.answer = answer
      /\ new.evidence = call[c].evidence \ {p}
      /\ new.limit = call[c].limit /\ new.topK = call[c].topK
  BY <1>1, <1>3, <1>6 DEF CallType
<1> HIDE DEF new
<1>8. call'[c] = new
  BY <1>5 DEF CallsInv
<1>9. \/ answer.degraded # {}
      \/ answer.missing > 0
      \/ Covers(new.evidence \union answer.parents, job[c].image)
  <2>1. CASE has
    BY <1>1, <1>4, <1>6, <1>7, <2>1 DEF Truthful, Covers
  <2>2. CASE ~has
    BY <1>4, <1>6, <2>2
  <2> QED BY <2>1, <2>2
<1>10. Truthful(c)'
  BY <1>1, <1>7, <1>8, <1>9 DEF Truthful, Covers
<1> QED BY <1>1, <1>5, <1>7, <1>10, CallStep DEF CallsInv

LEMMA RerankKeeps ==
    ASSUME DeployInv, CallsInv, NEW c \in Containers, Rerank(c)
    PROVE  CallsInv'
<1>1. /\ call[c] \in CallType /\ Truthful(c) /\ app[c] # "off" /\ call[c].pc = "parents"
      /\ call[c].evidence = {} /\ call[c].answer \in AnswerType
      /\ call[c].topK \in Nat /\ call[c].answer.parents \in SUBSET Parents
      /\ call[c].limit = call[c].topK
      /\ UNCHANGED <<cache, chroma, redis, job, app, deleted>>
  BY CallFields DEF deployVars, history, Truthful, Rerank
<1>2. PICK cut \in Cuts(call[c].answer.parents, call[c].topK), parts \in {{}, {"reranker"}} :
        call' = [call EXCEPT ![c].pc = "save",
                ![c].answer.parents = cut,
                ![c].answer.degraded = @ \union parts]
  BY DEF Rerank
<1> DEFINE old == call[c].answer
           degraded == old.degraded \union parts
           answer == [old EXCEPT !.parents = cut, !.degraded = degraded]
           new == [call[c] EXCEPT !.pc = "save", !.answer = answer]
<1>3. /\ cut \in SUBSET Parents /\ Cardinality(cut) \in Nat /\ Cardinality(cut) <= call[c].topK
      /\ cut = old.parents \/ Cardinality(cut) = call[c].topK
  <2>1. ASSUME NEW set \in SUBSET Parents, NEW k \in Nat, cut \in Cuts(set, k)
        PROVE  /\ cut \in SUBSET Parents /\ Cardinality(cut) \in Nat /\ Cardinality(cut) <= k
               /\ cut = set \/ Cardinality(cut) = k
    BY <2>1, CutOrWhole
  <2> QED BY <1>1, <2>1
<1>4. /\ degraded \in SUBSET {"dense", "sparse", "reranker"}
      /\ old.degraded # {} => degraded # {}
  BY <1>1 DEF AnswerType
<1>5. call' = [call EXCEPT ![c] = new]
  BY <1>2 DEF CallsInv
<1> HIDE DEF degraded
<1>6. /\ answer \in AnswerType /\ answer.parents = cut
      /\ answer.degraded = degraded /\ answer.missing = old.missing
  BY <1>1, <1>3, <1>4 DEF AnswerType
<1> HIDE DEF answer
<1>7. /\ new \in CallType /\ new.pc = "save" /\ new.answer = answer
      /\ new.limit = call[c].topK /\ new.topK = call[c].topK
  BY <1>1, <1>6 DEF CallType
<1> HIDE DEF new
<1>8. call'[c] = new
  BY <1>5 DEF CallsInv
<1>9. Sound(answer, job[c].image, call[c].topK)
  <2>1. CASE cut = old.parents
    <3>1. \/ answer.degraded # {} \/ answer.missing > 0
          \/ Covers(answer.parents, job[c].image)
      BY <1>1, <1>4, <1>6, <2>1 DEF Truthful, Covers
    <3> QED BY <1>3, <1>6, <3>1 DEF Sound, Explained, Covers
  <2>2. CASE Cardinality(cut) = call[c].topK
    BY <1>3, <1>6, <2>2 DEF Sound, Explained
  <2> QED BY <1>3, <2>1, <2>2
<1>10. Truthful(c)'
  BY <1>1, <1>7, <1>8, <1>9 DEF Truthful, Sound, Explained
<1> QED BY <1>1, <1>5, <1>7, <1>10, CallStep DEF CallsInv

LEMMA SaveKeeps ==
    ASSUME DeployInv, CallsInv, NEW c \in Containers, Save(c)
    PROVE  CallsInv'
<1> DEFINE new == [call[c] EXCEPT !.pc = "answered"]
           entry == Entry("answer", call[c].answer, call[c].topK)
<1>1. /\ call[c] \in CallType /\ Truthful(c) /\ call[c].pc = "save"
      /\ call[c].limit = call[c].topK /\ call[c].topK \in Nat
      /\ call[c].answer \in AnswerType /\ job[c].image \in Images
      /\ UNCHANGED <<chroma, redis, job, app, deleted>>
  BY CallFields DEF deployVars, history, Save, Truthful
<1>2. Sound(call[c].answer, job[c].image, call[c].topK)
  BY <1>1 DEF Truthful
<1>3. /\ new \in CallType /\ new.pc = "answered" /\ new.answer = call[c].answer
      /\ new.limit = call[c].limit /\ new.topK = call[c].topK
  BY <1>1 DEF CallType
<1>4. call' = [call EXCEPT ![c] = new]
  BY DEF Save, CallsInv
<1> HIDE DEF new
<1>5. call'[c] = new
  BY <1>4 DEF CallsInv
<1>6. Truthful(c)'
  BY <1>1, <1>2, <1>3, <1>5 DEF Truthful, Sound, Explained
<1>7. entry \in EntryType /\ entry.answer = call[c].answer /\ entry.limit = call[c].topK
  BY <1>1 DEF Entry, EntryType
<1> HIDE DEF entry
<1>8. cache' = cache \/ cache' = [cache EXCEPT ![job[c].image] = entry]
  BY DEF Save, CacheKey, entry
<1>9. /\ cache' \in [Images -> EntryType]
      /\ \A i \in Images : SoundEntry(cache'[i], i)
  BY <1>1, <1>2, <1>7, <1>8 DEF CallsInv, SoundEntry
<1> QED BY <1>1, <1>3, <1>4, <1>6, <1>9, CallStep

LEMMA LoseEntryKeeps ==
    ASSUME DeployInv, CallsInv, LoseEntry
    PROVE  CallsInv'
<1>1. UNCHANGED <<call, chroma, redis, job, app, deleted>>
  BY DEF LoseEntry, deployVars, history
<1>2. PICK key \in Images, left \in {"none", "corrupt"} :
        cache' = [cache EXCEPT ![key] = [NoEntry EXCEPT !.kind = left]]
  BY DEF LoseEntry
<1> DEFINE entry == [NoEntry EXCEPT !.kind = left]
<1>3. entry \in EntryType /\ entry.kind # "answer"
  BY Nothing
<1> HIDE DEF entry
<1>4. cache' = [cache EXCEPT ![key] = entry]
  BY <1>2 DEF entry
<1>5. cache' \in [Images -> EntryType]
  BY <1>3, <1>4 DEF CallsInv
<1>6. \A i \in Images : SoundEntry(cache'[i], i)
  BY <1>3, <1>4 DEF CallsInv, SoundEntry
<1>7. \A c \in Containers : Truthful(c)'
  BY <1>1 DEF CallsInv, Truthful, Covers, Sound, Explained
<1> QED BY <1>1, <1>5, <1>6, <1>7 DEF CallsInv, SoundEntry, Sound, Explained

-----------------------------------------------------------------------------
KnowledgeInv == DeployInv /\ CallsInv

LEMMA InitKnows == KnowledgeInit => KnowledgeInv
<1> SUFFICES ASSUME Init, RetrievalInit PROVE KnowledgeInv
  BY DEF KnowledgeInit
<1>1. call \in [Containers -> CallType] /\ \A c \in Containers : Truthful(c)
  BY Nothing DEF RetrievalInit, Truthful
<1>2. /\ cache \in [Images -> EntryType]
      /\ \A i \in Images : SoundEntry(cache[i], i)
  BY Nothing DEF RetrievalInit, SoundEntry
<1> QED BY <1>1, <1>2, InitDeploys DEF KnowledgeInv, CallsInv

\* Of Deployment, a step of retrieval changes nothing but the bounded counter.
LEMMA RetrievalDeploys ==
    ASSUME DeployInv, begun' \in 0..MaxBegun,
           UNCHANGED <<chroma, redis, lock, disk, job, app, late, history>>
    PROVE  DeployInv'
BY DEF DeployInv, TypeOK, Secured, Alone, At, ParentsOf, history

LEMMA StepKnows == KnowledgeInv /\ [KnowledgeNext]_knowledgeVars => KnowledgeInv'
<1> SUFFICES ASSUME DeployInv, CallsInv, [KnowledgeNext]_knowledgeVars PROVE KnowledgeInv'
  BY DEF KnowledgeInv
<1>1. CASE DeploymentStep
  <2>1. DeployInv'
    BY <1>1, StepDeploys DEF DeploymentStep
  <2> QED BY <1>1, <2>1, DeploymentKeepsCalls DEF KnowledgeInv
<1>2. ASSUME NEW c \in Containers, RetrievalStep(c) PROVE KnowledgeInv'
  <2>1. CallsInv'
    BY <1>2, AskKeeps, LookUpKeeps, SearchDenseKeeps, FetchParentKeeps, RerankKeeps,
       SaveKeeps DEF RetrievalStep
  <2>2. begun \in 0..MaxBegun /\ MaxBegun \in Nat
    BY DeploymentAssumption DEF DeployInv, TypeOK
  <2>3. begun' \in 0..MaxBegun /\ UNCHANGED <<chroma, redis, lock, disk, job, app, late, history>>
    <3>1. CASE Ask(c)
      BY <2>2, <3>1 DEF Ask, Begin
    <3>2. CASE UNCHANGED deployVars
      BY <2>2, <3>2 DEF deployVars
    <3>3. CASE LookUp(c)
      BY <3>2, <3>3 DEF LookUp
    <3>4. CASE SearchDense(c)
      BY <3>2, <3>4 DEF SearchDense
    <3>5. CASE FetchParent(c)
      BY <3>2, <3>5 DEF FetchParent
    <3>6. CASE Rerank(c)
      BY <3>2, <3>6 DEF Rerank
    <3>7. CASE Save(c)
      BY <3>2, <3>7 DEF Save
    <3> QED BY <1>2, <3>1, <3>3, <3>4, <3>5, <3>6, <3>7 DEF RetrievalStep
  <2>4. DeployInv'
    BY <2>3, RetrievalDeploys
  <2> QED BY <2>1, <2>4 DEF KnowledgeInv
<1>3. CASE LoseEntry
  <2>1. begun \in 0..MaxBegun
    BY DEF DeployInv, TypeOK
  <2>2. DeployInv'
    BY <1>3, <2>1, RetrievalDeploys DEF LoseEntry, deployVars
  <2> QED BY <1>3, <2>2, LoseEntryKeeps DEF KnowledgeInv
<1>4. CASE UNCHANGED knowledgeVars
  <2>1. UNCHANGED <<begun, chroma, redis, lock, disk, job, app, late, history, deleted>>
    BY <1>4 DEF knowledgeVars, deployVars, history
  <2>2. begun \in 0..MaxBegun
    BY DEF DeployInv, TypeOK
  <2>3. DeployInv'
    BY <2>1, <2>2, RetrievalDeploys
  <2>4. CallsInv'
    BY <1>4, <2>1 DEF knowledgeVars, retrievalVars, CallsInv, Truthful, Covers, SoundEntry, Sound, Explained
  <2> QED BY <2>3, <2>4 DEF KnowledgeInv
<1> QED BY <1>1, <1>2, <1>3, <1>4 DEF KnowledgeNext

LEMMA AlwaysKnows == KnowledgeSpec => []KnowledgeInv
BY InitKnows, StepKnows, PTL DEF KnowledgeSpec

\* With retrieval running beside it, too, a serving container lacks nothing of
\* its index but what the script deleted, and every refusal has its cause.
THEOREM KnowledgeIsServed == KnowledgeSpec => [](ServingIsIndexed /\ FailuresHaveCauses)
<1>1. KnowledgeInv => ServingIsIndexed /\ FailuresHaveCauses
  BY DEF KnowledgeInv, DeployInv, Secured, Alone, ServingIsIndexed, FailuresHaveCauses
<1> QED BY <1>1, AlwaysKnows, PTL

\* For any containers, images, corpora and limits: an answer that leaves out a
\* section of its image's knowledge shows why, or the script deleted one of its
\* children, or the answer is from the cache, says so, and has as many parents as
\* the call asked for that wrote the entry.
THEOREM OmissionsAreCaused == KnowledgeSpec => []OmissionsHaveCauses
<1>1. KnowledgeInv => OmissionsHaveCauses
  BY DEF KnowledgeInv, CallsInv, Truthful, SoundEntry, Sound, OmissionsHaveCauses
<1> QED BY <1>1, AlwaysKnows, PTL

-----------------------------------------------------------------------------
(* Preferences: what a run was asked to remember, what it has stored, and   *)
(* what was deleted behind it.                                              *)

AskedByAnyone == UNION {node[q].asked : q \in Runs}

\* Nobody stores what nobody asked for, and what a run has stored is in memory,
\* unless it was deleted after the run stored it.
MemoryInv ==
    /\ MemoryTypeOK
    /\ memory \subseteq AskedByAnyone
    /\ \A r \in Runs :
         /\ node[r].rest \subseteq node[r].asked
         /\ node[r].pc \in {"upsert", "list"} =>
              node[r].asked \ node[r].rest \subseteq memory \union node[r].gone
         /\ node[r].pc \in {"off", "list"} => node[r].rest = {}
    /\ RememberedIsListed

\* What MemoryInv says of one run, of the memory and of what anyone asked for.
Fits(n, stored, wanted) ==
    /\ n.rest \subseteq n.asked
    /\ n.pc \in {"upsert", "list"} => n.asked \ n.rest \subseteq stored \union n.gone
    /\ n.pc \in {"off", "list"} => n.rest = {}
    /\ n.pc = "done" =>
         /\ n.asked \subseteq n.listed \union n.gone \/ n.crowded
         /\ n.listed \subseteq wanted

\* A run fits a memory that only grows.
LEMMA StaysFit ==
    ASSUME NEW n \in Node, NEW stored, NEW more, NEW wanted,
           Fits(n, stored, wanted), stored \subseteq more
    PROVE  Fits(n, more, wanted)
  BY DEF Fits

\* A step of one run that leaves what it was asked for alone.
LEMMA OneNode ==
    ASSUME node \in [Runs -> Node], NEW r \in Runs, NEW n \in Node,
           n.asked = node[r].asked, node' = [node EXCEPT ![r] = n]
    PROVE  /\ node' \in [Runs -> Node] /\ node'[r] = n
           /\ \A q \in Runs : q # r => node'[q] = node[q]
           /\ AskedByAnyone' = AskedByAnyone
<1>1. /\ node' \in [Runs -> Node] /\ node'[r] = n
      /\ \A q \in Runs : q # r => node'[q] = node[q]
  OBVIOUS
<1>2. \A q \in Runs : node'[q].asked = node[q].asked
  BY <1>1
<1> QED BY <1>1, <1>2 DEF AskedByAnyone

LEMMA MemoryStarts == MemoryInit => MemoryInv
<1> SUFFICES ASSUME MemoryInit PROVE MemoryInv
  OBVIOUS
<1>1. /\ memory = {}
      /\ \A r \in Runs : node[r] \in Node /\ node[r].pc = "off" /\ node[r].rest = {}
  BY DEF MemoryInit, Node
<1>2. MemoryTypeOK
  <2>1. node \in [Runs -> Node] /\ removal \in [Removals -> Removal]
    BY DEF MemoryInit, Node, Removal
  <2> QED BY <1>1, <2>1 DEF MemoryTypeOK
<1> QED BY <1>1, <1>2 DEF MemoryInv, RememberedIsListed

LEMMA MemoryKeeps ==
    ASSUME MemoryInv, [MemoryNext]_memoryVars
    PROVE  MemoryInv'
<1>a. /\ memory \subseteq Values /\ node \in [Runs -> Node]
      /\ removal \in [Removals -> Removal] /\ memory \subseteq AskedByAnyone
  BY DEF MemoryInv, MemoryTypeOK
<1>b. \A r \in Runs : node[r] \in Node /\ Fits(node[r], memory, AskedByAnyone)
  BY <1>a DEF MemoryInv, RememberedIsListed, AskedByAnyone, Fits
\* It is enough that the nodes fit the memory, each by itself, ...
<1>o. ASSUME memory' \subseteq Values, node' \in [Runs -> Node],
             removal' \in [Removals -> Removal], AskedByAnyone' = AskedByAnyone,
             memory' \subseteq AskedByAnyone,
             \A r \in Runs : Fits(node'[r], memory', AskedByAnyone)
      PROVE  MemoryInv'
  <2>1. RememberedIsListed'
    BY <1>o DEF RememberedIsListed, AskedByAnyone, Fits
  <2>2. \A r \in Runs :
          /\ node'[r].rest \subseteq node'[r].asked
          /\ node'[r].pc \in {"upsert", "list"} =>
               node'[r].asked \ node'[r].rest \subseteq memory' \union node'[r].gone
          /\ node'[r].pc \in {"off", "list"} => node'[r].rest = {}
    BY <1>o DEF Fits
  <2> QED BY <1>o, <2>1, <2>2 DEF MemoryInv, MemoryTypeOK
\* ... and of a run's own step, which takes nothing from the memory, that its node does.
<1>s. ASSUME NEW r \in Runs, NEW n \in Node, n.asked = node[r].asked,
             node' = [node EXCEPT ![r] = n], removal' = removal,
             memory \subseteq memory', memory' \subseteq Values,
             memory' \subseteq AskedByAnyone, Fits(n, memory', AskedByAnyone)
      PROVE  MemoryInv'
  <2>1. /\ node' \in [Runs -> Node] /\ node'[r] = n /\ AskedByAnyone' = AskedByAnyone
        /\ \A q \in Runs : q # r => node'[q] = node[q]
    BY <1>a, <1>s, OneNode
  <2>2. ASSUME NEW q \in Runs PROVE Fits(node'[q], memory', AskedByAnyone)
    <3>1. CASE q = r
      BY <1>s, <2>1, <3>1
    <3>2. CASE q # r
      BY <1>b, <1>s, <2>1, <3>2, StaysFit
    <3> QED BY <3>1, <3>2
  <2> QED BY <1>a, <1>o, <1>s, <2>1, <2>2
<1>1. ASSUME NEW r \in Runs, Remember(r) PROVE MemoryInv'
  <2> DEFINE n == [node[r] EXCEPT !.pc = IF node[r].asked = {} THEN "list" ELSE "upsert",
                                  !.rest = node[r].asked]
  <2>1. /\ n \in Node /\ n.asked = node[r].asked /\ n.rest = node[r].asked
        /\ n.pc = IF node[r].asked = {} THEN "list" ELSE "upsert"
    BY <1>b DEF Node
  <2>2. node' = [node EXCEPT ![r] = n] /\ memory' = memory /\ removal' = removal
    BY <1>a, <1>1 DEF Remember
  <2> HIDE DEF n
  <2>3. Fits(n, memory', AskedByAnyone)
    BY <2>1 DEF Fits
  <2> QED BY <1>a, <1>s, <2>1, <2>2, <2>3
<1>2. ASSUME NEW r \in Runs, UpsertOne(r) PROVE MemoryInv'
  <2>1. PICK v \in node[r].rest :
          /\ memory' = memory \union {v}
          /\ node' = [node EXCEPT ![r].rest = @ \ {v}, ![r].gone = @ \ {v},
                                  ![r].pc = IF node[r].rest = {v} THEN "list" ELSE @]
    BY <1>2 DEF UpsertOne
  <2> DEFINE n == [node[r] EXCEPT !.rest = @ \ {v}, !.gone = @ \ {v},
                                  !.pc = IF node[r].rest = {v} THEN "list" ELSE @]
  <2>2. /\ n \in Node /\ n.asked = node[r].asked /\ n.rest = node[r].rest \ {v}
        /\ n.gone = node[r].gone \ {v}
        /\ n.pc = IF node[r].rest = {v} THEN "list" ELSE "upsert"
    BY <1>b, <1>2 DEF Node, UpsertOne
  <2>3. node' = [node EXCEPT ![r] = n] /\ removal' = removal
    BY <1>a, <1>2, <2>1 DEF UpsertOne
  <2> HIDE DEF n
  <2>5. v \in node[r].asked /\ v \in Values /\ v \in AskedByAnyone
    <3>1. node[r].rest \subseteq node[r].asked /\ node[r].asked \subseteq Values
      BY <1>b DEF Fits, Node
    <3> QED BY <2>1, <3>1 DEF AskedByAnyone
  <2>6. node[r].pc = "upsert"
    BY <1>2 DEF UpsertOne
  <2>7. n.asked \ n.rest \subseteq memory' \union n.gone
    <3>1. node[r].asked \ node[r].rest \subseteq memory \union node[r].gone
      BY <1>b, <2>6 DEF Fits
    <3> QED BY <2>1, <2>2, <3>1
  <2>8. n.rest \subseteq n.asked
    BY <1>b, <2>2 DEF Fits
  <2>9. Fits(n, memory', AskedByAnyone)
    BY <2>1, <2>2, <2>7, <2>8 DEF Fits
  <2>10. /\ memory \subseteq memory' /\ memory' \subseteq Values
         /\ memory' \subseteq AskedByAnyone
    BY <1>a, <2>1, <2>5
  <2> QED BY <1>s, <2>2, <2>3, <2>9, <2>10
<1>3. ASSUME NEW r \in Runs, ListMemories(r) PROVE MemoryInv'
  <2>1. PICK listed \in SUBSET memory :
          /\ listed = memory \/ Cardinality(memory) > ListLimit
          /\ node' = [node EXCEPT ![r].listed = listed, ![r].pc = "done",
                                  ![r].crowded = Cardinality(memory) > ListLimit]
    BY <1>3 DEF ListMemories
  <2> DEFINE crowded == Cardinality(memory) > ListLimit
             n == [node[r] EXCEPT !.listed = listed, !.pc = "done", !.crowded = crowded]
  <2>2. crowded \in BOOLEAN
    OBVIOUS
  <2> HIDE DEF crowded
  <2>3. /\ n \in Node /\ n.asked = node[r].asked /\ n.rest = node[r].rest
        /\ n.gone = node[r].gone /\ n.pc = "done" /\ n.listed = listed /\ n.crowded = crowded
    BY <1>a, <1>b, <2>2 DEF Node
  <2>4. node' = [node EXCEPT ![r] = n] /\ removal' = removal /\ memory' = memory
    BY <1>a, <1>3, <2>1 DEF ListMemories, crowded
  <2>5. listed = memory \/ crowded
    BY <2>1 DEF crowded
  <2> HIDE DEF n
  <2>6. /\ node[r].asked \subseteq memory \union node[r].gone
        /\ node[r].rest \subseteq node[r].asked
    BY <1>b, <1>3 DEF ListMemories, Fits
  <2>7. Fits(n, memory', AskedByAnyone)
    BY <1>a, <2>3, <2>4, <2>5, <2>6 DEF Fits
  <2> QED BY <1>a, <1>s, <2>3, <2>4, <2>7
<1>4. ASSUME NEW r \in Runs, StoreFails(r) PROVE MemoryInv'
  <2>1. PICK pc \in {"failed", "cancelled"} : node' = [node EXCEPT ![r].pc = pc]
    BY <1>4 DEF StoreFails
  <2> DEFINE n == [node[r] EXCEPT !.pc = pc]
  <2>2. /\ n \in Node /\ n.asked = node[r].asked /\ n.rest = node[r].rest
        /\ n.pc \in {"failed", "cancelled"}
    BY <1>b DEF Node
  <2>3. node' = [node EXCEPT ![r] = n] /\ removal' = removal /\ memory' = memory
    BY <1>a, <1>4, <2>1 DEF StoreFails
  <2> HIDE DEF n
  <2>4. Fits(n, memory', AskedByAnyone)
    BY <1>b, <2>2 DEF Fits
  <2> QED BY <1>a, <1>s, <2>2, <2>3, <2>4
<1>5. ASSUME NEW d \in Removals, Look(d) \/ LookFails(d) PROVE MemoryInv'
  <2>1. memory' = memory /\ node' = node /\ removal' \in [Removals -> Removal]
    BY <1>a, <1>5 DEF Look, LookFails, Removal
  <2>2. AskedByAnyone' = AskedByAnyone
    BY <2>1 DEF AskedByAnyone
  <2> QED BY <1>a, <1>b, <1>o, <2>1, <2>2
<1>6. ASSUME NEW d \in Removals, Delete(d) PROVE MemoryInv'
  <2> DEFINE v == removal[d].value
  <2>1. memory' = memory \ {v} /\ v \in Values
    BY <1>a, <1>6 DEF Delete, Removal
  <2>2. removal' \in [Removals -> Removal]
    BY <1>a, <1>6 DEF Delete, Removal
  <2>3. node' = [r \in Runs |-> [node[r] EXCEPT !.gone = node[r].gone \union {v}]]
    BY <1>6 DEF Delete
  <2> HIDE DEF v
  <2>4. ASSUME NEW r \in Runs
        PROVE  /\ node'[r] \in Node /\ node'[r].asked = node[r].asked
               /\ node'[r].rest = node[r].rest /\ node'[r].pc = node[r].pc
               /\ node'[r].listed = node[r].listed /\ node'[r].crowded = node[r].crowded
               /\ node'[r].gone = node[r].gone \union {v}
    BY <1>b, <2>1, <2>3 DEF Node
  <2>5. node' \in [Runs -> Node]
    BY <2>3, <2>4
  <2>6. AskedByAnyone' = AskedByAnyone
    BY <2>4 DEF AskedByAnyone
  <2>7. ASSUME NEW r \in Runs PROVE Fits(node'[r], memory', AskedByAnyone)
    <3>1. Fits(node[r], memory, AskedByAnyone)
      BY <1>b
    <3>2. memory \union node[r].gone \subseteq memory' \union node'[r].gone
      BY <2>1, <2>4
    <3> QED BY <2>4, <3>1, <3>2 DEF Fits
  <2>8. memory' \subseteq Values /\ memory' \subseteq AskedByAnyone
    BY <1>a, <2>1
  <2> QED BY <1>o, <2>2, <2>5, <2>6, <2>7, <2>8
<1>7. CASE UNCHANGED memoryVars
  <2>1. memory' = memory /\ node' = node /\ removal' = removal
    BY <1>7 DEF memoryVars
  <2>2. AskedByAnyone' = AskedByAnyone
    BY <2>1 DEF AskedByAnyone
  <2> QED BY <1>a, <1>b, <1>o, <2>1, <2>2
<1> QED
  BY <1>1, <1>2, <1>3, <1>4, <1>5, <1>6, <1>7 DEF MemoryNext

\* For any runs, preferences, deletions and list limit: a run that goes on to plan
\* sees each preference it was asked to remember that was not deleted after the
\* run stored it, unless its list was cut, and sees none that nobody asked for
\* (memory_context_node, upsert_explicit_preferences, list_user_preferences).
THEOREM RememberedPreferencesAreListed == MemorySpec => []RememberedIsListed
<1>1. MemoryInit => MemoryInv
  BY MemoryStarts
<1>2. MemoryInv /\ [MemoryNext]_memoryVars => (MemoryInv)'
  BY MemoryKeeps
<1>3. MemoryInv => RememberedIsListed
  BY DEF MemoryInv
<1> QED
  BY <1>1, <1>2, <1>3, PTL DEF MemorySpec

=============================================================================
