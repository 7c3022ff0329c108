------------------------------ MODULE Retrieval ------------------------------
(***************************************************************************)
(* Retrieval in the containers of Deployment (rag/advanced_retriever.py):  *)
(* the answer cache in Redis, dense search in Chroma, sparse search in the *)
(* process' own manifest, fusion, parents from Redis or from the manifest, *)
(* and reranking.  A call suspends at every cache, Chroma and parent       *)
(* access, so deployments, the index script and other calls run in between.*)
(*                                                                         *)
(* All calls ask one question.  The limits on candidates are far above the *)
(* number of children in the instance, so they cut nothing off and the     *)
(* metadata filter always falls back to the unfiltered search; the final   *)
(* limit on parents does cut.                                              *)
(***************************************************************************)
EXTENDS Deployment

CONSTANTS
    Lexical,     \* the children that share a token with the question
    Variants,    \* how many variants the question is expanded into
    FinalK       \* settings.rag_final_parent_k

ASSUME RetrievalAssumption ==
    /\ Lexical \subseteq Children
    /\ Variants \in Nat \ {0}
    /\ FinalK \in Nat \ {0}

VARIABLES
    cache,      \* what each key holds
    call,       \* each container's call of retrieve
    direct      \* RedisParentDocumentStore._redis_available

retrievalVars == <<cache, call, direct>>
knowledgeVars == <<deployVars, retrievalVars>>

-----------------------------------------------------------------------------
(* State.                                                                   *)

\* AdvancedRetrievalResult.  hit: its diagnostics say that it is from the cache.
Answer == [parents: SUBSET Parents, degraded: SUBSET {"dense", "sparse", "reranker"},
           missing: 0..Cardinality(Parents), hit: BOOLEAN, error: BOOLEAN]

NoAnswer == [parents |-> {}, degraded |-> {}, missing |-> 0, hit |-> FALSE, error |-> FALSE]

\* What a key holds: nothing, an answer, or what does not parse.  limit is
\* history: the requested_top_k of the call that wrote it, which neither the key
\* nor the stored answer records.
Entry(kind, answer, limit) == [kind |-> kind, answer |-> answer, limit |-> limit]

NoEntry == Entry("none", NoAnswer, 0)

\* topK: requested_top_k; rest: variants to search; hits: children found;
\* evidence: parents still to be fetched; answer: what is known of the result so
\* far.  limit is history: the smallest number of parents that anyone cut it to.
Call == [pc: {"idle", "lookup", "dense", "parents", "save", "answered"},
         topK: 0..FinalK, limit: 0..FinalK, rest: 0..Variants, hits: SUBSET Children,
         evidence: SUBSET Parents, answer: Answer]

NoCall == [pc |-> "idle", topK |-> 0, limit |-> 0, rest |-> 0, hits |-> {},
           evidence |-> {}, answer |-> NoAnswer]

RetrievalInit ==
    /\ cache = [key \in Images |-> NoEntry]
    /\ call = [c \in Containers |-> NoCall]
    /\ direct = [c \in Containers |-> TRUE]

-----------------------------------------------------------------------------
(* Helpers.                                                                 *)

Corpora(c) == Corpus[job[c].image]

\* build_retrieval_cache_key: settings and question are the same for all, and
\* the top_k of the call is not in it.
CacheKey(c) == job[c].image

Smaller(a, b) == IF a < b THEN a ELSE b

\* The first k of a ranking, whatever the ranking.
Cuts(set, k) == {cut \in SUBSET set : Cardinality(cut) = Smaller(k, Cardinality(set))}

\* The search is over: the sparse ranking joins the dense one, fusion keeps the
\* best child of each parent, and an empty result is an error, not an answer.
Fuse(c, hits, degraded) ==
    \E sparse \in {Corpora(c) \intersect Lexical, {}} :
        LET failed == sparse # Corpora(c) \intersect Lexical
            found == hits \union sparse
            parts == degraded \union (IF failed THEN {"sparse"} ELSE {})
        IN  call' = [call EXCEPT
                ![c].pc = IF found = {} THEN "answered" ELSE "parents",
                ![c].rest = 0,
                ![c].hits = {},
                ![c].evidence = {ParentOf[k] : k \in found},
                ![c].answer = [NoAnswer EXCEPT !.degraded = parts, !.error = found = {}]]

-----------------------------------------------------------------------------
(* One call of retrieve.                                                    *)

Ask(c) ==
    /\ app[c] = "serving"
    /\ call[c].pc \in {"idle", "answered"}
    /\ Begin
    /\ \E k \in 1..FinalK :
         call' = [call EXCEPT ![c] = [NoCall EXCEPT !.pc = "lookup", !.topK = k,
                                                         !.limit = k]]
    /\ UNCHANGED <<cache, direct, chroma, redis, lock, disk, job, app, late, history>>

\* The first suspension is over: a hit is cut to this call's top_k, and to no
\* more than it has; a miss, an unreadable entry, which is deleted if possible,
\* and a Redis that does not answer all lead to the search.
LookUp(c) ==
    LET entry == cache[CacheKey(c)]
        search == call' = [call EXCEPT ![c].pc = "dense", ![c].rest = Variants]
    IN
    /\ call[c].pc = "lookup"
    /\ \/ /\ entry.kind = "answer"
          /\ \E cut \in Cuts(entry.answer.parents, call[c].topK) :
               call' = [call EXCEPT
                   ![c].pc = "answered",
                   ![c].limit = Smaller(@, entry.limit),
                   ![c].answer = [entry.answer EXCEPT !.parents = cut, !.hit = TRUE]]
          /\ UNCHANGED cache
       \/ /\ entry.kind = "corrupt"
          /\ search
          /\ cache' = [cache EXCEPT ![CacheKey(c)] = NoEntry]
       \/ search /\ UNCHANGED cache
    /\ UNCHANGED <<direct, deployVars>>

\* Mutant of SearchDense: what was found before the failure is kept, and the
\* failure is not told.
SearchDenseQuiet(c) ==
    /\ call[c].pc = "dense"
    /\ \/ /\ call[c].rest > 1
          /\ call' = [call EXCEPT ![c].rest = @ - 1, ![c].hits = @ \union chroma]
       \/ call[c].rest = 1 /\ Fuse(c, call[c].hits \union chroma, {})
       \/ Fuse(c, call[c].hits, {})
    /\ UNCHANGED <<cache, direct, deployVars>>

\* One variant in a thread; a failure of any drops the rankings of all.
SearchDense(c) ==
    /\ call[c].pc = "dense"
    /\ \/ /\ call[c].rest > 1
          /\ call' = [call EXCEPT ![c].rest = @ - 1, ![c].hits = @ \union chroma]
       \/ call[c].rest = 1 /\ Fuse(c, call[c].hits \union chroma, {})
       \/ Fuse(c, {}, {"dense"})
    /\ UNCHANGED <<cache, direct, deployVars>>

\* One parent: from Redis, or from the manifest when Redis has no such key or
\* has failed once.  A parent that neither has is counted.
FetchParent(c) ==
    \E p \in call[c].evidence :
        LET manifest == p \in ParentsOf(job[c].image)
            fetched(has) == call' = [call EXCEPT
                ![c].evidence = @ \ {p},
                ![c].answer.parents = IF has THEN @ \union {p} ELSE @,
                ![c].answer.missing = IF has THEN @ ELSE @ + 1]
        IN
        /\ call[c].pc = "parents"
        /\ \A other \in call[c].evidence : p <= other
        /\ \/ direct[c] /\ fetched(p \in redis \/ manifest) /\ UNCHANGED direct
           \/ fetched(manifest) /\ direct' = [direct EXCEPT ![c] = FALSE]
        /\ UNCHANGED <<cache, deployVars>>

\* A reranker that fails leaves the order of the fusion.
Rerank(c) ==
    /\ call[c].pc = "parents"
    /\ call[c].evidence = {}
    /\ \E cut \in Cuts(call[c].answer.parents, call[c].topK),
          parts \in {{}, {"reranker"}} :
         call' = [call EXCEPT ![c].pc = "save",
                ![c].answer.parents = cut,
                ![c].answer.degraded = @ \union parts]
    /\ UNCHANGED <<cache, direct, deployVars>>

\* The answer is cached for its TTL; a failure keeps the answer usable, and
\* after a timeout the entry may be there all the same.
Save(c) ==
    /\ call[c].pc = "save"
    /\ \/ cache' = [cache EXCEPT ![CacheKey(c)] =
                        Entry("answer", call[c].answer, call[c].topK)]
       \/ UNCHANGED cache
    /\ call' = [call EXCEPT ![c].pc = "answered"]
    /\ UNCHANGED <<direct, deployVars>>

\* The entry's TTL is over, or another release wrote what this one cannot read.
LoseEntry ==
    /\ \E key \in Images, left \in {"none", "corrupt"} :
         /\ cache[key].kind = "answer"
         /\ cache' = [cache EXCEPT ![key] = [NoEntry EXCEPT !.kind = left]]
    /\ UNCHANGED <<call, direct, deployVars>>

\* A step of Deployment.  A call and the store's flag end with their process.
DeploymentStep ==
    /\ Next
    /\ call' = [c \in Containers |-> IF app'[c] = "serving" THEN call[c] ELSE NoCall]
    /\ direct' = [c \in Containers |-> IF app'[c] = "serving" THEN direct[c] ELSE TRUE]
    /\ UNCHANGED cache

RetrievalStep(c) ==
    Ask(c) \/ LookUp(c) \/ SearchDense(c) \/ FetchParent(c) \/ Rerank(c) \/ Save(c)

KnowledgeNext ==
    \/ DeploymentStep
    \/ \E c \in Containers : RetrievalStep(c)
    \/ LoseEntry

KnowledgeInit == Init /\ RetrievalInit

KnowledgeSpec == KnowledgeInit /\ [][KnowledgeNext]_knowledgeVars

-----------------------------------------------------------------------------
(* Properties.                                                              *)

\* An answer leaves out none of its corpus' sections, or it shows why: an error,
\* a part that failed, a count of missing parents, or as many parents as k.
Explained(answer, image, k) ==
    \/ answer.error
    \/ answer.degraded # {}
    \/ answer.missing > 0
    \/ Cardinality(answer.parents) = k
    \/ \A child \in Corpus[image] :
         ParentOf[child] \in answer.parents \/ child \in deleted.children

\* No failure of a store, no deployment of another corpus in between and no
\* entry of another corpus takes a section out of an answer unseen; only a
\* deletion by the script may.  A call that searched itself gets all it asked
\* for or is told why not.  One that is given less than its top_k without a word
\* was served from the cache, says so, and has as many as the writer of the
\* entry asked for.
OmissionsHaveCauses ==
    /\ \A c \in Containers : call[c].pc = "answered" =>
         /\ Explained(call[c].answer, job[c].image, call[c].limit)
         /\ call[c].limit # call[c].topK => call[c].answer.hit
    /\ \A image \in Images : cache[image].kind = "answer" =>
         Explained(cache[image].answer, image, cache[image].limit)

\* "Hash every retrieval-affecting value" (cache.py:119), "all retrieval limits"
\* (docs/17:167): whatever was cached before, a call gets as many parents as it
\* asked for itself, or is told why not.
OmissionsAreDeclared ==
    \A c \in Containers : call[c].pc = "answered" =>
        Explained(call[c].answer, job[c].image, call[c].topK)

=============================================================================
