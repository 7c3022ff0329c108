----------------------------- MODULE Preferences -----------------------------
(***************************************************************************)
(* The preferences one user asked to remember (app/memory), in a namespace *)
(* of their own: the memory node of several planning runs, on different    *)
(* threads, stores those its request names and then lists them all, while  *)
(* the preference routes list and delete.                                  *)
(*                                                                         *)
(* A preference is its normalised form, from which its key is made; when   *)
(* it was first stored, its category and its thread are left out.          *)
(***************************************************************************)
EXTENDS Naturals, FiniteSets

CONSTANTS
    Values,       \* normalised preferences
    Runs,         \* planning runs with this user's context, each run once
    Removals,     \* DELETE requests
    ListLimit     \* what asearch returns at most (1000)

ASSUME PreferencesAssumption ==
    /\ IsFiniteSet(Values)
    /\ ListLimit \in Nat

VARIABLES
    memory,       \* the preferences in the store
    node,         \* the runs' memory_context_node
    removal       \* the DELETE requests

memoryVars == <<memory, node, removal>>

-----------------------------------------------------------------------------
(* State.                                                                   *)

\* asked: preferences_to_remember; rest: those still to be stored; listed:
\* remembered_preferences, what the node returns; gone, history: what was
\* deleted while the node ran; crowded, history: the list had to be cut.
Node == [pc: {"off", "upsert", "list", "done", "failed", "cancelled"},
         asked: SUBSET Values, rest: SUBSET Values, listed: SUBSET Values,
         gone: SUBSET Values, crowded: BOOLEAN]

Removal == [pc: {"look", "delete", "deleted", "missing", "failed"}, value: Values]

MemoryTypeOK ==
    /\ memory \in SUBSET Values
    /\ node \in [Runs -> Node]
    /\ removal \in [Removals -> Removal]

MemoryInit ==
    /\ memory = {}
    /\ node \in [Runs -> [pc: {"off"}, asked: SUBSET Values, rest: {{}}, listed: {{}},
                          gone: {{}}, crowded: {FALSE}]]
    /\ removal \in [Removals -> [pc: {"look"}, value: Values]]

-----------------------------------------------------------------------------
(* memory_context_node.                                                     *)

\* What it was asked to remember, once each.  With nothing to remember it only
\* lists; with something, a missing store or thread fails it at once.
Remember(r) ==
    /\ node[r].pc = "off"
    /\ node' = [node EXCEPT ![r].pc = IF node[r].asked = {} THEN "list" ELSE "upsert",
                            ![r].rest = node[r].asked]
    /\ UNCHANGED <<memory, removal>>

\* One round of upsert_explicit_preferences.  It reads the record first, but
\* only to keep its date, and a record deleted meanwhile is stored again.
UpsertOne(r) ==
    /\ node[r].pc = "upsert"
    /\ \E v \in node[r].rest :
         /\ memory' = memory \union {v}
         /\ node' = [node EXCEPT ![r].rest = @ \ {v}, ![r].gone = @ \ {v},
                                 ![r].pc = IF node[r].rest = {v} THEN "list" ELSE @]
    /\ UNCHANGED removal

\* list_user_preferences: all of them, or as many as the limit admits.
ListMemories(r) ==
    /\ node[r].pc = "list"
    /\ \E listed \in SUBSET memory :
         /\ \/ listed = memory
            \/ Cardinality(memory) > ListLimit /\ Cardinality(listed) = ListLimit
         /\ Cardinality(listed) <= ListLimit
         /\ node' = [node EXCEPT ![r].listed = listed, ![r].pc = "done",
                                 ![r].crowded = Cardinality(memory) > ListLimit]
    /\ UNCHANGED <<memory, removal>>

\* Mutant of StoreFails: a preference that cannot be stored is passed over.
StoreFailsQuietly(r) ==
    /\ node[r].pc \in {"upsert", "list"}
    /\ \/ /\ node[r].pc = "upsert"
          /\ \E v \in node[r].rest :
               node' = [node EXCEPT ![r].rest = @ \ {v},
                                    ![r].pc = IF node[r].rest = {v} THEN "list" ELSE @]
       \/ node' = [node EXCEPT ![r].pc = "failed"]
    /\ UNCHANGED <<memory, removal>>

\* Any error of the store ends the node with store_unavailable, and a client
\* that leaves cancels it; what was stored before stays.
StoreFails(r) ==
    /\ node[r].pc \in {"off", "upsert", "list"}
    /\ \E pc \in {"failed", "cancelled"} : node' = [node EXCEPT ![r].pc = pc]
    /\ UNCHANGED <<memory, removal>>

-----------------------------------------------------------------------------
(* delete_user_preference: it looks whether the preference is there, and     *)
(* deletes whatever is there then.                                           *)

Look(d) ==
    /\ removal[d].pc = "look"
    /\ removal' = [removal EXCEPT ![d].pc = IF removal[d].value \in memory THEN "delete"
                                            ELSE "missing"]
    /\ UNCHANGED <<memory, node>>

Delete(d) ==
    /\ removal[d].pc = "delete"
    /\ memory' = memory \ {removal[d].value}
    /\ node' = [r \in Runs |-> [node[r] EXCEPT !.gone = @ \union {removal[d].value}]]
    /\ \E pc \in {"deleted", "failed"} : removal' = [removal EXCEPT ![d].pc = pc]

LookFails(d) ==
    /\ removal[d].pc \in {"look", "delete"}
    /\ removal' = [removal EXCEPT ![d].pc = "failed"]
    /\ UNCHANGED <<memory, node>>

-----------------------------------------------------------------------------
MemoryNext ==
    \/ \E r \in Runs : Remember(r) \/ UpsertOne(r) \/ ListMemories(r) \/ StoreFails(r)
    \/ \E d \in Removals : Look(d) \/ Delete(d) \/ LookFails(d)

MemorySpec == MemoryInit /\ [][MemoryNext]_memoryVars

-----------------------------------------------------------------------------
(* Properties.                                                              *)

\* A run that goes on to plan sees every preference its request asked to
\* remember, whatever other runs of the user store at the same time: only a
\* deletion that came after it was stored takes one away, or a list that is cut.
\* And it sees nothing that no run was asked to remember.
RememberedIsListed ==
    \A r \in Runs : node[r].pc = "done" =>
        /\ node[r].asked \subseteq node[r].listed \union node[r].gone \/ node[r].crowded
        /\ node[r].listed \subseteq UNION {node[q].asked : q \in Runs}

=============================================================================
