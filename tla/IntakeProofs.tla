---------------------------- MODULE IntakeProofs ----------------------------
(* Theorems about Intake, for every set of requests, drafts and events.     *)
EXTENDS Intake, TLAPS

-----------------------------------------------------------------------------
(* Type correctness.                                                        *)

\* What the helpers that end or move a handler do to the table of calls.
LEMMA MovesAreTyped ==
    ASSUME TypeOK, NEW r \in Requests
    PROVE  /\ End(r) => call' \in [Requests -> Call]
           /\ \A pc \in Points : Goto(r, pc) => call' \in [Requests -> Call]
           /\ \A pc \in Points, rec \in Record :
                  GotoWith(r, pc, rec) => call' \in [Requests -> Call]
           /\ EndUndo(r) => call' \in [Requests -> Call]
<1>1. IdleCall \in Call
  BY IntakeAssumption DEF IdleCall, Call, NoIntake, Record, Statuses, Ops, Points, Drafts
<1>2. call[r] \in Call
  BY DEF TypeOK
<1>3. End(r) => call' \in [Requests -> Call]
  BY <1>1 DEF End, TypeOK
<1>4. ASSUME NEW pc \in Points, Goto(r, pc) PROVE call' \in [Requests -> Call]
  <2>1. [call[r] EXCEPT !.pc = pc] \in Call
    BY <1>2 DEF Call
  <2> QED
    BY <1>4, <2>1 DEF Goto, TypeOK
<1>5. ASSUME NEW pc \in Points, NEW rec \in Record, GotoWith(r, pc, rec)
      PROVE  call' \in [Requests -> Call]
  <2>1. [call[r] EXCEPT !.pc = pc, !.rec = rec] \in Call
    BY <1>2 DEF Call
  <2> QED
    BY <1>5, <2>1 DEF GotoWith, TypeOK
<1>6. EndUndo(r) => call' \in [Requests -> Call]
  <2>1. "undo_load" \in Points
    BY DEF Points, LoadPoints
  <2>2. [call[r] EXCEPT !.pc = "undo_load", !.again = FALSE] \in Call
    BY <1>2, <2>1 DEF Call
  <2> QED
    BY <1>3, <2>2 DEF EndUndo, TypeOK
<1> QED
  BY <1>3, <1>4, <1>5, <1>6

\* The records the handlers build from what they loaded are records.
LEMMA RecordsAreTyped ==
    ASSUME NEW s \in Record
    PROVE  /\ FreshIntake(s) \in Record
           /\ \A d \in Drafts, bad \in BOOLEAN : Turn(s, d, bad) \in Record
           /\ \A status \in Statuses :
                  [s EXCEPT !.status = status, !.version = @ + 1] \in Record
           /\ [s EXCEPT !.status = "planned", !.plan = TRUE, !.version = @ + 1] \in Record
<1>v. s.version + 1 \in Nat
  <2>1. s.version \in Nat
    BY DEF Record
  <2> QED
    BY <2>1
<1>1. NoIntake \in Record
  BY IntakeAssumption DEF NoIntake, Record, Statuses, Drafts
<1>2. FreshIntake(s) \in Record
  BY <1>1, <1>v DEF FreshIntake, Record, Statuses
<1>3. \A d \in Drafts, bad \in BOOLEAN : Turn(s, d, bad) \in Record
  BY DEF Turn, Record, Statuses
<1>4. \A status \in Statuses : [s EXCEPT !.status = status, !.version = @ + 1] \in Record
  BY <1>v DEF Record
<1>5. [s EXCEPT !.status = "planned", !.plan = TRUE, !.version = @ + 1] \in Record
  BY <1>v DEF Record, Statuses
<1> QED
  BY <1>2, <1>3, <1>4, <1>5

\* A call that begins is a call.
LEMMA BeginsAreTyped ==
    ASSUME TypeOK, NEW r \in Requests, NEW op \in Ops, NEW pc \in Points,
           NEW d \in Drafts, NEW long \in BOOLEAN, Begin(r, op, pc, d, long)
    PROVE  TypeOK'
<1>1. [IdleCall EXCEPT !.op = op, !.pc = pc, !.draft = d, !.long = long] \in Call
  BY IntakeAssumption DEF IdleCall, Call, NoIntake, Record, Statuses, Drafts
<1> QED
  BY <1>1 DEF Begin, TypeOK, OnlyCall

\* The steps of one handler keep the types, whatever the environment does.
LEMMA HandlerKeepsTypes ==
    ASSUME TypeOK, NEW r \in Requests,
           Start(r) \/ Progress(r) \/ Superstep(r)
    PROVE  TypeOK'
<1> USE DEF OnlyCall, OnlyStore
<1>a. call[r] \in Call /\ call[r].rec \in Record /\ stored \in Record
  BY DEF TypeOK, Call
<1>p. /\ "extract" \in Points /\ "prepare" \in Points /\ "running" \in Points
      /\ "deliver" \in Points /\ "load" \in Points /\ "reset_load" \in Points
      /\ "begin_load" \in Points /\ "planned_load" \in Points
      /\ "undo_load" \in Points /\ "save" \in Points /\ "reset_save" \in Points
      /\ "begin_save" \in Points /\ "planned_save" \in Points /\ "undo_save" \in Points
  BY DEF Points, LoadPoints, SavePoints
<1>d. EmptyDraft \in Drafts
  BY IntakeAssumption DEF Drafts
<1>1. CASE StartMessage(r)
  BY <1>1, <1>p, <1>d, BeginsAreTyped DEF StartMessage, Ops
<1>2. CASE StartNewTrip(r)
  BY <1>2, <1>p, <1>d, BeginsAreTyped DEF StartNewTrip, Ops
<1>3. CASE StartReset(r)
  BY <1>3, <1>p, <1>d, BeginsAreTyped DEF StartReset, Ops
<1>4. CASE StartConfirm(r)
  <2>1. PICK op \in Confirming, d \in Drafts, long \in BOOLEAN :
            Begin(r, op, "begin_load", d, long)
    BY <1>4 DEF StartConfirm
  <2> QED
    BY <2>1, <1>p, BeginsAreTyped DEF Ops
<1>5. CASE StartDirect(r)
  <2>1. PICK d \in Complete :
            call' = [call EXCEPT ![r] = [IdleCall EXCEPT !.op = "direct",
                        !.pc = "running", !.draft = d, !.rec.draft = d]]
    BY <1>5 DEF StartDirect
  <2>2. d \in Drafts
    BY <2>1 DEF Drafts
  <2>3. [NoIntake EXCEPT !.draft = d] \in Record
    BY <2>2, IntakeAssumption DEF NoIntake, Record, Statuses, Drafts
  <2>4. [IdleCall EXCEPT !.op = "direct", !.pc = "running", !.draft = d,
                         !.rec.draft = d] \in Call
    BY <1>p, <1>d, <2>2, <2>3 DEF IdleCall, Call, Ops
  <2> QED
    BY <1>5, <2>1, <2>4 DEF StartDirect, TypeOK
<1>6. CASE MessageLoad(r)
  BY <1>6, <1>a, <1>p, MovesAreTyped DEF MessageLoad, TypeOK
<1>7. CASE ResetLoad(r)
  BY <1>7, <1>a, <1>p, MovesAreTyped, RecordsAreTyped DEF ResetLoad, TypeOK
<1>8. CASE ResetSave(r)
  BY <1>8, <1>a, <1>p, MovesAreTyped DEF ResetSave, TypeOK
<1>9. CASE AnswerCountry(r)
  <2>1. call[r].rec.draft \in Drafts /\ WithNationality \subseteq Drafts
    BY <1>a, IntakeAssumption DEF Record
  <2>2. \E d \in Drafts, bad \in BOOLEAN :
            GotoWith(r, "save", Turn(call[r].rec, d, bad))
    BY <1>9, <2>1 DEF AnswerCountry
  <2>3. call' \in [Requests -> Call]
    BY <2>2, <1>a, <1>p, MovesAreTyped, RecordsAreTyped
  <2> QED
    BY <1>9, <2>3 DEF AnswerCountry, TypeOK
<1>10. CASE ExtractPatch(r)
  <2>1. call[r].rec.invalid \in BOOLEAN
    BY <1>a DEF Record
  <2>2. PICK d \in Drafts, cleared \in BOOLEAN :
            GotoWith(r, "save", Turn(call[r].rec, d, call[r].rec.invalid /\ ~cleared))
    BY <1>10 DEF ExtractPatch
  <2>3. (call[r].rec.invalid /\ ~cleared) \in BOOLEAN
    OBVIOUS
  <2>4. Turn(call[r].rec, d, call[r].rec.invalid /\ ~cleared) \in Record
    BY <1>a, <2>3, RecordsAreTyped
  <2>5. call' \in [Requests -> Call]
    BY <2>2, <2>4, <1>p, MovesAreTyped
  <2> QED
    BY <1>10, <2>5 DEF ExtractPatch, TypeOK
<1>11. CASE ExtractFails(r)
  BY <1>11, MovesAreTyped DEF ExtractFails, TypeOK
<1>12. CASE MessageSave(r)
  BY <1>12, <1>a, MovesAreTyped DEF MessageSave, TypeOK
<1>13. CASE BeginLoad(r)
  <2>1. [stored EXCEPT !.status = "planning", !.version = @ + 1] \in Record
    BY <1>a, RecordsAreTyped DEF Statuses
  <2> QED
    BY <1>13, <2>1, <1>p, MovesAreTyped DEF BeginLoad, TypeOK
<1>14. CASE BeginSave(r)
  BY <1>14, <1>a, <1>p, MovesAreTyped DEF BeginSave, TypeOK
<1>15. CASE Prepare(r)
  BY <1>15, <1>p, MovesAreTyped DEF Prepare, TypeOK
<1>16. CASE GraphSucceeds(r)
  <2>1. call[r].rec.draft \in Drafts
    BY <1>a DEF Record
  <2> QED
    BY <1>16, <2>1, <1>p, MovesAreTyped DEF GraphSucceeds, TypeOK
<1>17. CASE GraphFails(r)
  BY <1>17, <1>p, MovesAreTyped DEF GraphFails, TypeOK
<1>18. CASE Deliver(r)
  BY <1>18, <1>p, MovesAreTyped DEF Deliver, TypeOK
<1>19. CASE PlannedLoad(r)
  <2>1. [stored EXCEPT !.status = "planned", !.plan = TRUE, !.version = @ + 1] \in Record
    BY <1>a, RecordsAreTyped
  <2> QED
    BY <1>19, <2>1, <1>p, MovesAreTyped DEF PlannedLoad, TypeOK
<1>20. CASE PlannedSave(r)
  BY <1>20, <1>a, MovesAreTyped DEF PlannedSave, TypeOK
<1>21. CASE UndoLoad(r)
  <2>1. [stored EXCEPT !.status = "awaiting", !.version = @ + 1] \in Record
    BY <1>a, RecordsAreTyped DEF Statuses
  <2> QED
    BY <1>21, <2>1, <1>p, MovesAreTyped DEF UndoLoad, TypeOK
<1>22. CASE UndoSave(r)
  BY <1>22, <1>a, MovesAreTyped DEF UndoSave, TypeOK
<1>23. CASE Superstep(r)
  BY <1>23 DEF Superstep, TypeOK
<1> QED
  BY <1>1, <1>2, <1>3, <1>4, <1>5, <1>6, <1>7, <1>8, <1>9, <1>10, <1>11, <1>12,
     <1>13, <1>14, <1>15, <1>16, <1>17, <1>18, <1>19, <1>20, <1>21, <1>22, <1>23
     DEF Start, Progress

LEMMA FailureKeepsTypes ==
    ASSUME TypeOK, NEW r \in Requests,
           StoreError(r) \/ Cancel(r) \/ CancelUndo(r)
    PROVE  TypeOK'
<1> USE DEF OnlyCall, OnlyStore
<1>a. call[r] \in Call /\ call[r].rec \in Record
  BY DEF TypeOK, Call
<1>p. "undo_load" \in Points
  BY DEF Points, LoadPoints
<1>c. /\ [call[r] EXCEPT !.pc = "undo_load", !.gone = TRUE] \in Call
      /\ [call[r] EXCEPT !.pc = "undo_load", !.again = FALSE] \in Call
      /\ \A b \in BOOLEAN : [call[r] EXCEPT !.gone = TRUE, !.again = b] \in Call
  BY <1>a, <1>p DEF Call
<1>1. CASE StoreError(r)
  BY <1>1, <1>a, <1>p, MovesAreTyped DEF StoreError, TypeOK
<1>2. CASE Cancel(r)
  <2>1. call' \in [Requests -> Call]
    BY <1>2, <1>c, MovesAreTyped DEF Cancel, TypeOK
  <2> QED
    BY <1>2, <1>a, <2>1 DEF Cancel, TypeOK
<1>3. CASE CancelUndo(r)
  <2>1. (call[r].op = "stream") \in BOOLEAN
    OBVIOUS
  <2>2. call' \in [Requests -> Call]
    BY <1>3, <1>c, <2>1, MovesAreTyped DEF CancelUndo, TypeOK
  <2> QED
    BY <1>3, <2>2 DEF CancelUndo, TypeOK
<1> QED
  BY <1>1, <1>2, <1>3

LEMMA NextKeepsTypes == TypeOK /\ [Next]_vars => TypeOK'
<1> SUFFICES ASSUME TypeOK, [Next]_vars PROVE TypeOK'
  OBVIOUS
<1>1. ASSUME NEW r \in Requests, Start(r) \/ Progress(r) \/ Superstep(r)
      PROVE  TypeOK'
  BY <1>1, HandlerKeepsTypes
<1>2. ASSUME NEW r \in Requests, StoreError(r) \/ Cancel(r) \/ CancelUndo(r)
      PROVE  TypeOK'
  BY <1>2, FailureKeepsTypes
<1>3. CASE Restart
  <2>1. IdleCall \in Call
    BY IntakeAssumption DEF IdleCall, Call, NoIntake, Record, Statuses, Ops, Points, Drafts
  <2> QED
    BY <1>3, <2>1 DEF Restart, TypeOK
<1>4. CASE UNCHANGED vars
  BY <1>4 DEF vars, TypeOK
<1> QED
  BY <1>1, <1>2, <1>3, <1>4 DEF Next

\* The store, the handlers and the checkpoint always hold values of their
\* types: no handler builds a record the intake schema does not have.
THEOREM TypeCorrect == Spec => []TypeOK
<1>1. Init => TypeOK
  <2>1. IdleCall \in Call /\ NoIntake \in Record
    BY IntakeAssumption DEF IdleCall, Call, NoIntake, Record, Statuses, Ops, Points, Drafts
  <2> QED
    BY <2>1 DEF Init, TypeOK
<1> QED
  BY <1>1, NextKeepsTypes, PTL DEF Spec

-----------------------------------------------------------------------------
(* A planned trip has a plan, and a run has its client's consent.           *)
(*                                                                         *)
(* PlannedIsBacked is not inductive: mark_planned writes what an earlier    *)
(* await left in the handler.  Provenance says what each handler holds at   *)
(* each of its awaits; together they are inductive.                         *)

\* A handler touches no other handler, and forgets no plan.
LEMMA HandlerFrame ==
    ASSUME TypeOK, NEW r \in Requests,
           \/ Start(r) \/ Progress(r) \/ Superstep(r)
           \/ StoreError(r) \/ Cancel(r) \/ CancelUndo(r)
    PROVE  /\ \A q \in Requests : q # r => call'[q] = call[q]
           /\ needNationality' = needNationality
           /\ env' = env
           /\ succeeded \subseteq succeeded'
<1>a. call \in [Requests -> Call]
  BY DEF TypeOK
<1> USE DEF OnlyCall, OnlyStore, Goto, GotoWith, End
<1>1. CASE Start(r)
  BY <1>1, <1>a DEF Start, StartMessage, StartNewTrip, StartReset, StartConfirm,
                    StartDirect, Begin
<1>2. CASE Progress(r)
  BY <1>2, <1>a DEF Progress, MessageLoad, ResetLoad, ResetSave, AnswerCountry,
                    ExtractPatch, ExtractFails, MessageSave, BeginLoad, BeginSave,
                    Prepare, GraphSucceeds, GraphFails, Deliver, PlannedLoad,
                    PlannedSave, UndoLoad, UndoSave, EndUndo
<1>3. CASE Superstep(r)
  BY <1>3 DEF Superstep
<1>4. CASE StoreError(r) \/ Cancel(r) \/ CancelUndo(r)
  BY <1>4, <1>a DEF StoreError, Cancel, CancelUndo, EndUndo
<1> QED
  BY <1>1, <1>2, <1>3, <1>4

\* Provenance of a handler that did not move survives the others' steps.
LEMMA OthersKeepProvenance ==
    ASSUME NEW q \in Requests, Provenance(q), call'[q] = call[q],
           needNationality' = needNationality, env' = env,
           succeeded \subseteq succeeded'
    PROVE  Provenance(q)'
BY DEF Provenance, Ready

\* A handler's own step leaves it with a record it may save.
LEMMA StepKeepsProvenance ==
    ASSUME Backing, NEW r \in Requests,
           \/ Start(r) \/ Progress(r) \/ Superstep(r)
           \/ StoreError(r) \/ Cancel(r) \/ CancelUndo(r)
    PROVE  Provenance(r)'
<1> USE DEF OnlyCall, OnlyStore
<1>a. call \in [Requests -> Call] /\ call[r] \in Call /\ stored \in Record
  BY DEF Backing, TypeOK
<1>b. Provenance(r) /\ PlannedIsBacked
  BY DEF Backing
<1>e. env' = env
  BY HandlerFrame DEF Backing
<1>c. End(r) => Provenance(r)'
  BY <1>a DEF End, IdleCall, Provenance
<1>u. EndUndo(r) /\ At(r, "undo_load") => Provenance(r)'
  BY <1>a, <1>b, <1>c DEF EndUndo, At, Call, Provenance
<1>v. EndUndo(r) /\ At(r, "undo_save") => Provenance(r)'
  BY <1>a, <1>b, <1>c DEF EndUndo, At, Call, Provenance
<1>g. \A pc, rec : GotoWith(r, pc, rec) =>
          /\ call'[r].pc = pc /\ call'[r].rec = rec /\ call'[r].op = call[r].op
          /\ call'[r].draft = call[r].draft /\ call'[r].long = call[r].long
  BY <1>a DEF GotoWith, Call
<1>1. CASE StartMessage(r) \/ StartNewTrip(r) \/ StartReset(r)
  <2>1. call'[r].pc \in {"load", "reset_load"} /\ call'[r].long = FALSE
    BY <1>1, <1>a DEF StartMessage, StartNewTrip, StartReset, Begin, IdleCall
  <2> QED
    BY <2>1 DEF Provenance
<1>2. CASE StartConfirm(r)
  BY <1>2, <1>a DEF StartConfirm, Begin, IdleCall, Provenance, Confirming
<1>3. CASE StartDirect(r)
  BY <1>3, <1>a DEF StartDirect, IdleCall, Provenance, Confirming
<1>4. CASE MessageLoad(r)
  BY <1>4, <1>a, <1>b, <1>c DEF MessageLoad, GotoWith, Call, Provenance
<1>5. CASE ResetLoad(r)
  <2>1. FreshIntake(stored).status = "collecting"
    BY DEF FreshIntake, NoIntake
  <2> QED
    BY <1>5, <1>a, <1>b, <2>1 DEF ResetLoad, GotoWith, Call, Provenance
<1>6. CASE ResetSave(r)
  BY <1>6, <1>a, <1>b, <1>c DEF ResetSave, Goto, Call, Provenance
<1>7. CASE AnswerCountry(r) \/ ExtractPatch(r)
  <2>1. \A s \in Record : \A d, bad : Turn(s, d, bad).status \in {"awaiting", "collecting"}
    BY DEF Turn
  <2>2. call[r].rec \in Record
    BY <1>a DEF Call
  <2>3. CASE AnswerCountry(r)
    <3>1. PICK d, bad : GotoWith(r, "save", Turn(call[r].rec, d, bad))
      BY <2>3 DEF AnswerCountry
    <3> QED
      BY <3>1, <1>b, <1>e, <1>g, <2>1, <2>2 DEF Provenance
  <2>4. CASE ExtractPatch(r)
    <3>1. PICK d, bad : GotoWith(r, "save", Turn(call[r].rec, d, bad))
      BY <2>4 DEF ExtractPatch
    <3> QED
      BY <3>1, <1>b, <1>e, <1>g, <2>1, <2>2 DEF Provenance
  <2> QED
    BY <1>7, <2>3, <2>4
<1>8. CASE ExtractFails(r) \/ MessageSave(r) \/ PlannedSave(r)
  BY <1>8, <1>c DEF ExtractFails, MessageSave, PlannedSave
<1>9. CASE BeginLoad(r)
  <2>1. [stored EXCEPT !.status = "planning", !.version = @ + 1].status = "planning"
        /\ [stored EXCEPT !.status = "planning", !.version = @ + 1].draft = stored.draft
    BY <1>a DEF Record
  <2>2. ASSUME MayConfirm(r),
               GotoWith(r, "begin_save", [stored EXCEPT !.status = "planning",
                                                        !.version = @ + 1])
        PROVE  Provenance(r)'
    <3> DEFINE begun == [stored EXCEPT !.status = "planning", !.version = @ + 1]
    <3>1. begun.status = "planning" /\ begun.draft = stored.draft /\ GotoWith(r, "begin_save", begun)
      BY <2>1, <2>2
    <3> HIDE DEF begun
    <3>2. /\ call'[r].pc = "begin_save" /\ call'[r].rec = begun /\ call'[r].op = call[r].op
          /\ call'[r].draft = call[r].draft /\ call'[r].long = call[r].long
      BY <3>1, <1>g
    <3>3. call[r].draft = stored.draft /\ Ready(call'[r].draft)
      BY <2>2, <3>2 DEF MayConfirm
    <3>4. Ready(call[r].draft)'
      BY <3>3, <1>9 DEF BeginLoad, Ready
    <3>5. call[r].op \in Confirming /\ (call[r].long => "long_preferences" \in env)
      BY <1>9, <1>b DEF BeginLoad, At, Provenance
    <3> QED
      BY <3>1, <3>2, <3>3, <3>4, <3>5, <1>e DEF Provenance
  <2> QED
    BY <1>9, <1>c, <2>2 DEF BeginLoad
<1>10. CASE BeginSave(r)
  BY <1>10, <1>a, <1>b, <1>c DEF BeginSave, Goto, At, Call, Provenance, Ready
<1>11. CASE Prepare(r)
  BY <1>11, <1>a, <1>b DEF Prepare, Goto, At, Call, Provenance, Ready
<1>12. CASE GraphSucceeds(r)
  BY <1>12, <1>a, <1>b, <1>c
     DEF GraphSucceeds, Goto, At, Call, Provenance, Confirming
<1>13. CASE GraphFails(r)
  BY <1>13, <1>a, <1>b, <1>c DEF GraphFails, Goto, At, Call, Provenance
<1>14. CASE Deliver(r)
  BY <1>14, <1>a, <1>b DEF Deliver, Goto, At, Call, Provenance
<1>15. CASE PlannedLoad(r)
  <2> DEFINE marked == [stored EXCEPT !.status = "planned", !.plan = TRUE,
                                      !.version = @ + 1]
  <2>1. marked.status = "planned" /\ marked.plan /\ marked.draft = stored.draft
    BY <1>a DEF Record
  <2>2. CASE Goto(r, "undo_load")
    BY <1>15, <2>2, <1>a, <1>b DEF PlannedLoad, Goto, At, Call, Provenance
  <2>3. CASE stored.draft = call[r].draft /\ GotoWith(r, "planned_save", marked)
    <3> HIDE DEF marked
    <3>1. call[r].draft \in succeeded /\ succeeded' = succeeded
      BY <1>15, <1>b DEF PlannedLoad, At, Provenance
    <3> QED
      BY <1>15, <1>b, <1>g, <2>1, <2>3, <3>1 DEF PlannedLoad, At, Provenance
  <2> QED
    BY <1>15, <2>2, <2>3 DEF PlannedLoad
<1>16. CASE UndoLoad(r)
  <2> DEFINE undone == [stored EXCEPT !.status = "awaiting", !.version = @ + 1]
  <2>1. undone.status = "awaiting"
    BY <1>a DEF Record
  <2>2. CASE GotoWith(r, "undo_save", undone)
    <3> HIDE DEF undone
    <3> QED
      BY <1>16, <1>b, <1>g, <2>1, <2>2 DEF UndoLoad, At, Provenance
  <2> QED
    BY <1>16, <1>u, <2>2 DEF UndoLoad
<1>17. CASE UndoSave(r)
  BY <1>17, <1>v DEF UndoSave
<1>18. CASE Superstep(r)
  BY <1>18, <1>b DEF Superstep, Provenance, Ready
<1>19. CASE StoreError(r)
  BY <1>19, <1>a, <1>b, <1>c, <1>u, <1>v
     DEF StoreError, Goto, At, LoadPoints, SavePoints, Call, Provenance
<1>20. CASE Cancel(r)
  BY <1>20, <1>a, <1>b, <1>c DEF Cancel, Restored, Call, Provenance
<1>21. CASE CancelUndo(r)
  BY <1>21, <1>a, <1>b, <1>c DEF CancelUndo, At, Call, Provenance, Ready
<1> QED
  BY <1>1, <1>2, <1>3, <1>4, <1>5, <1>6, <1>7, <1>8, <1>9, <1>10, <1>11, <1>12,
     <1>13, <1>14, <1>15, <1>16, <1>17, <1>18, <1>19, <1>20, <1>21
     DEF Start, Progress

\* Only a save changes the store, and each save writes a record of known origin.
LEMMA SavesKeepBacking ==
    ASSUME Backing, NEW r \in Requests,
           \/ Start(r) \/ Progress(r) \/ Superstep(r)
           \/ StoreError(r) \/ Cancel(r) \/ CancelUndo(r)
    PROVE  PlannedIsBacked'
<1>a. PlannedIsBacked /\ Provenance(r) /\ succeeded \subseteq succeeded'
  BY HandlerFrame DEF Backing
<1>1. \/ UNCHANGED stored
      \/ call[r].pc \in SavePoints /\ stored' = call[r].rec
  <2> USE DEF OnlyCall, OnlyStore, At, SavePoints
  <2>1. CASE Start(r)
    BY <2>1 DEF Start, StartMessage, StartNewTrip, StartReset, StartConfirm,
                StartDirect, Begin
  <2>2. CASE Progress(r)
    BY <2>2 DEF Progress, MessageLoad, ResetLoad, ResetSave, AnswerCountry,
                ExtractPatch, ExtractFails, MessageSave, BeginLoad, BeginSave,
                Prepare, GraphSucceeds, GraphFails, Deliver, PlannedLoad,
                PlannedSave, UndoLoad, UndoSave
  <2>3. CASE Superstep(r) \/ StoreError(r) \/ Cancel(r) \/ CancelUndo(r)
    BY <2>3 DEF Superstep, StoreError, Cancel, CancelUndo
  <2> QED
    BY <2>1, <2>2, <2>3
<1>2. CASE UNCHANGED stored
  BY <1>2, <1>a DEF PlannedIsBacked
<1>3. CASE call[r].pc \in SavePoints /\ stored' = call[r].rec
  BY <1>3, <1>a DEF SavePoints, Provenance, PlannedIsBacked
<1> QED
  BY <1>1, <1>2, <1>3

LEMMA NextKeepsBacking == Backing /\ [Next]_vars => Backing'
<1> SUFFICES ASSUME Backing, [Next]_vars PROVE Backing'
  OBVIOUS
<1>t. TypeOK /\ TypeOK'
  BY NextKeepsTypes DEF Backing
<1>1. ASSUME NEW r \in Requests,
             \/ Start(r) \/ Progress(r) \/ Superstep(r)
             \/ StoreError(r) \/ Cancel(r) \/ CancelUndo(r)
      PROVE  Backing'
  <2>1. ASSUME NEW q \in Requests PROVE Provenance(q)'
    <3>1. CASE q = r
      BY <3>1, <1>1, StepKeepsProvenance
    <3>2. CASE q # r
      BY <3>2, <1>1, <1>t, HandlerFrame, OthersKeepProvenance DEF Backing
    <3> QED
      BY <3>1, <3>2
  <2>2. PlannedIsBacked'
    BY <1>1, SavesKeepBacking
  <2> QED
    BY <2>1, <2>2, <1>t DEF Backing
<1>2. CASE Restart
  <2>1. PlannedIsBacked'
    BY <1>2 DEF Restart, PlannedIsBacked, Backing
  <2>2. ASSUME NEW q \in Requests PROVE Provenance(q)'
    BY <1>2 DEF Restart, IdleCall, Provenance
  <2> QED
    BY <2>1, <2>2, <1>t DEF Backing
<1>3. CASE UNCHANGED vars
  <2>1. ASSUME NEW q \in Requests PROVE Provenance(q)'
    BY <1>3, OthersKeepProvenance DEF vars, Backing
  <2> QED
    BY <1>3, <1>t, <2>1 DEF vars, PlannedIsBacked, Backing
<1> QED
  BY <1>1, <1>2, <1>3 DEF Next

LEMMA BackingHolds == Spec => []Backing
<1>1. Init => Backing
  <2>1. Init => TypeOK
    <3>1. IdleCall \in Call /\ NoIntake \in Record
      BY IntakeAssumption DEF IdleCall, Call, NoIntake, Record, Statuses, Ops, Points, Drafts
    <3> QED
      BY <3>1 DEF Init, TypeOK
  <2>2. ASSUME Init, NEW r \in Requests PROVE Provenance(r)
    BY <2>2 DEF Init, IdleCall, Provenance
  <2>3. Init => PlannedIsBacked
    BY DEF Init, NoIntake, PlannedIsBacked
  <2> QED
    BY <2>1, <2>2, <2>3 DEF Backing
<1> QED
  BY <1>1, NextKeepsBacking, PTL DEF Spec

\* Under every interleaving, failure, cancellation and restart, a trip is
\* stored as planned only for a draft that some graph run completed.
THEOREM PlannedTripsAreBacked == Spec => []PlannedIsBacked
<1>1. Backing => PlannedIsBacked
  BY DEF Backing
<1> QED
  BY <1>1, BackingHolds, PTL

\* A confirmed run plans the draft its client named, complete for the settings
\* of the process that runs it.
THEOREM ConfirmedRunsAreConsented == Spec => []RunsAreConsented
<1>1. Backing => RunsAreConsented
  BY DEF Backing, Provenance, RunsAreConsented, At
<1> QED
  BY <1>1, BackingHolds, PTL

-----------------------------------------------------------------------------
(* A planning status has a workflow behind it, while nothing fails.         *)

\* No confirmation remembers a text the planning request will not accept.
ShortPreferences == \A e \in Envs : "long_preferences" \notin e

\* A confirmation that will still write the outcome of its run stays one.
LEMMA WorkflowGoesOn ==
    ASSUME Backing, NEW r \in Requests, Holding(r),
           stored.status = "planning", stored.draft = call[r].draft,
           Progress(r) \/ Superstep(r), UNCHANGED stored
    PROVE  Holding(r)' /\ call'[r].draft = call[r].draft
<1>a. call \in [Requests -> Call] /\ call[r] \in Call
  BY DEF Backing, TypeOK
<1>b. \A pc : Goto(r, pc) =>
          call'[r].pc = pc /\ call'[r].op = call[r].op /\ call'[r].draft = call[r].draft
  BY <1>a DEF Goto, Call
<1>c. \A pc, rec : GotoWith(r, pc, rec) =>
          call'[r].pc = pc /\ call'[r].op = call[r].op /\ call'[r].draft = call[r].draft
  BY <1>a DEF GotoWith, Call
<1>h. call[r].op \in Confirming
  BY DEF Holding
<1>1. CASE Prepare(r) \/ Deliver(r)
  BY <1>1, <1>b DEF Prepare, Deliver, Holding
<1>2. CASE GraphSucceeds(r) \/ GraphFails(r)
  BY <1>2, <1>b, <1>h DEF GraphSucceeds, GraphFails, Holding, Confirming
<1>3. CASE PlannedLoad(r)
  BY <1>3, <1>b, <1>c, <1>h DEF PlannedLoad, Holding
<1>4. CASE UndoLoad(r)
  BY <1>4, <1>c, <1>h DEF UndoLoad, Holding
<1>5. CASE PlannedSave(r) \/ UndoSave(r)
  <2>1. stored'.status \in {"planned", "awaiting"}
    BY <1>5 DEF PlannedSave, UndoSave, At, Backing, Provenance
  <2> QED
    BY <2>1
<1>6. CASE Superstep(r)
  BY <1>6 DEF Superstep, Holding
<1> QED
  BY <1>1, <1>2, <1>3, <1>4, <1>5, <1>6
     DEF Progress, Holding, At, MessageLoad, ResetLoad, ResetSave, AnswerCountry,
         ExtractPatch, ExtractFails, MessageSave, BeginLoad, BeginSave

\* Only begin_confirmation stores a planning status, and it goes on to a run.
LEMMA PlanningIsBegun ==
    ASSUME Backing, ShortPreferences, NEW r \in Requests,
           Start(r) \/ Progress(r) \/ Superstep(r),
           stored' # stored, stored'.status = "planning"
    PROVE  Holding(r)' /\ call'[r].draft = stored'.draft
<1>a. call \in [Requests -> Call] /\ call[r] \in Call /\ Provenance(r)
  BY DEF Backing, TypeOK
<1>b. \A pc : Goto(r, pc) =>
          call'[r].pc = pc /\ call'[r].op = call[r].op /\ call'[r].draft = call[r].draft
  BY <1>a DEF Goto, Call
<1>1. BeginSave(r)
  <2>1. \/ ResetSave(r) \/ MessageSave(r) \/ BeginSave(r)
        \/ PlannedSave(r) \/ UndoSave(r)
    BY DEF Start, StartMessage, StartNewTrip, StartReset, StartConfirm, StartDirect,
           Begin, Progress, Superstep, MessageLoad, ResetLoad, AnswerCountry,
           ExtractPatch, ExtractFails, BeginLoad, Prepare, GraphSucceeds,
           GraphFails, Deliver, PlannedLoad, UndoLoad, OnlyCall
  <2>2. ~(ResetSave(r) \/ MessageSave(r) \/ PlannedSave(r) \/ UndoSave(r))
    BY <1>a DEF ResetSave, MessageSave, PlannedSave, UndoSave, At, Provenance
  <2> QED
    BY <2>1, <2>2
<1>2. ~call[r].long
  BY <1>a DEF Provenance, ShortPreferences, Backing, TypeOK
<1>3. call[r].op \in Confirming /\ call[r].rec.draft = call[r].draft
  BY <1>1, <1>a DEF BeginSave, At, Provenance
<1> QED
  BY <1>1, <1>2, <1>3, <1>b DEF BeginSave, Holding

LEMMA NextKeepsWorkflow ==
    ASSUME ShortPreferences
    PROVE  Backing /\ PlanningHasWorkflow /\ [Next]_vars => PlanningHasWorkflow'
<1> SUFFICES ASSUME Backing, PlanningHasWorkflow, [Next]_vars,
                    Undisturbed', stored'.status = "planning"
             PROVE  \E q \in Requests : Holding(q)' /\ call'[q].draft = stored'.draft
  BY DEF PlanningHasWorkflow
<1>e. Undisturbed
  <2>1. env' = env
    BY HandlerFrame DEF Next, Restart, vars, Backing
  <2> QED
    BY <2>1 DEF Undisturbed
<1>1. ASSUME NEW r \in Requests, Start(r) \/ Progress(r) \/ Superstep(r)
      PROVE  \E q \in Requests : Holding(q)' /\ call'[q].draft = stored'.draft
  <2>1. CASE stored' # stored
    BY <2>1, <1>1, PlanningIsBegun
  <2>2. CASE stored' = stored
    <3>1. PICK w \in Requests : Holding(w) /\ call[w].draft = stored.draft
      BY <2>2, <1>e DEF PlanningHasWorkflow
    <3>2. CASE w # r
      <4>1. call'[w] = call[w]
        BY <3>2, <1>1, HandlerFrame DEF Backing
      <4> QED
        BY <2>2, <3>1, <4>1 DEF Holding
    <3>3. CASE w = r
      <4>1. ~Start(r)
        BY <3>1, <3>3 DEF Holding, Start, StartMessage, StartNewTrip, StartReset,
                          StartConfirm, StartDirect, Begin, MayStart, At
      <4>2. Holding(r)' /\ call'[r].draft = call[r].draft
        BY <1>1, <2>2, <3>1, <3>3, <4>1, WorkflowGoesOn
      <4> QED
        BY <2>2, <3>1, <3>3, <4>2
    <3> QED
      BY <3>2, <3>3
  <2> QED
    BY <2>1, <2>2
<1>2. ASSUME NEW r \in Requests, StoreError(r) \/ Cancel(r) \/ CancelUndo(r)
      PROVE  FALSE
  BY <1>2, <1>e DEF Undisturbed, StoreError, Cancel, CancelUndo
<1>3. CASE Restart
  BY <1>3, <1>e DEF Undisturbed, Restart
<1>4. CASE UNCHANGED vars
  BY <1>4, <1>e DEF vars, PlanningHasWorkflow, Holding
<1> QED
  BY <1>1, <1>2, <1>3, <1>4 DEF Next

\* Whatever calls overlap, a stored planning status has a handler that plans
\* this draft or is about to store the outcome - until a Store call raises, a
\* task is cancelled, the process restarts (Undisturbed) or a remembered
\* preference is too long for the planning request.
THEOREM PlanningIsWorkedOn ==
    ASSUME ShortPreferences
    PROVE  Spec => []PlanningHasWorkflow
<1>1. Init => PlanningHasWorkflow
  BY DEF Init, NoIntake, PlanningHasWorkflow
<1>2. Backing /\ PlanningHasWorkflow /\ [Next]_vars => PlanningHasWorkflow'
  BY NextKeepsWorkflow
<1> QED
  BY <1>1, <1>2, BackingHolds, PTL DEF Spec

-----------------------------------------------------------------------------
(* Callers that serialise their mutations.                                  *)
(*                                                                          *)
(* Then one handler at most is under way, and what it holds fits the store: *)
(* it is what the store holds, or the next mutation of it.                  *)

Settled == {"planned", "planning"}

\* The record a save is about to write, one version on.
Marked(status) == [stored EXCEPT !.status = status, !.version = @ + 1]

Fits(r) ==
    LET c == call[r] IN
    /\ ~c.gone
    /\ c.op # "direct"
    /\ c.pc = "extract" => c.rec = stored /\ stored.status \notin Settled
    /\ c.pc = "save" => c.rec.version = stored.version + 1 /\ stored.status \notin Settled
    /\ c.pc = "reset_save" => c.rec = FreshIntake(stored)
    /\ c.pc = "begin_save" => c.rec = Marked("planning") /\ stored.status = "awaiting"
    /\ c.pc \in {"prepare", "running", "deliver", "planned_load"} =>
         stored.status = "planning" /\ stored.draft = c.draft
    /\ c.pc \in {"deliver", "planned_load"} => checkpoint = c.draft
    /\ c.pc = "planned_save" =>
         /\ c.rec = [Marked("planned") EXCEPT !.plan = TRUE]
         /\ stored.status = "planning" /\ checkpoint = stored.draft
    /\ c.pc = "undo_save" => c.rec = Marked("awaiting") /\ stored.status = "planning"

OneAtATime == \A q, r \in Requests : q = r \/ At(q, "idle") \/ At(r, "idle")

SerialInv == Serialised => PlannedHasPlan /\ OneAtATime /\ \A r \in Requests : Fits(r)

\* What the store may become: what it is, or a later version, which for a
\* planned trip is a fresh one.
Advances ==
    stored' = stored \/ /\ stored'.version > stored.version
                        /\ stored.status = "planned" => stored' = FreshIntake(stored)

\* The records a handler holds are one version on.
LEMMA NextVersions ==
    ASSUME stored \in Record
    PROVE  /\ stored.version + 1 > stored.version
           /\ FreshIntake(stored).version = stored.version + 1
           /\ FreshIntake(stored).status = "collecting"
           /\ \A status \in Statuses :
                /\ Marked(status).version = stored.version + 1
                /\ Marked(status).status = status
                /\ Marked(status).draft = stored.draft
           /\ LET planned == [Marked("planned") EXCEPT !.plan = TRUE] IN
                /\ planned.version = stored.version + 1
                /\ planned.status = "planned"
                /\ planned.draft = stored.draft
                /\ planned = [stored EXCEPT !.status = "planned", !.plan = TRUE,
                                            !.version = @ + 1]
<1>1. stored.version + 1 > stored.version
  BY DEF Record
<1>2. FreshIntake(stored).version = stored.version + 1
      /\ FreshIntake(stored).status = "collecting"
  BY DEF FreshIntake, NoIntake
<1>3. ASSUME NEW status \in Statuses
      PROVE  /\ Marked(status).version = stored.version + 1
             /\ Marked(status).status = status
             /\ Marked(status).draft = stored.draft
  BY DEF Marked, Record
<1>4. LET planned == [Marked("planned") EXCEPT !.plan = TRUE] IN
        /\ planned.version = stored.version + 1
        /\ planned.status = "planned"
        /\ planned.draft = stored.draft
        /\ planned = [stored EXCEPT !.status = "planned", !.plan = TRUE, !.version = @ + 1]
  BY DEF Marked, Record
<1> QED BY <1>1, <1>2, <1>3, <1>4

\* A handler that has not begun changes neither the store nor the checkpoint.
LEMMA BeginningsAreQuiet ==
    ASSUME NEW r \in Requests, At(r, "idle"),
           \/ Start(r) \/ Progress(r) \/ Superstep(r)
           \/ StoreError(r) \/ Cancel(r) \/ CancelUndo(r)
    PROVE  Start(r) /\ UNCHANGED <<stored, checkpoint>>
<1>1. Start(r)
  BY DEF At, Progress, MessageLoad, ResetLoad, ResetSave, AnswerCountry, ExtractPatch,
         ExtractFails, MessageSave, BeginLoad, BeginSave, Prepare, GraphSucceeds,
         GraphFails, Deliver, PlannedLoad, PlannedSave, UndoLoad, UndoSave, Superstep,
         StoreError, Cancel, CancelUndo, LoadPoints, SavePoints
<1> QED
  BY <1>1 DEF Start, StartMessage, StartNewTrip, StartReset, StartConfirm, StartDirect,
              Begin, OnlyCall

\* One that begins serves a mutation, for direct plans are not serialised.
LEMMA BeginningsFit ==
    ASSUME TypeOK, Serialised, NEW r \in Requests, Start(r)
    PROVE  Fits(r)'
<1>a. call \in [Requests -> Call]
  BY DEF TypeOK
<1>1. ~StartDirect(r)
  BY DEF StartDirect, Serialised
<1>2. ~call'[r].gone /\ call'[r].op # "direct" /\ call'[r].pc \in {"load", "reset_load", "begin_load"}
  BY <1>1, <1>a DEF Start, StartMessage, StartNewTrip, StartReset, StartConfirm, Begin,
                    IdleCall, Confirming
<1> QED BY <1>2 DEF Fits

\* The step of a handler that is alone leaves it fitting the store, and a
\* planned trip with its plan.
LEMMA AloneFits ==
    ASSUME Backing, Serialised, PlannedHasPlan, NEW r \in Requests, Fits(r),
           Progress(r) \/ Superstep(r) \/ StoreError(r)
    PROVE  Fits(r)' /\ PlannedHasPlan' /\ Advances
<1> USE DEF OnlyCall, OnlyStore
<1>a. call \in [Requests -> Call] /\ call[r] \in Call /\ stored \in Record
  BY DEF Backing, TypeOK
<1>b. Provenance(r)
  BY DEF Backing
<1>e. End(r) => Fits(r)'
  BY <1>a DEF End, IdleCall, Fits, Confirming
<1>u. EndUndo(r) => Fits(r)'
  BY <1>a, <1>e DEF EndUndo, Call, Fits
<1>o. ASSUME NEW pc, Goto(r, pc)
      PROVE  /\ call'[r].pc = pc /\ call'[r].rec = call[r].rec /\ call'[r].op = call[r].op
             /\ call'[r].draft = call[r].draft /\ call'[r].gone = call[r].gone
  BY <1>o, <1>a DEF Goto, Call
<1>g. ASSUME NEW pc, NEW rec, GotoWith(r, pc, rec)
      PROVE  /\ call'[r].pc = pc /\ call'[r].rec = rec /\ call'[r].op = call[r].op
             /\ call'[r].draft = call[r].draft /\ call'[r].gone = call[r].gone
  BY <1>g, <1>a DEF GotoWith, Call
<1>s. env' = env /\ Serialised'
  BY HandlerFrame DEF Backing, Serialised
<1>q. ASSUME UNCHANGED <<stored, checkpoint>> PROVE PlannedHasPlan' /\ Advances
  BY <1>q, <1>s DEF PlannedHasPlan, Advances
<1>1. CASE MessageLoad(r)
  <2>1. CASE End(r)
    BY <1>1, <1>e, <1>q, <2>1 DEF MessageLoad
  <2>2. CASE stored.status \notin Settled /\ GotoWith(r, "extract", stored)
    BY <1>1, <1>g, <1>q, <2>2 DEF MessageLoad, Fits
  <2> QED BY <1>1, <2>1, <2>2 DEF MessageLoad, Settled
<1>2. CASE ResetLoad(r)
  BY <1>2, <1>g, <1>q DEF ResetLoad, Fits
<1>3. CASE ResetSave(r)
  <2>1. stored' = FreshIntake(stored)
    BY <1>3 DEF ResetSave, At, Fits
  <2>2. Advances /\ PlannedHasPlan' /\ stored'.status \notin Settled
    BY <1>a, <2>1, NextVersions DEF Advances, PlannedHasPlan, Settled
  <2>3. CASE End(r)
    BY <1>e, <2>2, <2>3
  <2>4. CASE Goto(r, "extract")
    <3>1. call[r].rec = stored'
      BY <1>3 DEF ResetSave
    <3> QED BY <1>o, <2>2, <2>4, <3>1 DEF Fits
  <2> QED BY <1>3, <2>3, <2>4 DEF ResetSave
<1>4. CASE AnswerCountry(r) \/ ExtractPatch(r)
  <2>1. At(r, "extract") /\ UNCHANGED <<stored, checkpoint>>
    BY <1>4 DEF AnswerCountry, ExtractPatch
  <2>2. PICK d, bad : GotoWith(r, "save", Turn(call[r].rec, d, bad))
    BY <1>4 DEF AnswerCountry, ExtractPatch
  <2>3. Turn(call[r].rec, d, bad).version = stored.version + 1
    BY <2>1 DEF At, Fits, Turn
  <2>4. stored.status \notin Settled
    BY <2>1 DEF At, Fits
  <2>5. Fits(r)'
    BY <1>g, <2>1, <2>2, <2>3, <2>4 DEF Fits
  <2> QED BY <1>q, <2>1, <2>5
<1>5. CASE ExtractFails(r)
  BY <1>5, <1>e, <1>q DEF ExtractFails
<1>6. CASE MessageSave(r)
  <2>1. /\ stored'.version = stored.version + 1 /\ stored.status \notin Settled
        /\ stored' = call[r].rec /\ End(r)
    BY <1>6 DEF MessageSave, At, Fits
  <2>2. stored'.status # "planned"
    BY <1>6, <1>b, <2>1 DEF MessageSave, At, Provenance
  <2> QED BY <1>a, <1>e, <2>1, <2>2, NextVersions DEF Advances, PlannedHasPlan, Settled
<1>7. CASE BeginLoad(r)
  <2>1. CASE End(r)
    BY <1>7, <1>e, <1>q, <2>1 DEF BeginLoad
  <2>2. CASE MayConfirm(r) /\ GotoWith(r, "begin_save", Marked("planning"))
    BY <1>7, <1>g, <1>q, <2>2 DEF BeginLoad, MayConfirm, Fits, Marked
  <2> QED BY <1>7, <2>1, <2>2 DEF BeginLoad, Marked
<1>8. CASE BeginSave(r)
  <2>1. /\ stored' = call[r].rec /\ call[r].rec = Marked("planning") /\ stored.status = "awaiting"
        /\ call[r].rec.draft = call[r].draft
    BY <1>8, <1>b DEF BeginSave, At, Fits, Provenance
  <2>2. "planning" \in Statuses
    BY DEF Statuses
  <2>3. Advances /\ PlannedHasPlan' /\ stored'.status = "planning" /\ stored'.draft = call[r].draft
    BY <1>a, <2>1, <2>2, NextVersions DEF Advances, PlannedHasPlan
  <2>4. CASE End(r)
    BY <1>e, <2>3, <2>4
  <2>5. ASSUME NEW pc \in {"prepare", "running"}, Goto(r, pc) PROVE Fits(r)'
    BY <1>o, <2>3, <2>5 DEF Fits
  <2> QED BY <1>8, <2>3, <2>4, <2>5 DEF BeginSave
<1>9. CASE Prepare(r)
  <2>1. ASSUME NEW pc \in {"running", "undo_load"}, Goto(r, pc) PROVE Fits(r)'
    BY <1>9, <1>o, <2>1 DEF Prepare, At, Fits
  <2> QED BY <1>9, <1>q, <2>1 DEF Prepare
<1>10. CASE GraphSucceeds(r)
  <2>1. /\ call[r].op \in Confirming /\ stored.status = "planning" /\ stored.draft = call[r].draft
        /\ stored' = stored /\ checkpoint' = call[r].rec.draft
    <3>1. call[r].op \in {"stream", "confirm"}
      BY <1>10 DEF GraphSucceeds, Fits
    <3> QED BY <1>10, <3>1 DEF GraphSucceeds, At, Fits, Confirming
  <2>2. checkpoint' = call[r].draft
    BY <1>10, <1>b, <2>1 DEF GraphSucceeds, At, Provenance
  <2>3. PICK pc \in {"deliver", "planned_load"} : Goto(r, pc)
    BY <1>10, <2>1 DEF GraphSucceeds, Fits
  <2>4. Fits(r)'
    BY <1>o, <2>1, <2>2, <2>3 DEF Fits
  <2> QED BY <2>1, <2>4 DEF Advances, PlannedHasPlan
<1>11. CASE GraphFails(r) \/ Superstep(r)
  <2>1. stored.status = "planning" /\ stored' = stored
    BY <1>11 DEF GraphFails, Superstep, At, Fits
  <2>2. CASE GraphFails(r)
    <3>1. Goto(r, "undo_load")
      BY <2>2 DEF GraphFails, Fits
    <3> QED BY <1>o, <2>1, <3>1 DEF Fits, Advances, PlannedHasPlan
  <2>3. CASE Superstep(r)
    BY <2>1, <2>3 DEF Superstep, At, Fits, Advances, PlannedHasPlan
  <2> QED BY <1>11, <2>2, <2>3
<1>12. CASE Deliver(r)
  BY <1>12, <1>o, <1>q DEF Deliver, At, Fits
<1>13. CASE PlannedLoad(r)
  <2>1. stored.status = "planning" /\ stored.draft = call[r].draft /\ checkpoint = stored.draft
    BY <1>13 DEF PlannedLoad, At, Fits
  <2>2. GotoWith(r, "planned_save", [stored EXCEPT !.status = "planned", !.plan = TRUE,
                                                   !.version = @ + 1])
    BY <1>13, <2>1 DEF PlannedLoad
  <2>3. GotoWith(r, "planned_save", [Marked("planned") EXCEPT !.plan = TRUE])
    BY <1>a, <2>2, NextVersions
  <2>4. Fits(r)'
    <3> DEFINE planned == [Marked("planned") EXCEPT !.plan = TRUE]
    <3>1. UNCHANGED <<stored, checkpoint>>
      BY <1>13 DEF PlannedLoad
    <3>2. planned' = planned
      BY <3>1 DEF Marked
    <3> HIDE DEF planned
    <3>3. call'[r].pc = "planned_save" /\ call'[r].rec = planned
          /\ call'[r].op = call[r].op /\ call'[r].gone = call[r].gone
      BY <1>g, <2>3 DEF planned
    <3>4. call'[r].rec = planned'
      BY <3>2, <3>3
    <3> QED BY <2>1, <3>1, <3>3, <3>4 DEF Fits, planned
  <2> QED BY <1>13, <1>q, <2>4 DEF PlannedLoad
<1>14. CASE PlannedSave(r)
  <2>1. /\ stored' = [Marked("planned") EXCEPT !.plan = TRUE] /\ End(r)
        /\ stored.status = "planning" /\ checkpoint = stored.draft /\ checkpoint' = checkpoint
    BY <1>14 DEF PlannedSave, At, Fits
  <2> QED BY <1>a, <1>e, <2>1, NextVersions DEF Advances, PlannedHasPlan
<1>15. CASE UndoLoad(r)
  <2>1. CASE EndUndo(r)
    BY <1>15, <1>q, <1>u, <2>1 DEF UndoLoad
  <2>2. CASE stored.status = "planning" /\ GotoWith(r, "undo_save", Marked("awaiting"))
    BY <1>15, <1>g, <1>q, <2>2 DEF UndoLoad, Fits, Marked
  <2> QED BY <1>15, <2>1, <2>2 DEF UndoLoad, Marked
<1>16. CASE UndoSave(r)
  <2>1. stored' = Marked("awaiting") /\ stored.status = "planning" /\ EndUndo(r)
    BY <1>16 DEF UndoSave, At, Fits
  <2>2. "awaiting" \in Statuses
    BY DEF Statuses
  <2> QED BY <1>a, <1>u, <2>1, <2>2, NextVersions DEF Advances, PlannedHasPlan
<1>17. CASE StoreError(r)
  <2>1. Fits(r)'
    <3>1. CASE Goto(r, "undo_load")
      BY <1>o, <3>1 DEF Fits
    <3> QED BY <1>17, <1>e, <1>u, <3>1 DEF StoreError
  <2>2. checkpoint' = checkpoint
    BY <1>17 DEF StoreError
  <2>3. CASE UNCHANGED stored
    BY <1>q, <2>1, <2>2, <2>3
  <2>4. CASE call[r].pc \in SavePoints /\ stored' = call[r].rec
    <3>1. CASE call[r].pc = "save"
      BY <1>a, <1>b, <2>1, <2>4, <3>1, NextVersions
         DEF Fits, Provenance, Advances, PlannedHasPlan, Settled
    <3>2. CASE call[r].pc = "reset_save"
      BY <1>a, <2>1, <2>4, <3>2, NextVersions DEF Fits, Advances, PlannedHasPlan
    <3>3. CASE call[r].pc = "begin_save"
      BY <1>a, <2>1, <2>4, <3>3, NextVersions DEF Fits, Advances, PlannedHasPlan, Statuses
    <3>4. CASE call[r].pc = "planned_save"
      BY <1>a, <2>1, <2>2, <2>4, <3>4, NextVersions DEF Fits, Advances, PlannedHasPlan
    <3>5. CASE call[r].pc = "undo_save"
      BY <1>a, <2>1, <2>4, <3>5, NextVersions DEF Fits, Advances, PlannedHasPlan, Statuses
    <3> QED BY <2>4, <3>1, <3>2, <3>3, <3>4, <3>5 DEF SavePoints
  <2> QED BY <1>17, <2>3, <2>4 DEF StoreError
<1> QED
  BY <1>1, <1>2, <1>3, <1>4, <1>5, <1>6, <1>7, <1>8, <1>9, <1>10, <1>11, <1>12, <1>13,
     <1>14, <1>15, <1>16, <1>17 DEF Progress

LEMMA NextKeepsSerial ==
    Backing /\ SerialInv /\ [Next]_vars => SerialInv' /\ (Serialised => Advances)
<1> SUFFICES ASSUME Backing, SerialInv, [Next]_vars, Serialised \/ Serialised'
             PROVE  /\ PlannedHasPlan' /\ OneAtATime' /\ \A q \in Requests : Fits(q)'
                    /\ Advances
  BY DEF SerialInv
<1>a. TypeOK /\ call \in [Requests -> Call]
  BY DEF Backing, TypeOK
<1>s. Serialised
  <2>1. ASSUME NEW r \in Requests,
               \/ Start(r) \/ Progress(r) \/ Superstep(r)
               \/ StoreError(r) \/ Cancel(r) \/ CancelUndo(r)
        PROVE  env' = env
    BY <1>a, <2>1, HandlerFrame
  <2>2. env' = env
    BY <2>1 DEF Next, Restart, vars
  <2> QED BY <2>2 DEF Serialised
<1>f. PlannedHasPlan /\ OneAtATime /\ \A q \in Requests : Fits(q)
  BY <1>s DEF SerialInv
<1>1. ASSUME NEW r \in Requests,
             Start(r) \/ Progress(r) \/ Superstep(r) \/ StoreError(r)
      PROVE  /\ PlannedHasPlan' /\ OneAtATime' /\ \A q \in Requests : Fits(q)'
             /\ Advances
  <2>1. \A q \in Requests : q # r => call'[q] = call[q]
    BY <1>1, <1>a, HandlerFrame
  <2>2. \A q \in Requests : q # r => At(q, "idle")
    <3>1. CASE At(r, "idle")
      <4>1. Start(r)
        BY <1>1, <3>1, BeginningsAreQuiet
      <4>2. MayStart(r)
        BY <4>1 DEF Start, StartMessage, StartNewTrip, StartReset, StartConfirm,
                    StartDirect, Begin
      <4> QED BY <1>s, <1>f, <4>2 DEF MayStart, Serialised, Fits
    <3>2. CASE ~At(r, "idle")
      BY <1>f, <3>2 DEF OneAtATime
    <3> QED BY <3>1, <3>2
  <2>3. OneAtATime'
    BY <2>1, <2>2 DEF OneAtATime, At
  <2>4. ASSUME NEW q \in Requests, q # r PROVE Fits(q)'
    BY <1>f, <2>1, <2>2, <2>4 DEF Fits, At
  <2>5. Fits(r)' /\ PlannedHasPlan' /\ Advances
    <3>1. CASE Start(r)
      <4>1. UNCHANGED <<stored, checkpoint>>
        BY <3>1 DEF Start, StartMessage, StartNewTrip, StartReset, StartConfirm,
                    StartDirect, Begin, OnlyCall
      <4> QED BY <1>a, <1>s, <1>f, <3>1, <4>1, BeginningsFit DEF PlannedHasPlan, Advances
    <3>2. CASE Progress(r) \/ Superstep(r) \/ StoreError(r)
      BY <1>s, <1>f, <3>2, AloneFits
    <3> QED BY <1>1, <3>1, <3>2
  <2> QED BY <2>3, <2>4, <2>5
<1>2. ASSUME NEW r \in Requests, Cancel(r) \/ CancelUndo(r) PROVE FALSE
  BY <1>2, <1>s DEF Cancel, CancelUndo, Serialised
<1>3. CASE Restart
  <2>1. \A q \in Requests : call'[q] = IdleCall
    BY <1>3 DEF Restart
  <2>2. OneAtATime' /\ \A q \in Requests : Fits(q)'
    BY <2>1 DEF OneAtATime, At, Fits, IdleCall
  <2> QED BY <1>3, <1>f, <1>s, <2>2 DEF Restart, PlannedHasPlan, Advances, Serialised
<1>4. CASE UNCHANGED vars
  BY <1>4, <1>f, <1>s DEF vars, OneAtATime, At, Fits, Marked, FreshIntake, PlannedHasPlan,
                          Advances, Serialised
<1> QED
  BY <1>1, <1>2, <1>3, <1>4 DEF Next

LEMMA SerialHolds == Spec => []SerialInv
<1>1. Init => SerialInv
  BY DEF Init, NoIntake, IdleCall, SerialInv, PlannedHasPlan, OneAtATime, At, Fits
<1> QED
  BY <1>1, NextKeepsSerial, BackingHolds, PTL DEF Spec

\* While a confirmed run is in progress the store says so, so that no message
\* and no second confirmation of a serialising caller is accepted meanwhile:
\* nothing that a serialised call does takes the planning status away.
THEOREM RunsAreVisible == Spec => []RunningIsVisible
<1>1. SerialInv => RunningIsVisible
  BY DEF SerialInv, Fits, RunningIsVisible, At
<1> QED
  BY <1>1, SerialHolds, PTL

\* A trip that is stored as planned has its own plan in the thread's newest
\* checkpoint, through errors of the store and restarts of the server, when
\* callers wait for their calls and plan by confirmation only.
THEOREM PlansAreCheckpointed == Spec => []PlannedHasPlan
<1>1. PlannedHasPlan \/ Serialised
  BY DEF PlannedHasPlan
<1>2. SerialInv => PlannedHasPlan
  BY <1>1 DEF SerialInv
<1> QED
  BY <1>2, SerialHolds, PTL

\* No handler of an earlier call reopens a planned trip: it is left by a reset.
THEOREM PlannedTripsAreFinal == Spec => PlannedIsFinal
<1>1. Backing /\ SerialInv /\ [Next]_vars =>
          [Serialised /\ stored.status = "planned" => stored' = FreshIntake(stored)]_stored
  BY NextKeepsSerial DEF Advances
<1> QED
  BY <1>1, BackingHolds, SerialHolds, PTL DEF Spec, PlannedIsFinal

\* Each mutation of callers that wait for their calls and stay moves the version on.
LEMMA SerialVersionsAdvance ==
    Spec => [][Serialised => stored'.version > stored.version]_stored
<1>1. Backing /\ SerialInv /\ [Next]_vars =>
          [Serialised => stored'.version > stored.version]_stored
  BY NextKeepsSerial DEF Advances
<1> QED
  BY <1>1, BackingHolds, SerialHolds, PTL DEF Spec

\* Callers that serialise their mutations do not disconnect either.
PatientCallers == \A e \in Envs : "cancel" \in e => "overlap" \in e

\* docs/22: each mutation increments the version, if serialising callers also stay
\* connected.  Without that a late rollback writes a version twice.
THEOREM VersionsAdvance ==
    ASSUME PatientCallers
    PROVE  Spec => VersionAdvances
<1>1. ASSUME Backing, env \subseteq {"store_error", "restart", "cancel"}
      PROVE  Serialised
  BY <1>1 DEF Backing, TypeOK, PatientCallers, Serialised
<1>2. Backing /\ [Serialised => stored'.version > stored.version]_stored =>
          [env \subseteq {"store_error", "restart", "cancel"} =>
             stored'.version > stored.version]_stored
  BY <1>1
<1> QED
  BY <1>2, BackingHolds, SerialVersionsAdvance, PTL DEF VersionAdvances

-----------------------------------------------------------------------------
(* The conversation of a serialising caller implements TripLifecycle.       *)

\* A turn about to be saved awaits confirmation only with a complete draft.
SavedTurns ==
    \A r \in Requests :
        At(r, "save") /\ call[r].rec.status = "awaiting" => call[r].rec.draft \in Complete

LEMMA SavedTurnsHold == Spec => []SavedTurns
<1>1. Init => SavedTurns
  BY DEF Init, IdleCall, SavedTurns, At
<1>2. ASSUME Backing, SavedTurns, [Next]_vars PROVE SavedTurns'
  <2>a. TypeOK /\ call \in [Requests -> Call]
    BY <1>2 DEF Backing, TypeOK
  <2>1. ASSUME NEW r \in Requests,
               \/ Start(r) \/ Progress(r) \/ Superstep(r)
               \/ StoreError(r) \/ Cancel(r) \/ CancelUndo(r)
        PROVE  SavedTurns'
    <3>1. \A q \in Requests : q # r => call'[q] = call[q]
      BY <2>1, <2>a, HandlerFrame
    <3>2. call'[r].pc = "save" /\ call'[r].rec.status = "awaiting" =>
            call'[r].rec.draft \in Complete
      <4>1. CASE AnswerCountry(r) \/ ExtractPatch(r)
        <5>1. PICK d, bad : GotoWith(r, "save", Turn(call[r].rec, d, bad))
          BY <4>1 DEF AnswerCountry, ExtractPatch
        <5>2. call'[r].rec = Turn(call[r].rec, d, bad)
          BY <5>1, <2>a DEF GotoWith, Call
        <5> QED BY <5>2 DEF Turn, Ready
      <4>2. CASE ~(AnswerCountry(r) \/ ExtractPatch(r))
        <5>1. CASE Start(r)
          <6>1. call'[r].pc \in {"load", "reset_load", "begin_load", "running"}
            <7>1. CASE StartDirect(r)
              BY <7>1, <2>a DEF StartDirect, IdleCall
            <7>2. ASSUME NEW op, NEW pc, NEW d, NEW long, Begin(r, op, pc, d, long)
                  PROVE  call'[r].pc = pc
              BY <7>2, <2>a DEF Begin, IdleCall
            <7> QED
              BY <5>1, <7>1, <7>2 DEF Start, StartMessage, StartNewTrip, StartReset, StartConfirm
          <6> QED BY <6>1
        <5>2. CASE Superstep(r) \/ CancelUndo(r)
          BY <5>2, <1>2, <2>a DEF Superstep, CancelUndo, End, IdleCall, SavedTurns, At, Call
        <5>3. CASE StoreError(r) \/ Cancel(r)
          BY <5>3, <2>a DEF StoreError, Cancel, End, EndUndo, Goto, IdleCall, Call
        <5>4. CASE Progress(r)
          <6>1. /\ End(r) => call'[r].pc = "idle"
                /\ EndUndo(r) => call'[r].pc \in {"idle", "undo_load"}
                /\ \A pc \in Points : Goto(r, pc) => call'[r].pc = pc
                /\ \A pc \in Points : \A rec : GotoWith(r, pc, rec) => call'[r].pc = pc
            BY <2>a DEF End, EndUndo, Goto, GotoWith, IdleCall, Call
          <6>2. /\ \A pc \in {"extract", "running", "prepare", "deliver", "planned_load",
                              "undo_load"} : Goto(r, pc) => call'[r].pc # "save"
                /\ \A pc \in {"extract", "reset_save", "begin_save", "planned_save", "undo_save"} :
                     \A rec : GotoWith(r, pc, rec) => call'[r].pc # "save"
            BY <6>1 DEF Points, LoadPoints, SavePoints
          <6>3. call'[r].pc # "save"
            BY <5>4, <4>2, <6>1, <6>2
               DEF Progress, MessageLoad, ResetLoad, ResetSave, ExtractFails, MessageSave,
                   BeginLoad, BeginSave, Prepare, GraphSucceeds, GraphFails, Deliver,
                   PlannedLoad, PlannedSave, UndoLoad, UndoSave
          <6> QED BY <6>3
        <5> QED BY <2>1, <5>1, <5>2, <5>3, <5>4
      <4> QED BY <4>1, <4>2
    <3> QED BY <1>2, <3>1, <3>2 DEF SavedTurns, At
  <2>2. CASE Restart
    BY <2>2 DEF Restart, IdleCall, SavedTurns, At
  <2>3. CASE UNCHANGED vars
    BY <1>2, <2>3 DEF vars, SavedTurns, At
  <2> QED BY <1>2, <2>1, <2>2, <2>3 DEF Next
<1> QED BY <1>1, <1>2, BackingHolds, PTL DEF Spec

\* The store is written by saves only, with what their handler holds.
LEMMA WritesAreHeld ==
    ASSUME TypeOK, [Next]_vars
    PROVE  /\ env' = env
           /\ \/ stored' = stored
              \/ \E r \in Requests : call[r].pc \in SavePoints /\ stored' = call[r].rec
<1>1. ASSUME NEW r \in Requests,
             \/ Start(r) \/ Progress(r) \/ Superstep(r)
             \/ StoreError(r) \/ Cancel(r) \/ CancelUndo(r)
      PROVE  /\ env' = env
             /\ stored' = stored \/ (call[r].pc \in SavePoints /\ stored' = call[r].rec)
  <2>1. env' = env
    BY <1>1, HandlerFrame
  <2>2. CASE Start(r)
    BY <2>1, <2>2 DEF Start, StartMessage, StartNewTrip, StartReset, StartConfirm, StartDirect,
                      Begin, OnlyCall
  <2>3. CASE Superstep(r) \/ StoreError(r) \/ Cancel(r) \/ CancelUndo(r)
    BY <2>1, <2>3 DEF Superstep, StoreError, Cancel, CancelUndo, OnlyCall
  <2>4. CASE Progress(r)
    BY <2>1, <2>4
       DEF Progress, MessageLoad, ResetLoad, ResetSave, AnswerCountry, ExtractPatch,
           ExtractFails, MessageSave, BeginLoad, BeginSave, Prepare, GraphSucceeds, GraphFails,
           Deliver, PlannedLoad, PlannedSave, UndoLoad, UndoSave, OnlyCall, SavePoints, At
  <2> QED BY <1>1, <2>2, <2>3, <2>4
<1>2. CASE Restart
  BY <1>2 DEF Restart
<1>3. CASE UNCHANGED vars
  BY <1>3 DEF vars
<1> QED BY <1>1, <1>2, <1>3 DEF Next

\* A save of a serialising caller's handler is a change of the trip.
LEMMA SavesAreChanges ==
    ASSUME Backing, SavedTurns, Serialised, Serialised', NEW r \in Requests, Fits(r),
           call[r].pc \in SavePoints, stored' = call[r].rec, PlannedHasPlan'
    PROVE  Trip!Next
<1>a. stored \in Record /\ call[r] \in Call /\ Provenance(r)
  BY DEF Backing, TypeOK
<1>b. stored' \in Record
  BY <1>a DEF Call
<1>c. ASSUME NEW s, NEW d, NEW p, stored'.status = s, stored'.draft = d,
             stored'.version = stored.version + 1,
             p = IF s = "planned" THEN checkpoint' ELSE NoPlan
      PROVE  Trip!Change(s, d, p)
  BY <1>c DEF Trip!Change, Seen
<1>d. "planning" \in Statuses /\ "awaiting" \in Statuses
  BY DEF Statuses
<1>1. CASE call[r].pc = "save"
  <2>1. /\ stored'.version = stored.version + 1 /\ stored.status \notin Settled
        /\ stored'.status \in {"collecting", "awaiting"}
        /\ stored'.status = "awaiting" => stored'.draft \in Complete
    BY <1>a, <1>1 DEF Fits, Provenance, SavedTurns, At
  <2>2. stored.status \in {"absent", "collecting", "awaiting"} /\ stored'.draft \in Drafts
    BY <1>a, <1>b, <2>1 DEF Record, Statuses, Settled
  <2>3. Trip!Change(stored'.status, stored'.draft, NoPlan)
    BY <1>c, <2>1
  <2> QED BY <2>1, <2>2, <2>3 DEF Trip!Next, Trip!Talk, Seen
<1>2. CASE call[r].pc = "reset_save"
  <2>1. stored' = FreshIntake(stored)
    BY <1>2 DEF Fits
  <2>2. /\ stored'.version = stored.version + 1 /\ stored'.status = "collecting"
        /\ stored'.draft = EmptyDraft
    BY <2>1 DEF FreshIntake, NoIntake
  <2>3. Trip!Change("collecting", EmptyDraft, NoPlan)
    BY <1>c, <2>2
  <2> QED BY <2>3 DEF Trip!Next, Trip!StartOver
<1>3. CASE call[r].pc = "begin_save"
  <2>1. stored' = Marked("planning") /\ stored.status = "awaiting"
    BY <1>3 DEF Fits
  <2>2. Trip!Change("planning", stored.draft, NoPlan)
    BY <1>a, <1>c, <1>d, <2>1, NextVersions
  <2> QED BY <2>1, <2>2 DEF Trip!Next, Trip!Confirm, Seen
<1>4. CASE call[r].pc = "planned_save"
  <2>1. stored' = [Marked("planned") EXCEPT !.plan = TRUE] /\ stored.status = "planning"
    BY <1>4 DEF Fits
  <2>2. /\ stored'.status = "planned" /\ stored'.draft = stored.draft
        /\ stored'.version = stored.version + 1
    BY <1>a, <2>1, NextVersions
  <2>3. checkpoint' = stored.draft
    BY <2>2 DEF PlannedHasPlan
  <2>4. Trip!Change("planned", stored.draft, stored.draft)
    BY <1>c, <2>2, <2>3
  <2> QED BY <2>1, <2>4 DEF Trip!Next, Trip!Succeed, Seen
<1>5. CASE call[r].pc = "undo_save"
  <2>1. stored' = Marked("awaiting") /\ stored.status = "planning"
    BY <1>5 DEF Fits
  <2>2. Trip!Change("awaiting", stored.draft, NoPlan)
    BY <1>a, <1>c, <1>d, <2>1, NextVersions
  <2> QED BY <2>1, <2>2 DEF Trip!Next, Trip!GiveUp, Seen
<1> QED BY <1>1, <1>2, <1>3, <1>4, <1>5 DEF SavePoints

\* docs/22: whatever the awaits of its handlers, failed stores and restarts, a
\* caller that serialises its mutations sees the single changes of TripLifecycle.
THEOREM ConversationKeepsLifecycle == Spec => KeepsLifecycle
<1>1. ASSUME Init PROVE Trip!Init
  BY <1>1 DEF Init, NoIntake, Trip!Init, Seen
<1>2. ASSUME Backing, SavedTurns, SerialInv, SerialInv', [Next]_vars
      PROVE  [Trip!Next]_<<Seen(stored.status, "absent"), Seen(stored.draft, EmptyDraft),
                           Seen(stored.version, 0),
                           Seen(IF stored.status = "planned" THEN checkpoint ELSE NoPlan,
                                NoPlan)>>
  <2>1. /\ env' = env
        /\ \/ stored' = stored
           \/ \E r \in Requests : call[r].pc \in SavePoints /\ stored' = call[r].rec
    BY <1>2, WritesAreHeld DEF Backing
  <2>2. CASE ~Serialised
    BY <2>1, <2>2 DEF Serialised, Seen
  <2>3. CASE Serialised
    <3>1. Serialised' /\ PlannedHasPlan /\ PlannedHasPlan' /\ \A r \in Requests : Fits(r)
      BY <1>2, <2>1, <2>3 DEF Serialised, SerialInv
    <3>2. CASE stored' = stored
      <4>1. stored.status = "planned" => checkpoint' = checkpoint
        BY <2>3, <3>1, <3>2 DEF PlannedHasPlan
      <4> QED BY <2>3, <3>1, <3>2, <4>1 DEF Seen
    <3>3. ASSUME NEW r \in Requests, call[r].pc \in SavePoints, stored' = call[r].rec
          PROVE  Trip!Next
      BY <1>2, <2>3, <3>1, <3>3, SavesAreChanges
    <3> QED BY <2>1, <3>2, <3>3
  <2> QED BY <2>2, <2>3
<1> QED
  BY <1>1, <1>2, BackingHolds, SavedTurnsHold, SerialHolds, PTL
     DEF Spec, KeepsLifecycle, Trip!Spec

=============================================================================
