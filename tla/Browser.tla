------------------------------- MODULE Browser -------------------------------
(***************************************************************************)
(* The page (frontend/src): the reducer's state, the requests of           *)
(* hooks/useConversation.ts, of which only the latest is listened to, the  *)
(* one planning stream of hooks/usePlanningStream.ts, and the clicks that  *)
(* App.tsx allows; against the server as the page sees it, which plans a   *)
(* conversation and rolls one back that lost its reader some time later.   *)
(*                                                                         *)
(* JavaScript runs to completion: an action is a click, or the delivery of *)
(* an answer with everything that follows it before the next await.        *)
(***************************************************************************)
EXTENDS Naturals, FiniteSets

CONSTANTS
    Threads,      \* the user's conversations
    MaxClicks     \* bound: what the user does

ASSUME BrowserAssumption ==
    /\ IsFiniteSet(Threads)
    /\ {"nowhere", "none", "reset"} \intersect Threads = {}
    /\ MaxClicks \in Nat

VARIABLES
    thread,       \* identity.threadId
    ui,           \* AppState
    active,       \* the request activeRequest.current belongs to, or 0
    requests,     \* requests of useConversation on their way
    stream,       \* controllerRef and the promise of usePlanningStream
    pending,      \* the clicks that wait for the stream's end
    server,       \* the conversations' status
    run,          \* each conversation's planning runs
    clicks        \* clicks so far

pageVars == <<thread, ui, active, requests, stream, pending>>
serverVars == <<server, run>>
browserVars == <<pageVars, serverVars, clicks>>

-----------------------------------------------------------------------------
(* State.                                                                   *)

Statuses == {"collecting", "awaiting_confirmation", "planning", "planned"}
Phases == {"booting", "error"} \union Statuses
Somewhere == Threads \union {"nowhere"}

\* conversation: whose it is and its status; plan: whose final plan is kept;
\* sending: optimisticMessage is set; failed: failedMessage is set; error: the
\* banner is shown; terminal: progress.terminal.
AppState == [phase: Phases, of: Somewhere, status: Statuses, plan: Somewhere,
             sending: BOOLEAN, failed: BOOLEAN, error: BOOLEAN, terminal: BOOLEAN]

\* sent, then answered with a status, or failed; "missing" is a 404.
Replies == Statuses \union {"sent", "missing", "failed"}

PageRequest == [id: 1..MaxClicks + 1, kind: {"load", "state", "send", "reset"},
                thread: Threads, reply: Replies]

\* open: the POST has no answer yet; reading: events arrive; resync: GET after
\* the end, after Stop or after a 409.  sent, terminal: the terminal event that
\* the server has sent and that the page has read; ignored: after an abort.
Stream == [pc: {"off", "open", "reading", "resync"}, thread: Somewhere, aborted: BOOLEAN,
           sent: {"none", "planned", "error"},
           terminal: {"none", "planned", "error", "ignored"},
           cause: {"none", "end", "stop", "conflict"}, reply: Replies \ {"missing"}]

NoStream == [pc |-> "off", thread |-> "nowhere", aborted |-> FALSE, sent |-> "none",
             terminal |-> "none", cause |-> "none", reply |-> "sent"]

\* A click that waits for the stream's end: a switch to a thread or a reset; known:
\* the page had a conversation at the click.  Clicks go on in the order of their id.
WaitingClick == [to: {"reset"} \union Threads, id: 1..MaxClicks + 1, known: BOOLEAN]

\* A run of the server.  read: the page's stream is its reader; current: the
\* conversation has not been reset since it was confirmed.
PlanningRun == [read: BOOLEAN, current: BOOLEAN]

BrowserTypeOK ==
    /\ thread \in Threads
    /\ ui \in AppState
    /\ active \in 0..MaxClicks + 1
    /\ requests \in SUBSET PageRequest
    /\ stream \in Stream
    /\ pending \in SUBSET WaitingClick
    /\ server \in [Threads -> Statuses]
    /\ run \in [Threads -> SUBSET PlanningRun]
    /\ clicks \in 0..MaxClicks

-----------------------------------------------------------------------------
(* appReducer, one operator per action type.                                *)

initialAppState == [phase |-> "booting", of |-> "nowhere", status |-> "collecting",
    plan |-> "nowhere", sending |-> FALSE, failed |-> FALSE, error |-> FALSE, terminal |-> FALSE]

LOAD_START == initialAppState
CLEAR_TRIP == [initialAppState EXCEPT !.phase = "collecting"]
LOAD_EMPTY == CLEAR_TRIP

CONVERSATION_RECEIVED(s, t, status) ==
    [s EXCEPT !.of = t, !.status = status, !.phase = IF s.terminal THEN @ ELSE status,
              !.sending = FALSE, !.failed = FALSE, !.error = FALSE]

PLAN_RESTORED(s, t) == [s EXCEPT !.phase = "planned", !.plan = t, !.terminal = TRUE]

SEND_START(s) == [s EXCEPT !.terminal = IF s.plan = "nowhere" THEN FALSE ELSE @,
                           !.sending = TRUE, !.failed = FALSE, !.error = FALSE]

SEND_FAILED(s) == [s EXCEPT !.phase = "error", !.sending = FALSE, !.failed = TRUE,
                            !.error = TRUE]

PLAN_START(s) == [s EXCEPT !.phase = "planning", !.plan = "nowhere", !.error = FALSE,
                           !.terminal = FALSE]

\* The terminal events; the others change the progress shown.
STREAM_EVENT(s, event, t) ==
    IF s.terminal THEN s
    ELSE IF event = "planned"
         THEN [s EXCEPT !.phase = "planned", !.plan = t, !.terminal = TRUE, !.error = FALSE]
         ELSE [s EXCEPT !.phase = "error", !.plan = "nowhere", !.terminal = TRUE]

can_confirm(s) == s.of # "nowhere" /\ s.status = "awaiting_confirmation"

STOPPED(s) ==
    IF s.terminal THEN s
    ELSE [s EXCEPT !.terminal = TRUE, !.error = FALSE,
                   !.phase = IF can_confirm(s) THEN "awaiting_confirmation" ELSE "collecting"]

SHOW_ERROR(s) == [s EXCEPT !.phase = IF s.plan # "nowhere" THEN "planned" ELSE "error",
                           !.error = TRUE, !.terminal = TRUE]

CLEAR_ERROR(s) == [s EXCEPT !.phase = IF s.of = "nowhere" THEN "collecting" ELSE s.status,
                            !.error = FALSE]

-----------------------------------------------------------------------------
(* Requests.                                                                *)

\* Each click sends at most one request, so its number names the request.
NewId == clicks + 2

Post(kind, t, id) == [id |-> id, kind |-> kind, thread |-> t, reply |-> "sent"]

\* A new request is the active one from now on.  An older one may still reach
\* the server; whether it is aborted or not, its answer is not listened to.
Activate(kind, t, id) ==
    /\ requests' = requests \union {Post(kind, t, id)}
    /\ active' = id

BrowserInit ==
    /\ thread \in Threads
    /\ ui = LOAD_START
    /\ requests = {Post("load", thread, 1)}
    /\ active = 1
    /\ stream = NoStream
    /\ pending = {}
    /\ server \in [Threads -> {"collecting", "awaiting_confirmation"}]
    /\ run = [t \in Threads |-> {}]
    /\ clicks = 0

Click ==
    /\ clicks < MaxClicks
    /\ clicks' = clicks + 1

\* What the server makes of a message: questions or a draft to confirm.
SetServer(t, status) == server' = [server EXCEPT ![t] = status]

\* The server answers a request, or the request or its answer is lost.  A
\* conversation that is planning or planned takes no message.  A reset is accepted in
\* every status and stops no run.
ServerAnswers(r) ==
    LET answer(reply) == requests' = (requests \ {r}) \union {[r EXCEPT !.reply = reply]} IN
    /\ r.reply = "sent"
    /\ \/ r.kind \in {"load", "state"} /\ answer(server[r.thread]) /\ UNCHANGED serverVars
       \/ r.kind = "load" /\ server[r.thread] = "collecting" /\ answer("missing")
          /\ UNCHANGED serverVars
       \/ /\ r.kind = "send" /\ server[r.thread] \notin {"planning", "planned"}
          /\ \E status \in {"collecting", "awaiting_confirmation"} :
               /\ SetServer(r.thread, status)
               /\ answer(status) \/ answer("failed")
          /\ UNCHANGED run
       \/ /\ r.kind = "reset"
          /\ SetServer(r.thread, "collecting")
          /\ answer("collecting") \/ answer("failed")
          /\ run' = [run EXCEPT ![r.thread] = {[k EXCEPT !.current = FALSE] : k \in @}]
       \/ answer("failed") /\ UNCHANGED serverVars
    /\ UNCHANGED <<thread, ui, active, stream, pending, clicks>>

\* A request's promise settles.  Its continuation does nothing unless it is
\* still the active one.
Settle(r) ==
    LET ok == r.reply \in Statuses IN
    /\ r.reply # "sent"
    /\ IF r.id # active
       THEN /\ requests' = requests \ {r}
            /\ UNCHANGED <<ui, active>>
       ELSE IF r.kind = "load" /\ r.reply = "planned"
       THEN /\ ui' = CONVERSATION_RECEIVED(ui, r.thread, r.reply)
            /\ requests' = (requests \ {r}) \union {Post("state", r.thread, r.id)}
            /\ UNCHANGED active
       ELSE /\ requests' = requests \ {r}
            /\ active' = 0
            /\ ui' = CASE r.kind = "load" /\ r.reply = "missing" -> LOAD_EMPTY
                       [] r.kind = "state" /\ ok -> IF r.reply = "planned"
                                                    THEN PLAN_RESTORED(ui, r.thread) ELSE ui
                       [] r.kind = "reset" /\ ok ->
                              CONVERSATION_RECEIVED(CLEAR_TRIP, r.thread, r.reply)
                       [] r.kind \in {"load", "send"} /\ ok ->
                              CONVERSATION_RECEIVED(ui, r.thread, r.reply)
                       [] r.kind = "send" /\ ~ok -> SEND_FAILED(ui)
                       [] OTHER -> SHOW_ERROR(ui)
    /\ UNCHANGED <<thread, stream, pending, serverVars, clicks>>

-----------------------------------------------------------------------------
(* Clicks.                                                                  *)

\* The composer, or the retry of a failed message.
ClickSend ==
    /\ Click
    /\ ui.failed \/ (ui.phase \notin {"booting", "planning"} /\ ~ui.sending)
    /\ ui' = SEND_START(ui)
    /\ Activate("send", thread, NewId)
    /\ UNCHANGED <<thread, stream, pending, serverVars>>

\* The button of the draft, and Retry planning; startPlanning does nothing while
\* there is a controller.
ClickConfirm ==
    /\ Click
    /\ can_confirm(ui)
    /\ ui.phase # "planning" \/ (ui.error /\ ~ui.failed)
    /\ stream.pc = "off"
    /\ ui' = PLAN_START(ui)
    /\ stream' = [NoStream EXCEPT !.pc = "open", !.thread = thread]
    /\ UNCHANGED <<thread, active, requests, pending, serverVars>>

\* Try again, when there is neither a failed message nor a draft to confirm.
ClickReload ==
    /\ Click
    /\ ui.error /\ ~ui.failed /\ ~can_confirm(ui)
    /\ ui' = LOAD_START
    /\ Activate("load", thread, NewId)
    /\ UNCHANGED <<thread, stream, pending, serverVars>>

ClickDismiss ==
    /\ Click
    /\ ui.error
    /\ ui' = CLEAR_ERROR(ui)
    /\ UNCHANGED <<thread, active, requests, stream, pending, serverVars>>

\* The server confirms the draft and starts to plan.
Confirm(t, read) ==
    /\ server[t] = "awaiting_confirmation"
    /\ SetServer(t, "planning")
    /\ run' = [run EXCEPT ![t] = @ \union {[read |-> read, current |-> TRUE]}]

\* The POST may start a run although its answer is not read.
MayStartUnread(t) == Confirm(t, FALSE) \/ UNCHANGED serverVars

\* The server's runs have lost their reader.
LoseReader(t) == run' = [run EXCEPT ![t] = {[k EXCEPT !.read = FALSE] : k \in @}]

\* controller.abort().  fetchOnce forwards it only until the answer's head is
\* there: an answer that is awaited is given up, one that is being read is read to
\* its end.
Abort ==
    \/ /\ stream.pc = "open"
       /\ stream' = [stream EXCEPT !.pc = "resync", !.cause = "stop", !.aborted = TRUE]
       /\ MayStartUnread(stream.thread)
    \/ /\ stream.pc # "open"
       /\ stream' = [stream EXCEPT !.aborted = stream.pc # "off"]
       /\ UNCHANGED serverVars

ClickStop ==
    /\ Click
    /\ ui.phase = "planning" /\ ~ui.terminal
    /\ Abort
    /\ UNCHANGED <<thread, ui, active, requests, pending>>

Latest(set) == {w \in set : \A v \in set : v.id <= w.id}

\* The POSTs of these resets, for the thread of the page at the clicks.
ResetPosts(resets) == {Post("reset", thread, w.id) : w \in {v \in resets : v.known}}

\* The page shows another thread: CLEAR_TRIP, and the effects of the new thread
\* give up what is asked for and load it.  Resets that went on in the same turn
\* have sent their POST before.
SwitchTo(w, resets) ==
    /\ thread' = w.to
    /\ ui' = LOAD_START
    /\ requests' = requests \union ResetPosts(resets) \union {Post("load", w.to, w.id)}
    /\ active' = w.id

\* reset of useConversation, for one click after the other.  The last one's request
\* is the active one; without a conversation it asks for nothing.
DoResets(s, resets) ==
    /\ ui' = IF \A w \in resets : w.known THEN s ELSE CLEAR_TRIP
    /\ requests' = requests \union ResetPosts(resets)
    /\ \E last \in Latest(resets) : active' = IF last.known THEN last.id ELSE 0
    /\ UNCHANGED thread

Select(t) == [to |-> t, id |-> NewId, known |-> FALSE]
Reset == [to |-> "reset", id |-> NewId, known |-> ui.of # "nowhere"]

\* stopPlanning before the click goes on: it waits beside those that wait already.
StopFirst(w) ==
    /\ Abort
    /\ pending' = pending \union {w}
    /\ UNCHANGED <<thread, ui, active, requests>>

\* Mutant of ClickSelect: the switch does not wait for the stream.
ClickSelectNow(t) ==
    /\ Click
    /\ t # thread
    /\ SwitchTo(Select(t), {})
    /\ Abort
    /\ UNCHANGED pending

\* selectThread and startNewTrip: stopPlanning, and then the switch.
ClickSelect(t) ==
    /\ Click
    /\ t # thread
    /\ \/ /\ stream.pc = "off"
          /\ SwitchTo(Select(t), {})
          /\ UNCHANGED <<stream, pending, serverVars>>
       \/ stream.pc # "off" /\ StopFirst(Select(t))

ClickReset ==
    /\ Click
    /\ \/ /\ stream.pc = "off"
          /\ DoResets(ui, {Reset})
          /\ UNCHANGED <<stream, pending, serverVars>>
       \/ stream.pc # "off" /\ StopFirst(Reset)

\* The browser loads the page again: nothing but the thread survives.  A POST on
\* its way may still start a run.
ReloadPage ==
    /\ Click
    /\ ui' = LOAD_START
    /\ Activate("load", thread, NewId)
    /\ stream' = NoStream
    /\ pending' = {}
    /\ \/ stream.pc = "open" /\ MayStartUnread(stream.thread)
       \/ stream.pc # "open" /\ LoseReader(thread) /\ UNCHANGED server
    /\ UNCHANGED thread

-----------------------------------------------------------------------------
(* The stream.                                                              *)

\* The promise of startPlanning ends with this state, and the clicks that wait for
\* it go on at once, one after the other, before the page renders again: the last
\* switch wins.
EndStream(s) ==
    LET resets == {w \in pending : w.to = "reset"}
        switches == pending \ resets
    IN
    /\ stream' = NoStream
    /\ pending' = {}
    /\ \/ pending = {} /\ ui' = s /\ UNCHANGED <<thread, active, requests>>
       \/ switches = {} /\ DoResets(s, resets)
       \/ \E last \in Latest(switches) : SwitchTo(last, resets)

\* The server confirms the draft and plans, or refuses with 409, for its status or
\* for a draft that is no longer the page's, or fails, or its answer is lost.
StreamOpens ==
    LET t == stream.thread IN
    /\ stream.pc = "open"
    /\ \/ /\ Confirm(t, TRUE)
          /\ stream' = [stream EXCEPT !.pc = "reading"]
          /\ UNCHANGED <<thread, ui, active, requests, pending>>
       \/ /\ stream' = [stream EXCEPT !.pc = "resync", !.cause = "conflict"]
          /\ UNCHANGED <<thread, ui, active, requests, pending, serverVars>>
       \/ EndStream(SHOW_ERROR(ui)) /\ MayStartUnread(t)
    /\ UNCHANGED clicks

\* What the end of a run does to its conversation: mark_planned after the plan has
\* been sent, or, if that fails too, the rollback of one that is planning, which may
\* fail as well.
Concluded(t, planned) ==
    \/ planned /\ SetServer(t, "planned")
    \/ server[t] = "planning" /\ SetServer(t, "awaiting_confirmation")
    \/ UNCHANGED server

\* A run ends and tells its reader.  After a reset its fingerprint is no longer the
\* conversation's, unless the user has made the same draft again.
RunEnds(t) ==
    \E k \in run[t], planned \in BOOLEAN :
        /\ \/ /\ k.current \/ server[t] \in {"awaiting_confirmation", "planning"}
              /\ Concluded(t, planned)
           \/ ~k.current /\ UNCHANGED server
        /\ stream' = IF k.read /\ stream.pc = "reading"
                     THEN [stream EXCEPT !.sent = IF planned THEN "planned" ELSE "error"]
                     ELSE stream
        /\ run' = [run EXCEPT ![t] = @ \ {k}]
        /\ UNCHANGED <<thread, ui, active, requests, pending, clicks>>

\* The terminal event, which onEvent drops after an abort, and then the end of
\* the stream.
StreamEvent ==
    /\ stream.pc = "reading" /\ stream.sent # "none" /\ stream.terminal = "none"
    /\ ui' = IF stream.aborted THEN ui ELSE STREAM_EVENT(ui, stream.sent, stream.thread)
    /\ stream' = [stream EXCEPT !.terminal = IF stream.aborted THEN "ignored" ELSE stream.sent]
    /\ UNCHANGED <<thread, active, requests, pending, serverVars, clicks>>

StreamEnds ==
    /\ stream.pc = "reading" /\ stream.terminal # "none"
    /\ stream' = [stream EXCEPT !.pc = "resync", !.cause = "end"]
    /\ UNCHANGED <<thread, ui, active, requests, pending, serverVars, clicks>>

\* Mutant of StreamBreaks: an end without a terminal event is an end.
StreamBreaksQuietly ==
    /\ stream.pc = "reading"
    /\ stream' = [stream EXCEPT !.pc = "resync", !.cause = "end"]
    /\ LoseReader(stream.thread)
    /\ UNCHANGED <<thread, ui, active, requests, pending, server, clicks>>

\* The connection breaks, or the stream ends without a terminal event.
StreamBreaks ==
    /\ stream.pc = "reading"
    /\ LoseReader(stream.thread)
    /\ IF stream.aborted
       THEN /\ stream' = [stream EXCEPT !.pc = "resync", !.cause = "stop"]
            /\ UNCHANGED <<thread, ui, active, requests, pending>>
       ELSE EndStream(SHOW_ERROR(ui))
    /\ UNCHANGED <<server, clicks>>

\* The server's answer to the resync's GET, which takes a while to arrive.
ResyncAnswered ==
    /\ stream.pc = "resync" /\ stream.reply = "sent"
    /\ \E reply \in {server[stream.thread], "failed"} : stream' = [stream EXCEPT !.reply = reply]
    /\ UNCHANGED <<thread, ui, active, requests, pending, serverVars, clicks>>

\* What follows the resync depends on why the stream has ended.
Resynced ==
    LET s == IF stream.reply = "failed" THEN ui
             ELSE CONVERSATION_RECEIVED(ui, stream.thread, stream.reply) IN
    /\ stream.pc = "resync" /\ stream.reply # "sent"
    /\ EndStream(CASE stream.cause = "stop" -> STOPPED(s)
                    [] stream.cause = "conflict" \/ stream.terminal = "error" -> SHOW_ERROR(s)
                    [] OTHER -> s)
    /\ UNCHANGED <<serverVars, clicks>>

-----------------------------------------------------------------------------
User ==
    \/ ClickSend \/ ClickConfirm \/ ClickReload \/ ClickDismiss \/ ClickStop
    \/ (\E t \in Threads : ClickSelect(t)) \/ ClickReset \/ ReloadPage

Page ==
    \/ \E r \in requests : Settle(r)
    \/ StreamEvent \/ StreamEnds \/ Resynced

Network ==
    \/ \E r \in requests : ServerAnswers(r)
    \/ StreamOpens \/ StreamBreaks \/ ResyncAnswered
    \/ \E t \in Threads : RunEnds(t)

BrowserNext == User \/ Page \/ Network

BrowserSpec == BrowserInit /\ [][BrowserNext]_browserVars

\* The page and the server go on by themselves; the user need not.
BrowserFairness == WF_browserVars(Page \/ Network)

-----------------------------------------------------------------------------
(* Properties.                                                              *)

\* Whatever is on its way when the user switches, resets or reloads, the page
\* shows the conversation and the plan of its thread and of no other.
ShowsThisThread == {ui.of, ui.plan} \subseteq {"nowhere", thread}

\* A page that plans with a stream does not plan for ever, however the stream
\* ends: with an event, without one, refused or broken; unless the user left it
\* before its terminal event came.
PlanningIsLeft ==
    stream.pc # "off" /\ ui.phase = "planning" ~>
        ui.phase # "planning" \/ stream.terminal = "ignored"

\* docs/23: Stop, Reset, New Trip and selecting another thread abort the active
\* POST stream, which is what ends the server's run.
AbortEndsStream == stream.aborted => \A k \in run[stream.thread] : ~k.read

=============================================================================
