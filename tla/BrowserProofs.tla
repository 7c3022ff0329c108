---------------------------- MODULE BrowserProofs ----------------------------
(***************************************************************************)
(* The page shows the thread it is on and no other, for any threads and    *)
(* any number of clicks.  What makes it so: the active request is of this  *)
(* thread, the stream is of this thread, and each click that waits for the *)
(* stream's end has a number no request and no other such click has.       *)
(***************************************************************************)
EXTENDS Browser, TLAPS

Shows(s, t) == s.of \in {"nowhere", t} /\ s.plan \in {"nowhere", t}

Asked ==
    /\ active <= clicks + 1
    /\ \A r \in requests : r.id <= clicks + 1 /\ (r.id = active => r.thread = thread)

\* A click whose request, if it sends one, nothing else has the number of.
Unused(w) == w.id <= clicks + 1 /\ \A r \in requests : r.id # w.id

Waits ==
    /\ \A w \in pending : Unused(w)
    /\ \A v, w \in pending : v.id = w.id => v = w

Streams == stream.pc # "off" => stream.thread = thread

PageInv == BrowserTypeOK /\ Shows(ui, thread) /\ Asked /\ Waits /\ Streams

\* The part of it that is about what the page shows and has asked for.
Consistent ==
    /\ thread \in Threads /\ ui \in AppState /\ Shows(ui, thread)
    /\ requests \in SUBSET PageRequest /\ active \in 0..MaxClicks + 1
    /\ Asked

\* And about the stream and the clicks that wait for it.
Following ==
    /\ stream \in Stream /\ Streams
    /\ pending \in SUBSET WaitingClick /\ Waits

-----------------------------------------------------------------------------
(* The reducer's actions keep an AppState of a thread one of that thread.   *)

LEMMA Fresh ==
    \A t : /\ LOAD_START \in AppState /\ Shows(LOAD_START, t)
           /\ CLEAR_TRIP \in AppState /\ Shows(CLEAR_TRIP, t)
           /\ LOAD_EMPTY \in AppState /\ Shows(LOAD_EMPTY, t)
<1>1. initialAppState \in AppState /\ \A t : Shows(initialAppState, t)
  BY ZenonT(40) DEF initialAppState, AppState, Shows, Phases, Statuses, Somewhere
<1>2. LOAD_START \in AppState /\ \A t : Shows(LOAD_START, t)
  BY <1>1 DEF LOAD_START
<1>3. CLEAR_TRIP \in AppState /\ \A t : Shows(CLEAR_TRIP, t)
  BY ZenonT(40) DEF CLEAR_TRIP, initialAppState, AppState, Shows, Phases, Statuses, Somewhere
<1>4. LOAD_EMPTY \in AppState /\ \A t : Shows(LOAD_EMPTY, t)
  BY <1>3 DEF LOAD_EMPTY
<1> QED BY <1>2, <1>3, <1>4

LEMMA Received ==
    ASSUME NEW s \in AppState, NEW t \in Threads, NEW status \in Statuses, Shows(s, t)
    PROVE  /\ CONVERSATION_RECEIVED(s, t, status) \in AppState
           /\ Shows(CONVERSATION_RECEIVED(s, t, status), t)
BY ZenonT(40) DEF CONVERSATION_RECEIVED, AppState, Shows, Phases, Statuses, Somewhere

LEMMA Restored ==
    ASSUME NEW s \in AppState, NEW t \in Threads, Shows(s, t)
    PROVE  PLAN_RESTORED(s, t) \in AppState /\ Shows(PLAN_RESTORED(s, t), t)
BY ZenonT(40) DEF PLAN_RESTORED, AppState, Shows, Phases, Statuses, Somewhere

LEMMA Reduced ==
    ASSUME NEW s \in AppState, NEW t \in Threads, Shows(s, t)
    PROVE  /\ SEND_START(s) \in AppState /\ Shows(SEND_START(s), t)
           /\ SEND_FAILED(s) \in AppState /\ Shows(SEND_FAILED(s), t)
           /\ PLAN_START(s) \in AppState /\ Shows(PLAN_START(s), t)
           /\ STOPPED(s) \in AppState /\ Shows(STOPPED(s), t)
           /\ SHOW_ERROR(s) \in AppState /\ Shows(SHOW_ERROR(s), t)
           /\ CLEAR_ERROR(s) \in AppState /\ Shows(CLEAR_ERROR(s), t)
<1>1. SEND_START(s) \in AppState /\ Shows(SEND_START(s), t)
  BY DEF SEND_START, AppState, Shows, Phases, Statuses, Somewhere
<1>2. SEND_FAILED(s) \in AppState /\ Shows(SEND_FAILED(s), t)
  BY DEF SEND_FAILED, AppState, Shows, Phases, Statuses, Somewhere
<1>3. PLAN_START(s) \in AppState /\ Shows(PLAN_START(s), t)
  BY DEF PLAN_START, AppState, Shows, Phases, Statuses, Somewhere
<1>4. STOPPED(s) \in AppState /\ Shows(STOPPED(s), t)
  BY DEF STOPPED, AppState, Shows, Phases, Statuses, Somewhere
<1>5. SHOW_ERROR(s) \in AppState /\ Shows(SHOW_ERROR(s), t)
  BY DEF SHOW_ERROR, AppState, Shows, Phases, Statuses, Somewhere
<1>6. CLEAR_ERROR(s) \in AppState /\ Shows(CLEAR_ERROR(s), t)
  BY DEF CLEAR_ERROR, AppState, Shows, Phases, Statuses, Somewhere
<1> QED BY <1>1, <1>2, <1>3, <1>4, <1>5, <1>6

LEMMA Streamed ==
    ASSUME NEW s \in AppState, NEW t \in Threads, Shows(s, t), NEW event
    PROVE  STREAM_EVENT(s, event, t) \in AppState /\ Shows(STREAM_EVENT(s, event, t), t)
BY DEF STREAM_EVENT, AppState, Shows, Phases, Statuses, Somewhere

-----------------------------------------------------------------------------
(* A new request of this thread, with a number no other request has.        *)

LEMMA Activated ==
    ASSUME BrowserTypeOK, Asked, NEW kind \in {"load", "state", "send", "reset"},
           NEW t \in Threads, NEW id \in 1..MaxClicks + 1, Activate(kind, t, id),
           \A r \in requests : r.id # id
    PROVE  /\ requests' \in SUBSET PageRequest
           /\ active' = id
           /\ \A r \in requests' : r.id = active' => r.thread = t
           /\ \A r \in requests' : r \in requests \/ r.id = id
<1>1. Post(kind, t, id) \in PageRequest
  BY DEF Post, PageRequest, Replies
<1>2. Post(kind, t, id).thread = t /\ Post(kind, t, id).id = id
  BY DEF Post
<1> QED BY <1>1, <1>2 DEF Activate, BrowserTypeOK

LEMMA Numbered ==
    ASSUME BrowserTypeOK
    PROVE  \A r \in requests : r.id \in Nat /\ r.id # 0 /\ r.id \in 1..MaxClicks + 1
BY BrowserAssumption DEF BrowserTypeOK, PageRequest

\* The POSTs of resets are for this thread and have the clicks' numbers.
LEMMA ResetsPosted ==
    ASSUME BrowserTypeOK, NEW resets \in SUBSET WaitingClick
    PROVE  /\ ResetPosts(resets) \in SUBSET PageRequest
           /\ \A r \in ResetPosts(resets) :
                r.thread = thread /\ \E v \in resets : r.id = v.id
<1> SUFFICES ASSUME NEW r \in ResetPosts(resets)
             PROVE  /\ r \in PageRequest /\ r.thread = thread
                    /\ \E v \in resets : r.id = v.id
  OBVIOUS
<1>1. PICK v \in resets : r = Post("reset", thread, v.id)
  BY DEF ResetPosts
<1>2. v.id \in 1..MaxClicks + 1 /\ thread \in Threads
  BY DEF WaitingClick, BrowserTypeOK
<1> QED BY <1>1, <1>2 DEF Post, PageRequest, Replies

\* A switch, with the resets of the same turn.
LEMMA Switched ==
    ASSUME BrowserTypeOK, Asked, clicks' \in 0..MaxClicks, clicks <= clicks',
           NEW w \in WaitingClick, w.to \in Threads, w.id <= clicks' + 1,
           \A r \in requests : r.id # w.id,
           NEW resets \in SUBSET WaitingClick,
           \A v \in resets : v.id <= clicks' + 1 /\ v.id # w.id,
           SwitchTo(w, resets)
    PROVE  /\ Consistent'
           /\ \A r \in requests' : \/ r \in requests \/ r.id = w.id
                                   \/ \E v \in resets : r.id = v.id
<1> DEFINE load == Post("load", w.to, w.id)
<1>1. MaxClicks \in Nat /\ clicks \in Nat /\ clicks' \in Nat /\ w.id \in 1..MaxClicks + 1
  BY BrowserAssumption DEF BrowserTypeOK, WaitingClick
<1>2. load \in PageRequest /\ load.thread = w.to /\ load.id = w.id
  BY <1>1 DEF Post, PageRequest, Replies
<1>3. requests' = requests \union ResetPosts(resets) \union {load} /\ active' = w.id
  BY DEF SwitchTo
<1> HIDE DEF load
<1>4. requests' \in SUBSET PageRequest
  BY <1>2, <1>3, ResetsPosted DEF BrowserTypeOK
<1>5. \A r \in requests' : \/ r \in requests \/ r = load
                           \/ r \in ResetPosts(resets) /\ \E v \in resets : r.id = v.id
  BY <1>3, ResetsPosted
<1>6. ui' \in AppState /\ Shows(ui', thread') /\ thread' = w.to
  BY Fresh DEF SwitchTo
<1>7. Asked'
  <2>1. \A r \in requests : r.id \in Nat /\ r.id <= clicks' + 1
    BY <1>1, Numbered DEF Asked
  <2>2. \A r \in requests' : r.id <= clicks' + 1
    BY <1>2, <1>5, <2>1
  <2>3. \A r \in requests' : r.id = w.id => r.thread = w.to
    BY <1>2, <1>5
  <2> QED BY <1>3, <1>6, <2>2, <2>3 DEF Asked
<1>8. active' \in 0..MaxClicks + 1
  BY <1>1, <1>3
<1> QED BY <1>2, <1>4, <1>5, <1>6, <1>7, <1>8 DEF Consistent

\* Resets of this thread, one after the other.
LEMMA DidReset ==
    ASSUME BrowserTypeOK, Asked, clicks' \in 0..MaxClicks, clicks <= clicks',
           NEW s \in AppState, Shows(s, thread),
           NEW resets \in SUBSET WaitingClick,
           \A v \in resets : v.id <= clicks' + 1 /\ \A r \in requests : r.id # v.id,
           DoResets(s, resets)
    PROVE  /\ Consistent'
           /\ \A r \in requests' : r \in requests \/ \E v \in resets : r.id = v.id
<1>1. /\ MaxClicks \in Nat /\ clicks \in Nat /\ clicks' \in Nat
      /\ thread \in Threads /\ thread' = thread
      /\ requests' = requests \union ResetPosts(resets)
  BY BrowserAssumption DEF BrowserTypeOK, DoResets
<1>2. PICK last \in resets : active' = IF last.known THEN last.id ELSE 0
  BY DEF DoResets, Latest
<1>3. last.id \in 1..MaxClicks + 1 /\ last.id <= clicks' + 1
  BY DEF WaitingClick
<1>4. active' \in 0..MaxClicks + 1 /\ active' <= clicks' + 1 /\ (active' = 0 \/ active' = last.id)
  BY <1>1, <1>2, <1>3
<1>5. requests' \in SUBSET PageRequest
  BY <1>1, ResetsPosted DEF BrowserTypeOK
<1>6. \A r \in requests' : \/ r \in requests
                           \/ r.thread = thread /\ \E v \in resets : r.id = v.id
  BY <1>1, ResetsPosted
<1>7. \A r \in requests : r.id \in Nat /\ r.id <= clicks' + 1
  BY <1>1, Numbered DEF Asked
<1>8. ui' \in AppState /\ Shows(ui', thread)
  BY Fresh DEF DoResets
<1>9. \A r \in requests' : r.id <= clicks' + 1
  BY <1>6, <1>7
<1>10. \A r \in requests' : r.id = active' => r.thread = thread
  <2>1. \A v \in resets : v.id # 0
    BY DEF WaitingClick
  <2>2. \A r \in requests : r.id # active'
    BY <1>2, <1>4, Numbered
  <2> QED BY <1>6, <2>2
<1> QED BY <1>1, <1>4, <1>5, <1>6, <1>8, <1>9, <1>10 DEF Consistent, Asked

LEMMA StreamOver ==
    ASSUME PageInv, clicks' = clicks, NEW s \in AppState, Shows(s, thread), EndStream(s)
    PROVE  Consistent' /\ Following'
<1>1. /\ BrowserTypeOK /\ Asked /\ clicks' \in 0..MaxClicks /\ clicks \in Nat
      /\ MaxClicks \in Nat /\ clicks <= clicks'
  BY BrowserAssumption DEF PageInv, BrowserTypeOK
<1>2. Following'
  <2>1. stream' = NoStream /\ pending' = {}
    BY DEF EndStream
  <2>2. NoStream \in Stream /\ NoStream.pc = "off"
    BY DEF NoStream, Stream, Somewhere, Replies
  <2> QED BY <2>1, <2>2 DEF Following, Streams, Waits
<1>3. ASSUME ui' = s, UNCHANGED <<thread, active, requests>>
      PROVE  Consistent'
  BY <1>1, <1>3 DEF Consistent, Asked, BrowserTypeOK
<1> DEFINE resets == {w \in pending : w.to = "reset"}
           switches == pending \ resets
<1>4. /\ pending \in SUBSET WaitingClick
      /\ \A w \in pending : w.id <= clicks' + 1 /\ \A r \in requests : r.id # w.id
      /\ \A v, w \in pending : v.id = w.id => v = w
  BY <1>1 DEF PageInv, Waits, Unused, BrowserTypeOK
<1>5. ASSUME DoResets(s, resets)
      PROVE  Consistent'
  <2>1. /\ resets \in SUBSET WaitingClick
        /\ \A w \in resets : w.id <= clicks' + 1 /\ \A r \in requests : r.id # w.id
    BY <1>4
  <2> HIDE DEF resets
  <2> QED BY <1>1, <1>5, <2>1, DidReset
<1>6. ASSUME NEW last \in Latest(switches), SwitchTo(last, resets)
      PROVE  Consistent'
  <2>1. last \in pending /\ last.to # "reset"
    BY <1>6 DEF Latest
  <2>2. last \in WaitingClick /\ last.to \in Threads
    BY <1>4, <2>1 DEF WaitingClick
  <2>3. last.id <= clicks' + 1 /\ \A r \in requests : r.id # last.id
    BY <1>4, <2>1
  <2>4. resets \in SUBSET WaitingClick /\ \A v \in resets : v.id <= clicks' + 1 /\ v.id # last.id
    BY <1>4, <2>1
  <2> HIDE DEF resets
  <2> QED BY <1>1, <1>6, <2>2, <2>3, <2>4, Switched
<1> QED BY <1>2, <1>3, <1>5, <1>6 DEF EndStream

-----------------------------------------------------------------------------
(* Clicks.                                                                  *)

LEMMA Clicked ==
    ASSUME PageInv, Click
    PROVE  /\ clicks' \in 0..MaxClicks /\ clicks' = clicks + 1 /\ clicks \in Nat
           /\ clicks <= clicks'
           /\ NewId \in 1..MaxClicks + 1 /\ NewId <= clicks' + 1
           /\ \A r \in requests : r.id # NewId
           /\ \A w \in pending : w.id # NewId /\ w.id <= clicks' + 1
<1>1. /\ BrowserTypeOK /\ MaxClicks \in Nat /\ clicks \in Nat
      /\ clicks < MaxClicks /\ clicks' = clicks + 1
  BY BrowserAssumption DEF PageInv, BrowserTypeOK, Click
<1>2. /\ clicks' \in 0..MaxClicks /\ clicks <= clicks'
      /\ NewId \in 1..MaxClicks + 1 /\ NewId <= clicks' + 1
  BY <1>1 DEF NewId
<1>3. \A r \in requests : r.id # NewId
  <2>1. \A r \in requests : r.id \in Nat /\ r.id <= clicks + 1
    BY <1>1, Numbered DEF PageInv, Asked
  <2> QED BY <1>1, <2>1 DEF NewId
<1>4. \A w \in pending : w.id # NewId /\ w.id <= clicks' + 1
  BY <1>1 DEF PageInv, Waits, Unused, NewId, BrowserTypeOK, WaitingClick
<1> QED BY <1>1, <1>2, <1>3, <1>4

\* A click that sends a request of this thread.
LEMMA Posted ==
    ASSUME PageInv, Click, NEW kind \in {"load", "state", "send", "reset"},
           Activate(kind, thread, NewId), thread' = thread, ui' \in AppState, Shows(ui', thread)
    PROVE  Consistent' /\ (pending' = pending => Waits')
<1>1. /\ BrowserTypeOK /\ Asked /\ thread \in Threads /\ MaxClicks \in Nat
  BY BrowserAssumption DEF PageInv, BrowserTypeOK
<1>2. /\ requests' \in SUBSET PageRequest /\ active' = NewId
      /\ \A r \in requests' : r.id = active' => r.thread = thread
      /\ \A r \in requests' : r \in requests \/ r.id = NewId
  BY <1>1, Clicked, Activated
<1>3. \A r \in requests : r.id \in Nat /\ r.id <= clicks' + 1
  BY <1>1, Clicked, Numbered DEF Asked
<1>4. Asked'
  BY <1>2, <1>3, Clicked DEF Asked
<1>5. pending' = pending => Waits'
  BY <1>2, Clicked DEF PageInv, Waits, Unused
<1> QED BY <1>1, <1>2, <1>4, <1>5, Clicked DEF Consistent

\* A click that sends nothing.
LEMMA Unasked ==
    ASSUME PageInv, Click, UNCHANGED <<thread, active, requests>>, ui' \in AppState,
           Shows(ui', thread)
    PROVE  Consistent' /\ (pending' = pending => Waits')
<1>1. BrowserTypeOK /\ Asked
  BY DEF PageInv
<1>2. \A r \in requests : r.id \in Nat /\ r.id <= clicks' + 1
  BY <1>1, Clicked, Numbered DEF Asked
<1>3. active' <= clicks' + 1
  BY <1>1, Clicked, BrowserAssumption DEF Asked, BrowserTypeOK
<1>4. Asked'
  BY <1>1, <1>2, <1>3 DEF Asked
<1>5. pending' = pending => Waits'
  BY Clicked DEF PageInv, Waits, Unused
<1> QED BY <1>1, <1>4, <1>5 DEF Consistent, BrowserTypeOK

\* What clicks and events do to the stream and the server.
Serves == server \in [Threads -> Statuses] /\ run \in [Threads -> SUBSET PlanningRun]

LEMMA Confirms ==
    ASSUME PageInv, NEW t \in Threads, NEW read \in BOOLEAN, Confirm(t, read)
    PROVE  Serves'
<1>1. [read |-> read, current |-> TRUE] \in PlanningRun
  BY DEF PlanningRun
<1> QED BY <1>1 DEF PageInv, BrowserTypeOK, Serves, Confirm, SetServer, Statuses

LEMMA MayConfirm ==
    ASSUME PageInv, NEW t \in Threads, MayStartUnread(t)
    PROVE  Serves'
<1>1. CASE Confirm(t, FALSE)
  BY <1>1, Confirms
<1>2. CASE UNCHANGED serverVars
  BY <1>2 DEF PageInv, BrowserTypeOK, Serves, serverVars
<1> QED BY <1>1, <1>2 DEF MayStartUnread

\* What is changed about each run of a conversation keeps it a run.
LEMMA RunsChanged ==
    ASSUME NEW k \in PlanningRun
    PROVE  [k EXCEPT !.read = FALSE] \in PlanningRun /\ [k EXCEPT !.current = FALSE] \in PlanningRun
BY DEF PlanningRun

LEMMA ReaderLost ==
    ASSUME PageInv, NEW t \in Threads, LoseReader(t), server' = server
    PROVE  Serves'
<1>1. \A k \in run[t] : [k EXCEPT !.read = FALSE] \in PlanningRun
  BY RunsChanged DEF PageInv, BrowserTypeOK
<1> QED BY <1>1 DEF PageInv, BrowserTypeOK, Serves, LoseReader

LEMMA Aborts ==
    ASSUME PageInv, Abort, thread' = thread
    PROVE  Serves' /\ stream' \in Stream /\ Streams'
<1>1. stream \in Stream /\ Streams /\ thread \in Threads /\ BrowserTypeOK
  BY DEF PageInv, BrowserTypeOK
<1>2. CASE stream.pc = "open"
  <2>1. /\ stream' = [stream EXCEPT !.pc = "resync", !.cause = "stop", !.aborted = TRUE]
        /\ MayStartUnread(thread)
    BY <1>1, <1>2 DEF Abort, Streams
  <2> QED BY <1>1, <1>2, <2>1, MayConfirm DEF Stream, Streams
<1>3. CASE stream.pc # "open"
  <2>1. stream' = [stream EXCEPT !.aborted = stream.pc # "off"] /\ UNCHANGED serverVars
    BY <1>3 DEF Abort
  <2>2. (stream.pc # "off") \in BOOLEAN
    OBVIOUS
  <2>3. stream' \in Stream /\ stream'.pc = stream.pc /\ stream'.thread = stream.thread
    BY <1>1, <2>1, <2>2 DEF Stream
  <2> QED BY <1>1, <2>1, <2>3 DEF Streams, BrowserTypeOK, Serves, serverVars
<1> QED BY <1>2, <1>3

\* The invariant from its parts.
LEMMA Whole ==
    ASSUME Consistent', Following', Serves', clicks' \in 0..MaxClicks
    PROVE  PageInv'
BY DEF Consistent, Following, Serves, PageInv, BrowserTypeOK

\* A click that leaves stream and server alone.
LEMMA QuietClick ==
    ASSUME PageInv, Click, Consistent', Waits', UNCHANGED <<thread, stream, pending, serverVars>>
    PROVE  PageInv'
<1>1. Following'
  BY DEF PageInv, BrowserTypeOK, Following, Streams
<1>2. Serves'
  BY DEF PageInv, BrowserTypeOK, Serves, serverVars
<1> QED BY <1>1, <1>2, Clicked, Whole

LEMMA UserKeeps ==
    ASSUME PageInv, User
    PROVE  PageInv'
<1>1. /\ BrowserTypeOK /\ Asked /\ Waits /\ Streams /\ ui \in AppState /\ Shows(ui, thread)
      /\ thread \in Threads /\ stream \in Stream /\ MaxClicks \in Nat
      /\ pending \in SUBSET WaitingClick
  BY BrowserAssumption DEF PageInv, BrowserTypeOK
<1>2. CASE ClickSend
  <2>1. Click /\ ui' = SEND_START(ui) /\ Activate("send", thread, NewId)
        /\ UNCHANGED <<thread, stream, pending, serverVars>>
    BY <1>2 DEF ClickSend
  <2>2. Consistent' /\ Waits'
    BY <1>1, <2>1, Reduced, Posted
  <2> QED BY <2>1, <2>2, QuietClick
<1>3. CASE ClickReload
  <2>1. Click /\ ui' = LOAD_START /\ Activate("load", thread, NewId)
        /\ UNCHANGED <<thread, stream, pending, serverVars>>
    BY <1>3 DEF ClickReload
  <2>2. Consistent' /\ Waits'
    BY <1>1, <2>1, Fresh, Posted
  <2> QED BY <2>1, <2>2, QuietClick
<1>4. CASE ClickDismiss
  <2>1. Click /\ ui' = CLEAR_ERROR(ui)
        /\ UNCHANGED <<thread, active, requests, stream, pending, serverVars>>
    BY <1>4 DEF ClickDismiss
  <2>2. Consistent' /\ Waits'
    BY <1>1, <2>1, Reduced, Unasked
  <2> QED BY <2>1, <2>2, QuietClick
<1>5. CASE ClickConfirm
  <2>1. /\ Click /\ ui' = PLAN_START(ui)
        /\ stream' = [NoStream EXCEPT !.pc = "open", !.thread = thread]
        /\ UNCHANGED <<thread, active, requests, pending, serverVars>>
    BY <1>5 DEF ClickConfirm
  <2>2. Consistent' /\ Waits'
    BY <1>1, <2>1, Reduced, Unasked
  <2>3. stream' \in Stream /\ Streams'
    BY <1>1, <2>1 DEF NoStream, Stream, Streams, Somewhere, Replies
  <2>4. Following' /\ Serves'
    BY <1>1, <2>1, <2>2, <2>3 DEF Following, Serves, BrowserTypeOK, serverVars
  <2> QED BY <2>1, <2>2, <2>4, Clicked, Whole
<1>6. CASE ClickStop
  <2>1. Click /\ Abort /\ UNCHANGED <<thread, ui, active, requests, pending>>
    BY <1>6 DEF ClickStop
  <2>2. Consistent' /\ Waits'
    BY <1>1, <2>1, Unasked
  <2>3. stream' \in Stream /\ Streams' /\ Serves'
    BY <2>1, Aborts
  <2>4. Following'
    BY <1>1, <2>1, <2>2, <2>3 DEF Following
  <2> QED BY <2>1, <2>2, <2>3, <2>4, Clicked, Whole
<1>7. ASSUME NEW w \in WaitingClick, w.id = NewId, Click, StopFirst(w)
      PROVE  PageInv'
  <2>1. Abort /\ pending' = pending \union {w} /\ UNCHANGED <<thread, ui, active, requests>>
    BY <1>7 DEF StopFirst
  <2>2. Consistent'
    BY <1>1, <1>7, <2>1, Unasked
  <2>3. stream' \in Stream /\ Streams' /\ Serves'
    BY <2>1, Aborts
  <2>4. Waits' /\ pending' \in SUBSET WaitingClick
    BY <1>1, <1>7, <2>1, Clicked DEF Waits, Unused
  <2>5. Following'
    BY <2>3, <2>4 DEF Following
  <2> QED BY <1>7, <2>2, <2>3, <2>5, Clicked, Whole
<1>8. ASSUME Click, UNCHANGED <<stream, pending, serverVars>>, stream.pc = "off", Consistent',
             \A r \in requests' : r \in requests \/ r.id = NewId
      PROVE  PageInv'
  <2>1. Waits'
    BY <1>1, <1>8, Clicked DEF Waits, Unused
  <2>2. Following' /\ Serves'
    BY <1>1, <1>8, <2>1 DEF Following, Serves, BrowserTypeOK, serverVars, Streams
  <2> QED BY <1>8, <2>2, Clicked, Whole
<1>9. ASSUME NEW t \in Threads, ClickSelect(t)
      PROVE  PageInv'
  <2> DEFINE w == Select(t)
  <2>1. Click
    BY <1>9 DEF ClickSelect
  <2>2. w \in WaitingClick /\ w.id = NewId /\ w.to = t
    BY <2>1, Clicked DEF WaitingClick, Select
  <2> HIDE DEF w
  <2>3. CASE stream.pc = "off" /\ SwitchTo(w, {}) /\ UNCHANGED <<stream, pending, serverVars>>
    <3>1. /\ {} \in SUBSET WaitingClick
          /\ \A v \in {} : v.id <= clicks' + 1 /\ v.id # w.id
      OBVIOUS
    <3>2. /\ Consistent'
          /\ \A r \in requests' : \/ r \in requests \/ r.id = w.id
                                  \/ \E v \in {} : r.id = v.id
      BY <1>1, <2>1, <2>2, <2>3, <3>1, Clicked, Switched
    <3> QED BY <1>8, <2>1, <2>2, <2>3, <3>2
  <2>4. CASE StopFirst(w)
    BY <1>7, <2>1, <2>2, <2>4
  <2> QED BY <1>9, <2>3, <2>4 DEF ClickSelect, w
<1>10. CASE ClickReset
  <2> DEFINE w == Reset
  <2>1. Click
    BY <1>10 DEF ClickReset
  <2>2. w \in WaitingClick /\ w.id = NewId
    <3>1. (ui.of # "nowhere") \in BOOLEAN
      OBVIOUS
    <3> QED BY <2>1, <3>1, Clicked DEF WaitingClick, Reset
  <2> HIDE DEF w
  <2>3. CASE stream.pc = "off" /\ DoResets(ui, {w}) /\ UNCHANGED <<stream, pending, serverVars>>
    <3>1. /\ {w} \in SUBSET WaitingClick
          /\ \A v \in {w} : v.id <= clicks' + 1 /\ \A r \in requests : r.id # v.id
      BY <2>1, <2>2, Clicked
    <3>2. /\ Consistent'
          /\ \A r \in requests' : r \in requests \/ \E v \in {w} : r.id = v.id
      BY <1>1, <2>1, <2>3, <3>1, Clicked, DidReset
    <3> QED BY <1>8, <2>1, <2>2, <2>3, <3>2
  <2>4. CASE StopFirst(w)
    BY <1>7, <2>1, <2>2, <2>4
  <2> QED BY <1>10, <2>3, <2>4 DEF ClickReset, w
<1>11. CASE ReloadPage
  <2>1. /\ Click /\ ui' = LOAD_START /\ Activate("load", thread, NewId)
        /\ stream' = NoStream /\ pending' = {} /\ thread' = thread
        /\ \/ stream.pc = "open" /\ MayStartUnread(stream.thread)
           \/ LoseReader(thread) /\ server' = server
    BY <1>11 DEF ReloadPage
  <2>2. Consistent'
    BY <1>1, <2>1, Fresh, Posted
  <2>3. Following'
    BY <1>1, <2>1 DEF Following, NoStream, Stream, Streams, Waits, Somewhere, Replies
  <2>4. Serves'
    <3>1. CASE stream.pc = "open" /\ MayStartUnread(stream.thread)
      BY <1>1, <3>1, MayConfirm DEF Streams
    <3>2. CASE LoseReader(thread) /\ server' = server
      BY <1>1, <3>2, ReaderLost
    <3> QED BY <2>1, <3>1, <3>2
  <2> QED BY <2>1, <2>2, <2>3, <2>4, Clicked, Whole
<1> QED BY <1>2, <1>3, <1>4, <1>5, <1>6, <1>9, <1>10, <1>11 DEF User

-----------------------------------------------------------------------------
(* Answers and the stream.                                                  *)

\* A step that is no click and leaves what is asked for alone.
LEMMA Unclicked ==
    ASSUME PageInv, UNCHANGED <<thread, active, requests, clicks>>, ui' \in AppState,
           Shows(ui', thread)
    PROVE  Consistent' /\ (pending' = pending => Waits') /\ clicks' \in 0..MaxClicks
BY DEF PageInv, Consistent, Asked, Waits, Unused, BrowserTypeOK

LEMMA SettleKeeps ==
    ASSUME PageInv, NEW r \in requests, Settle(r)
    PROVE  PageInv'
<1>1. /\ BrowserTypeOK /\ Asked /\ Waits /\ Streams /\ ui \in AppState /\ Shows(ui, thread)
      /\ thread \in Threads /\ r \in PageRequest /\ (r.id = active => r.thread = thread)
      /\ r.id \in Nat /\ r.id # 0 /\ r.thread \in Threads /\ r.id \in 1..MaxClicks + 1
      /\ requests \in SUBSET PageRequest /\ MaxClicks \in Nat
      /\ UNCHANGED <<thread, stream, pending, serverVars, clicks>>
  BY BrowserAssumption DEF PageInv, BrowserTypeOK, Settle, Asked, PageRequest
<1>2. Serves' /\ clicks' \in 0..MaxClicks
  BY <1>1 DEF Serves, BrowserTypeOK, serverVars
<1>3. ASSUME requests' \subseteq requests, ui' \in AppState, Shows(ui', thread),
             active' = active \/ active' = 0
      PROVE  PageInv'
  <2>1. active' \in 0..MaxClicks + 1 /\ active' <= clicks' + 1
    BY <1>1, <1>3 DEF BrowserTypeOK, Asked
  <2>2. \A q \in requests' : q.id # 0
    BY <1>1, <1>3, Numbered
  <2>3. Asked'
    BY <1>1, <1>3, <2>1, <2>2 DEF Asked
  <2>4. Consistent'
    BY <1>1, <1>3, <2>1, <2>3 DEF Consistent
  <2>5. Following'
    BY <1>1, <1>3 DEF Following, Streams, Waits, Unused, BrowserTypeOK
  <2> QED BY <1>2, <2>4, <2>5, Whole
<1>4. CASE r.id # active
  <2>1. requests' \subseteq requests /\ ui' = ui /\ active' = active
    BY <1>4 DEF Settle
  <2> QED BY <1>1, <1>3, <2>1
<1>5. CASE r.id = active /\ r.kind = "load" /\ r.reply = "planned"
  <2>1. /\ ui' = CONVERSATION_RECEIVED(ui, r.thread, r.reply)
        /\ requests' = (requests \ {r}) \union {Post("state", r.thread, r.id)}
        /\ active' = active
    BY <1>5 DEF Settle
  <2>2. Post("state", r.thread, r.id) \in PageRequest
    BY <1>1 DEF Post, PageRequest, Replies
  <2>3. Post("state", r.thread, r.id).thread = thread /\ Post("state", r.thread, r.id).id = r.id
    BY <1>1, <1>5 DEF Post
  <2>4. ui' \in AppState /\ Shows(ui', thread)
    BY <1>1, <1>5, <2>1, Received DEF Statuses
  <2>5. Asked'
    BY <1>1, <2>1, <2>3 DEF Asked
  <2>6. Consistent'
    BY <1>1, <2>1, <2>2, <2>4, <2>5 DEF Consistent, BrowserTypeOK
  <2>7. Following'
    BY <1>1, <2>1, <2>3 DEF Following, Streams, Waits, Unused, BrowserTypeOK
  <2> QED BY <1>2, <2>6, <2>7, Whole
<1>6. CASE r.id = active /\ ~(r.kind = "load" /\ r.reply = "planned")
  <2>1. r.thread = thread /\ (r.reply \in Statuses =>
             /\ CONVERSATION_RECEIVED(ui, r.thread, r.reply) \in AppState
             /\ Shows(CONVERSATION_RECEIVED(ui, r.thread, r.reply), thread)
             /\ CONVERSATION_RECEIVED(CLEAR_TRIP, r.thread, r.reply) \in AppState
             /\ Shows(CONVERSATION_RECEIVED(CLEAR_TRIP, r.thread, r.reply), thread))
    BY <1>1, <1>6, Fresh, Received
  <2>2. /\ PLAN_RESTORED(ui, r.thread) \in AppState
        /\ Shows(PLAN_RESTORED(ui, r.thread), thread)
    BY <1>1, <2>1, Restored
  <2>3. ui' \in AppState /\ Shows(ui', thread)
    BY <1>1, <1>6, <2>1, <2>2, Fresh, Reduced DEF Settle
  <2>4. requests' \subseteq requests /\ active' = 0
    BY <1>6 DEF Settle
  <2> QED BY <1>3, <2>3, <2>4
<1> QED BY <1>4, <1>5, <1>6

LEMMA PageKeeps ==
    ASSUME PageInv, Page
    PROVE  PageInv'
<1>1. /\ BrowserTypeOK /\ Waits /\ Streams /\ ui \in AppState /\ Shows(ui, thread)
      /\ thread \in Threads /\ stream \in Stream
      /\ pending \in SUBSET WaitingClick
  BY DEF PageInv, BrowserTypeOK
<1>2. CASE StreamEvent
  <2>1. /\ UNCHANGED <<thread, active, requests, pending, serverVars, clicks>>
        /\ stream.thread = thread /\ stream.sent \in {"none", "planned", "error"}
        /\ ui' = IF stream.aborted THEN ui ELSE STREAM_EVENT(ui, stream.sent, stream.thread)
        /\ stream' = [stream EXCEPT
               !.terminal = IF stream.aborted THEN "ignored" ELSE stream.sent]
    BY <1>1, <1>2 DEF StreamEvent, Streams, Stream
  <2>2. ui' \in AppState /\ Shows(ui', thread)
    BY <1>1, <2>1, Streamed
  <2>3. Consistent' /\ Waits' /\ clicks' \in 0..MaxClicks
    BY <2>1, <2>2, Unclicked
  <2>4. Following' /\ Serves'
    BY <1>1, <2>1, <2>3 DEF Following, Stream, Streams, Serves, BrowserTypeOK, serverVars
  <2> QED BY <2>3, <2>4, Whole
<1>3. CASE StreamEnds
  <2>1. /\ UNCHANGED <<thread, ui, active, requests, pending, serverVars, clicks>>
        /\ stream.pc = "reading" /\ stream' = [stream EXCEPT !.pc = "resync", !.cause = "end"]
    BY <1>3 DEF StreamEnds
  <2>2. Consistent' /\ Waits' /\ clicks' \in 0..MaxClicks
    BY <1>1, <2>1, Unclicked
  <2>3. Following' /\ Serves'
    BY <1>1, <2>1, <2>2 DEF Following, Stream, Streams, Serves, BrowserTypeOK, serverVars
  <2> QED BY <2>2, <2>3, Whole
<1>4. CASE Resynced
  <2> DEFINE s == IF stream.reply = "failed" THEN ui
                  ELSE CONVERSATION_RECEIVED(ui, stream.thread, stream.reply)
             end == CASE stream.cause = "stop" -> STOPPED(s)
                      [] stream.cause = "conflict" \/ stream.terminal = "error" -> SHOW_ERROR(s)
                      [] OTHER -> s
  <2>1. /\ stream.pc = "resync" /\ stream.reply # "sent" /\ EndStream(end)
        /\ UNCHANGED <<serverVars, clicks>>
    BY <1>4 DEF Resynced
  <2>2. stream.thread = thread /\ (stream.reply \in Statuses \/ stream.reply = "failed")
    BY <1>1, <2>1 DEF Streams, Stream, Replies
  <2>3. s \in AppState /\ Shows(s, thread)
    BY <1>1, <2>2, Received
  <2>4. end \in AppState /\ Shows(end, thread)
    <3> HIDE DEF s
    <3> QED BY <1>1, <2>3, Reduced
  <2>5. Consistent' /\ Following'
    <3> HIDE DEF end
    <3> QED BY <2>1, <2>4, StreamOver
  <2>6. Serves' /\ clicks' \in 0..MaxClicks
    BY <1>1, <2>1 DEF Serves, BrowserTypeOK, serverVars
  <2> QED BY <2>5, <2>6, Whole
<1> QED BY <1>2, <1>3, <1>4, SettleKeeps DEF Page

LEMMA AnswerKeeps ==
    ASSUME PageInv, NEW r \in requests, ServerAnswers(r)
    PROVE  PageInv'
<1>1. /\ BrowserTypeOK /\ Asked /\ Waits /\ Streams /\ r \in PageRequest
      /\ r.thread \in Threads /\ requests \in SUBSET PageRequest
      /\ UNCHANGED <<thread, ui, active, stream, pending, clicks>>
      /\ server \in [Threads -> Statuses]
  BY DEF PageInv, BrowserTypeOK, ServerAnswers, PageRequest
<1>2. PICK reply \in Replies :
          requests' = (requests \ {r}) \union {[r EXCEPT !.reply = reply]}
  BY <1>1 DEF ServerAnswers, Replies, Statuses
<1>3. /\ [r EXCEPT !.reply = reply] \in PageRequest
      /\ [r EXCEPT !.reply = reply].id = r.id /\ [r EXCEPT !.reply = reply].thread = r.thread
  BY <1>1 DEF PageRequest
<1>4. Asked' /\ Waits'
  BY <1>1, <1>2, <1>3 DEF Asked, Waits, Unused
<1>5. Consistent' /\ Following' /\ clicks' \in 0..MaxClicks
  BY <1>1, <1>2, <1>3, <1>4 DEF PageInv, Consistent, Following, Streams, BrowserTypeOK
<1>6. Serves'
  <2>1. \A k \in run[r.thread] : [k EXCEPT !.current = FALSE] \in PlanningRun
    BY <1>1, RunsChanged DEF BrowserTypeOK
  <2> QED BY <1>1, <2>1
          DEF ServerAnswers, Serves, SetServer, serverVars, Statuses, BrowserTypeOK
<1> QED BY <1>5, <1>6, Whole

LEMMA NetworkKeeps ==
    ASSUME PageInv, Network
    PROVE  PageInv'
<1>1. /\ BrowserTypeOK /\ Waits /\ Streams /\ ui \in AppState /\ Shows(ui, thread)
      /\ thread \in Threads /\ stream \in Stream /\ clicks \in 0..MaxClicks
      /\ server \in [Threads -> Statuses] /\ run \in [Threads -> SUBSET PlanningRun]
      /\ pending \in SUBSET WaitingClick
  BY DEF PageInv, BrowserTypeOK
<1>2. SHOW_ERROR(ui) \in AppState /\ Shows(SHOW_ERROR(ui), thread)
  BY <1>1, Reduced
<1>3. ASSUME UNCHANGED <<thread, ui, active, requests, pending, clicks>>, stream' \in Stream,
             Streams', Serves'
      PROVE  PageInv'
  <2>1. Consistent' /\ Waits' /\ clicks' \in 0..MaxClicks
    BY <1>1, <1>3, Unclicked
  <2>2. Following'
    BY <1>1, <1>3, <2>1 DEF Following
  <2> QED BY <1>3, <2>1, <2>2, Whole
<1>4. CASE StreamOpens
  <2>1. stream.pc = "open" /\ stream.thread = thread /\ clicks' = clicks
    BY <1>1, <1>4 DEF StreamOpens, Streams
  <2>2. ASSUME Confirm(stream.thread, TRUE),
               stream' = [stream EXCEPT !.pc = "reading"],
               UNCHANGED <<thread, ui, active, requests, pending>>
        PROVE  PageInv'
    <3>1. stream' \in Stream /\ Streams'
      BY <1>1, <2>1, <2>2 DEF Stream, Streams
    <3>2. Serves'
      BY <1>1, <2>1, <2>2, Confirms
    <3> QED BY <1>3, <2>1, <2>2, <3>1, <3>2
  <2>3. ASSUME stream' = [stream EXCEPT !.pc = "resync", !.cause = "conflict"],
               UNCHANGED <<thread, ui, active, requests, pending, serverVars>>
        PROVE  PageInv'
    <3>1. stream' \in Stream /\ Streams'
      BY <1>1, <2>1, <2>3 DEF Stream, Streams
    <3>2. Serves'
      BY <1>1, <2>3 DEF Serves, serverVars
    <3> QED BY <1>3, <2>1, <2>3, <3>1, <3>2
  <2>4. ASSUME EndStream(SHOW_ERROR(ui)), MayStartUnread(stream.thread)
        PROVE  PageInv'
    <3>1. Consistent' /\ Following'
      BY <1>2, <2>1, <2>4, StreamOver
    <3>2. Serves'
      BY <1>1, <2>1, <2>4, MayConfirm
    <3>3. clicks' \in 0..MaxClicks
      BY <1>1, <2>1
    <3> QED BY <3>1, <3>2, <3>3, Whole
  <2> QED BY <1>4, <2>2, <2>3, <2>4 DEF StreamOpens
<1>5. CASE StreamBreaks
  <2>1. /\ stream.pc = "reading" /\ stream.thread = thread /\ UNCHANGED <<server, clicks>>
        /\ LoseReader(thread)
    BY <1>1, <1>5 DEF StreamBreaks, Streams
  <2>2. Serves'
    BY <1>1, <2>1, ReaderLost
  <2>3. CASE stream.aborted
    <3>1. /\ stream' = [stream EXCEPT !.pc = "resync", !.cause = "stop"]
          /\ UNCHANGED <<thread, ui, active, requests, pending>>
      BY <1>5, <2>3 DEF StreamBreaks
    <3>2. stream' \in Stream /\ Streams'
      BY <1>1, <2>1, <3>1 DEF Stream, Streams
    <3> QED BY <1>3, <2>1, <2>2, <3>1, <3>2
  <2>4. CASE ~stream.aborted
    <3>1. EndStream(SHOW_ERROR(ui))
      BY <1>5, <2>4 DEF StreamBreaks
    <3>2. Consistent' /\ Following'
      BY <1>2, <2>1, <3>1, StreamOver
    <3>3. clicks' \in 0..MaxClicks
      BY <1>1, <2>1
    <3> QED BY <2>2, <3>2, <3>3, Whole
  <2> QED BY <2>3, <2>4
<1>6. CASE ResyncAnswered
  <2>1. /\ stream.pc = "resync" /\ stream.thread = thread
        /\ \E reply \in {server[stream.thread], "failed"} :
               stream' = [stream EXCEPT !.reply = reply]
        /\ UNCHANGED <<thread, ui, active, requests, pending, serverVars, clicks>>
    BY <1>1, <1>6 DEF ResyncAnswered, Streams
  <2>2. server[stream.thread] \in Replies \ {"missing"} /\ "failed" \in Replies \ {"missing"}
    BY <1>1, <2>1 DEF Replies, Statuses
  <2>3. stream' \in Stream /\ Streams'
    BY <1>1, <2>1, <2>2 DEF Stream, Streams
  <2>4. Serves'
    BY <1>1, <2>1 DEF Serves, serverVars
  <2> QED BY <1>3, <2>1, <2>3, <2>4
<1>7. ASSUME NEW t \in Threads, RunEnds(t)
      PROVE  PageInv'
  <2>1. PICK k \in run[t], planned \in BOOLEAN :
          /\ Concluded(t, planned) \/ UNCHANGED server
          /\ stream' = IF k.read /\ stream.pc = "reading"
                       THEN [stream EXCEPT !.sent = IF planned THEN "planned" ELSE "error"]
                       ELSE stream
          /\ run' = [run EXCEPT ![t] = @ \ {k}]
          /\ UNCHANGED <<thread, ui, active, requests, pending, clicks>>
    BY <1>7 DEF RunEnds
  <2>2. stream' \in Stream /\ Streams'
    BY <1>1, <2>1 DEF Stream, Streams
  <2>3. Serves'
    BY <1>1, <1>7, <2>1 DEF Concluded, Serves, SetServer, Statuses
  <2> QED BY <1>3, <2>1, <2>2, <2>3
<1> QED BY <1>4, <1>5, <1>6, <1>7, AnswerKeeps DEF Network

-----------------------------------------------------------------------------
LEMMA PageBegins == BrowserInit => PageInv
<1> SUFFICES ASSUME BrowserInit PROVE PageInv
  OBVIOUS
<1>1. /\ thread \in Threads /\ ui = LOAD_START /\ active = 1 /\ clicks = 0
      /\ requests = {Post("load", thread, 1)} /\ stream = NoStream
      /\ pending = {} /\ MaxClicks \in Nat
  BY BrowserAssumption DEF BrowserInit
<1>2. Post("load", thread, 1) \in PageRequest
  BY <1>1 DEF Post, PageRequest, Replies
<1>3. NoStream \in Stream /\ NoStream.pc = "off"
  BY DEF NoStream, Stream, Somewhere, Replies
<1>4. BrowserTypeOK
  BY <1>1, <1>2, <1>3, Fresh DEF BrowserInit, BrowserTypeOK, Statuses
<1>5. Asked /\ Waits /\ Streams
  BY <1>1, <1>3 DEF Asked, Waits, Streams, Post
<1> QED BY <1>1, <1>4, <1>5, Fresh DEF PageInv

LEMMA PageSteps == PageInv /\ [BrowserNext]_browserVars => PageInv'
<1> SUFFICES ASSUME PageInv, [BrowserNext]_browserVars PROVE PageInv'
  OBVIOUS
<1>1. CASE UNCHANGED browserVars
  BY <1>1 DEF PageInv, BrowserTypeOK, Asked, Waits, Unused, Streams, browserVars, pageVars, serverVars
<1>2. CASE BrowserNext
  BY <1>2, UserKeeps, PageKeeps, NetworkKeeps DEF BrowserNext
<1> QED BY <1>1, <1>2

\* The page's state keeps its types for any threads and any number of clicks.
THEOREM PageTypeCorrect == BrowserSpec => []BrowserTypeOK
<1>1. PageInv => BrowserTypeOK
  BY DEF PageInv
<1> QED BY <1>1, PageBegins, PageSteps, PTL DEF BrowserSpec

\* The page shows the conversation and the plan of its own thread and of no
\* other, whatever is on its way when the user switches, resets or reloads.
THEOREM PageShowsThisThread == BrowserSpec => []ShowsThisThread
<1>1. PageInv => ShowsThisThread
  BY DEF PageInv, Shows, ShowsThisThread
<1> QED BY <1>1, PageBegins, PageSteps, PTL DEF BrowserSpec

=============================================================================
