--------------------------- MODULE AdmissionProofs ---------------------------
(***************************************************************************)
(* Lifespan and Admission, for any requests, limits, pauses and bounds:    *)
(* NothingStaysOpen, DownloadsArePaced and WindowsHold.  The three         *)
(* arguments are independent; each has an inductive invariant of its own.  *)
(***************************************************************************)
EXTENDS Admission, FiniteSetTheorems, TLAPS

-----------------------------------------------------------------------------
(* The life of the process.                                                 *)

Names == {"verifier", "engine", "redis", "chroma", "travel", "llm", "saver", "store"}

\* What is open was opened by this start, and a closing process has it on its list.
LifeInv ==
    /\ process \in {"down", "starting", "serving", "closing"}
    /\ opening \in 0..8
    /\ closing \in Seq(Names)
    /\ process = "down" => open = {}
    /\ process = "starting" => \A r \in open : \E i \in 1..opening : r = OpenOrder[i]
    /\ process = "serving" => opening = 8 /\ \A r \in open : \E i \in 1..8 : r = OpenOrder[i]
    /\ process = "closing" => \A r \in open : \E i \in 1..Len(closing) : r = closing[i]

LEMMA Order8 == Len(OpenOrder) = 8
BY DEF OpenOrder

LEMMA ListTyped == CloseList \in Seq(Names)
<1>1. <<"store", "saver", "verifier", "llm", "travel", "chroma", "redis", "engine">> \in Seq(Names)
  BY DEF Names
<1>2. <<"travel", "chroma", "redis", "engine", "verifier">> \in Seq(Names)
  BY DEF Names
<1> QED BY <1>1, <1>2 DEF CloseList

\* Whatever was opened on the way is on the list that applies.
LEMMA ListIsComplete ==
    ASSUME opening \in 0..8, NEW i \in 1..opening
    PROVE  \E j \in 1..Len(CloseList) : OpenOrder[i] = CloseList[j]
<1> DEFINE long == <<"store", "saver", "verifier", "llm", "travel", "chroma", "redis", "engine">>
           short == <<"travel", "chroma", "redis", "engine", "verifier">>
<1>1. CASE ResourcesReturned
  <2>1. CloseList = long
    BY <1>1 DEF CloseList
  <2>2. long \in Seq(Names) /\ Len(long) = 8
    BY DEF Names
  <2>3. i \in 1..8
    OBVIOUS
  <2>4. \E j \in 1..8 : OpenOrder[i] = long[j]
    BY <2>3 DEF OpenOrder
  <2> QED BY <2>1, <2>2, <2>4
<1>2. CASE ~ResourcesReturned
  <2>1. CloseList = short
    BY <1>2 DEF CloseList
  <2>2. short \in Seq(Names) /\ Len(short) = 5
    BY DEF Names
  <2>3. i \in 1..4
    BY <1>2 DEF ResourcesReturned
  <2>4. \E j \in 1..5 : OpenOrder[i] = short[j]
    BY <2>3 DEF OpenOrder
  <2> QED BY <2>1, <2>2, <2>4
<1> QED BY <1>1, <1>2

LEMMA LifeStep ==
    ASSUME LifeInv, LifespanNext
    PROVE  LifeInv'
<1>1. CASE StartProcess
  BY <1>1 DEF StartProcess, LifeInv
<1>2. CASE OpenNext
  <2>1. process' = "starting" /\ opening' = opening + 1 /\ opening' \in 1..8 /\ closing' = closing
    BY <1>2, Order8 DEF OpenNext, LifeInv
  <2>2. open' \subseteq open \union {OpenOrder[opening + 1]}
    BY <1>2 DEF OpenNext
  <2>3. ASSUME NEW r \in open' PROVE \E i \in 1..opening' : r = OpenOrder[i]
    <3>1. CASE r \in open
      <4>1. PICK i \in 1..opening : r = OpenOrder[i]
        BY <1>2, <3>1 DEF OpenNext, LifeInv
      <4>2. i \in 1..opening'
        BY <2>1 DEF LifeInv
      <4> QED BY <4>1, <4>2
    <3>2. CASE r = OpenOrder[opening + 1]
      BY <2>1, <3>2
    <3> QED BY <2>2, <3>1, <3>2
  <2> QED BY <2>1, <2>3 DEF LifeInv
<1>3. CASE Serve
  BY <1>3, Order8 DEF Serve, LifeInv
<1>4. CASE FailToStart
  <2>1. /\ process' = "closing" /\ closing' = CloseList /\ opening' = opening /\ open' = open
        /\ \A r \in open : \E i \in 1..opening : r = OpenOrder[i]
    BY <1>4 DEF FailToStart, LifeInv
  <2>2. ASSUME NEW r \in open PROVE \E j \in 1..Len(CloseList) : r = CloseList[j]
    BY <2>1, ListIsComplete DEF LifeInv
  <2>3. CloseList \in Seq(Names)
    BY ListTyped
  <2> QED BY <2>1, <2>2, <2>3 DEF LifeInv
<1>5. CASE StopProcess
  <2>1. /\ process' = "closing" /\ closing' = CloseList /\ opening' = opening /\ open' = open
        /\ \A r \in open : \E i \in 1..opening : r = OpenOrder[i]
    BY <1>5 DEF StopProcess, LifeInv
  <2>2. ASSUME NEW r \in open PROVE \E j \in 1..Len(CloseList) : r = CloseList[j]
    BY <2>1, ListIsComplete DEF LifeInv
  <2>3. CloseList \in Seq(Names)
    BY ListTyped
  <2> QED BY <2>1, <2>2, <2>3 DEF LifeInv
<1>6. CASE CloseNext
  <2>1. /\ process' = process /\ process = "closing" /\ closing \in Seq(Names) /\ closing # <<>>
        /\ open' = open \ {Head(closing)} /\ closing' = Tail(closing) /\ opening' = opening
    BY <1>6 DEF CloseNext, LifeInv
  <2>2. /\ Tail(closing) \in Seq(Names) /\ Len(Tail(closing)) = Len(closing) - 1
        /\ Head(closing) = closing[1] /\ Len(closing) \in Nat
        /\ \A i \in 1..Len(closing) - 1 : Tail(closing)[i] = closing[i + 1]
    BY <2>1
  <2>3. ASSUME NEW r \in open' PROVE \E i \in 1..Len(closing') : r = closing'[i]
    <3>1. PICK i \in 1..Len(closing) : r = closing[i]
      BY <2>1 DEF LifeInv
    <3>2. i # 1
      BY <2>1, <2>2, <3>1
    <3>3. i - 1 \in 1..Len(closing) - 1 /\ (i - 1) + 1 = i
      BY <2>2, <3>2
    <3>4. Tail(closing)[i - 1] = r
      BY <2>2, <3>1, <3>3
    <3> QED BY <2>1, <2>2, <3>3, <3>4
  <2> QED BY <2>1, <2>2, <2>3 DEF LifeInv
<1>7. CASE ProcessEnds
  BY <1>7 DEF ProcessEnds, LifeInv
<1> QED BY <1>1, <1>2, <1>3, <1>4, <1>5, <1>6, <1>7 DEF LifespanNext

LEMMA InitLives == ServiceInit => LifeInv
BY DEF ServiceInit, LifespanInit, LifeInv

LEMMA ServiceLives == LifeInv /\ [ServiceNext]_serviceVars => LifeInv'
<1> SUFFICES ASSUME LifeInv, [ServiceNext]_serviceVars PROVE LifeInv'
  OBVIOUS
<1>1. CASE ProcessStep
  BY <1>1, LifeStep DEF ProcessStep
<1>2. CASE UNCHANGED lifespanVars
  BY <1>2 DEF lifespanVars, LifeInv
<1>3. CASE \E r \in Requests : RequestStep(r)
  BY <1>2, <1>3 DEF RequestStep, Send, Key, Refreshed, CancelKey, Admit, AdmitFails
<1>4. CASE Tick \/ NextMinute \/ Expire \/ Rotate
  BY <1>2, <1>4 DEF Tick, NextMinute, Expire, Rotate
<1> QED BY <1>1, <1>2, <1>3, <1>4 DEF ServiceNext, serviceVars

\* A process that has ended has tried to close whatever it had opened, however
\* far its start came.
THEOREM ResourcesAreReleased == ServiceSpec => []NothingStaysOpen
<1>1. LifeInv => NothingStaysOpen
  BY DEF LifeInv, NothingStaysOpen
<1> QED BY <1>1, InitLives, ServiceLives, PTL DEF ServiceSpec

-----------------------------------------------------------------------------
(* The pace of downloads.                                                   *)

Download == [at: Nat, forced: BOOLEAN, cancelled: BOOLEAN]

\* What keeps the next download away.  A forced one left its time, whatever
\* became of it; and one that was neither cancelled nor is on its way has been
\* answered: its failure is remembered, or its keys are fresh.
PaceInv ==
    /\ now \in Nat /\ expires \in Int /\ forcedAt \in Int /\ failedAt \in Int
    /\ downloads \in Seq(Download)
    /\ DownloadsArePaced
    /\ \A i \in DOMAIN downloads :
         /\ downloads[i].at <= now
         /\ downloads[i].forced => forcedAt >= downloads[i].at
         /\ (i < Len(downloads) \/ LockFree) /\ ~downloads[i].cancelled =>
              failedAt >= downloads[i].at \/ expires >= downloads[i].at + Ttl

LEMMA InitPaces == ServiceInit => PaceInv
<1> SUFFICES ASSUME ServiceInit PROVE PaceInv
  OBVIOUS
<1>1. downloads = <<>> /\ now = 0 /\ expires = 0 /\ forcedAt = Never /\ failedAt = Never
  BY DEF ServiceInit, AdmissionInit
<1>2. Never \in Int
  BY AdmissionAssumption DEF Never
<1> QED BY <1>1, <1>2 DEF PaceInv, DownloadsArePaced

\* A download begins: nobody else is downloading, the last failure is a pause
\* ago, and the keys are stale or this is a forced refresh.
LEMMA DownloadIsPaced ==
    ASSUME PaceInv, LockFree, NEW forced \in BOOLEAN,
           downloads' = Append(downloads, [at |-> now, forced |-> forced, cancelled |-> FALSE]),
           ~LockFree', UNCHANGED <<now, expires, failedAt>>, now - failedAt >= Pause,
           IF forced THEN now - forcedAt >= Pause /\ forcedAt' = now
                     ELSE now >= expires /\ UNCHANGED forcedAt
    PROVE  PaceInv'
<1> DEFINE n == Len(downloads)
           new == [at |-> now, forced |-> forced, cancelled |-> FALSE]
<1>1. /\ Pause \in Nat /\ Pause > 0 /\ Ttl \in Nat /\ Ttl >= 2 * Pause
      /\ now \in Nat /\ expires \in Int /\ forcedAt \in Int /\ failedAt \in Int
      /\ downloads \in Seq(Download) /\ n \in Nat /\ DOMAIN downloads = 1..n
  BY AdmissionAssumption DEF PaceInv
<1>2. new \in Download /\ new.at = now /\ new.forced = forced /\ new.cancelled = FALSE
  BY <1>1 DEF Download
<1> HIDE DEF new
<1>3. /\ Len(downloads') = n + 1 /\ downloads' \in Seq(Download) /\ DOMAIN downloads' = 1..n + 1
      /\ downloads'[n + 1] = new /\ \A i \in 1..n : downloads'[i] = downloads[i]
  BY <1>1, <1>2 DEF new
<1>4. ASSUME NEW i \in 1..n
      PROVE  /\ downloads[i] \in Download /\ downloads[i].at \in Nat /\ downloads[i].at <= now
             /\ downloads[i].forced \in BOOLEAN /\ downloads[i].cancelled \in BOOLEAN
             /\ downloads[i].forced => forcedAt >= downloads[i].at
             /\ ~downloads[i].cancelled =>
                  failedAt >= downloads[i].at \/ expires >= downloads[i].at + Ttl
  <2>1. downloads[i] \in Download
    BY <1>1
  <2> QED BY <1>1, <2>1 DEF PaceInv, Download
<1>5. ASSUME NEW i \in 1..n
      PROVE  \/ now - downloads[i].at >= Pause
             \/ forced /\ ~downloads[i].forced
             \/ ~forced /\ downloads[i].cancelled
  <2>1. CASE forced /\ downloads[i].forced
    BY <1>1, <1>4, <2>1
  <2>2. CASE ~forced /\ ~downloads[i].cancelled
    <3>1. failedAt >= downloads[i].at \/ expires >= downloads[i].at + Ttl
      BY <1>4, <2>2
    <3>2. now >= expires /\ now - failedAt >= Pause
      BY <2>2
    <3>3. downloads[i].at \in Nat
      BY <1>4
    <3> QED BY <1>1, <3>1, <3>2, <3>3
  <2> QED BY <1>4, <2>1, <2>2
<1>6. DownloadsArePaced'
  <2>1. ASSUME NEW i \in 1..n + 1, NEW j \in 1..n + 1, i < j
        PROVE  \/ downloads'[j].at - downloads'[i].at >= Pause
               \/ downloads'[j].forced /\ ~downloads'[i].forced
               \/ ~downloads'[j].forced /\ downloads'[i].cancelled
    <3>1. i \in 1..n
      BY <1>1, <2>1
    <3>2. CASE j = n + 1
      BY <1>2, <1>3, <1>5, <3>1, <3>2
    <3>3. CASE j \in 1..n
      <4>1. \/ downloads[j].at - downloads[i].at >= Pause
            \/ downloads[j].forced /\ ~downloads[i].forced
            \/ ~downloads[j].forced /\ downloads[i].cancelled
        BY <1>1, <2>1, <3>1, <3>3 DEF PaceInv, DownloadsArePaced
      <4> QED BY <1>3, <3>1, <3>3, <4>1
    <3> QED BY <1>1, <3>2, <3>3
  <2> QED BY <1>3, <2>1 DEF DownloadsArePaced
<1>7. downloads' # <<>> /\ now' = now /\ expires' = expires /\ failedAt' = failedAt
      /\ forcedAt' \in Int /\ forcedAt' \in {forcedAt, now} /\ (forced => forcedAt' = now)
  BY <1>1, <1>3
<1>8. ASSUME NEW i \in 1..n + 1
      PROVE  /\ downloads'[i].at <= now
             /\ downloads'[i].forced => forcedAt' >= downloads'[i].at
             /\ i < n + 1 /\ ~downloads'[i].cancelled =>
                  failedAt >= downloads'[i].at \/ expires >= downloads'[i].at + Ttl
  <2>1. CASE i = n + 1
    BY <1>1, <1>2, <1>3, <1>7, <2>1
  <2>2. CASE i \in 1..n
    <3>1. downloads'[i] = downloads[i]
      BY <1>3, <2>2
    <3> QED BY <1>1, <1>4, <1>7, <2>2, <3>1
  <2> QED BY <1>1, <2>1, <2>2
<1> HIDE DEF n
<1> QED BY <1>1, <1>3, <1>6, <1>7, <1>8 DEF PaceInv

\* Nothing of the pace changes but that a download is answered or time passes.
LEMMA PaceKept ==
    ASSUME PaceInv, downloads' = downloads, expires' \in Int, failedAt' \in Int, now' \in Nat,
           now <= now', forcedAt' = forcedAt,
           \/ UNCHANGED <<expires, failedAt>> /\ (LockFree' => LockFree)
           \/ expires' = now + Ttl /\ failedAt' = failedAt
           \/ failedAt' = now /\ expires' = expires
    PROVE  PaceInv'
<1>1. /\ Ttl \in Nat /\ now \in Nat /\ expires \in Int /\ forcedAt \in Int /\ failedAt \in Int
      /\ downloads \in Seq(Download)
  BY AdmissionAssumption DEF PaceInv
<1>2. ASSUME NEW i \in DOMAIN downloads
      PROVE  /\ downloads[i].at <= now'
             /\ downloads[i].forced => forcedAt >= downloads[i].at
             /\ (i < Len(downloads) \/ LockFree') /\ ~downloads[i].cancelled =>
                  failedAt' >= downloads[i].at \/ expires' >= downloads[i].at + Ttl
  <2>1. downloads[i] \in Download
    BY <1>1
  <2>2. downloads[i].at \in Nat /\ downloads[i].at <= now
    BY <2>1 DEF Download, PaceInv
  <2>3. CASE UNCHANGED <<expires, failedAt>> /\ (LockFree' => LockFree)
    BY <1>1, <2>2, <2>3 DEF PaceInv
  <2>4. CASE expires' = now + Ttl
    BY <1>1, <2>2, <2>4 DEF PaceInv
  <2>5. CASE failedAt' = now
    BY <1>1, <2>2, <2>5 DEF PaceInv
  <2> QED BY <2>3, <2>4, <2>5
<1>3. DownloadsArePaced'
  BY DEF PaceInv, DownloadsArePaced
<1> QED BY <1>1, <1>2, <1>3 DEF PaceInv

\* The last download is marked as cancelled, and nothing else changes.
LEMMA OnlyCancelled ==
    ASSUME NEW s \in Seq(Download), NEW t, t = LastCancelled(s)
    PROVE  /\ t \in Seq(Download) /\ Len(t) = Len(s)
           /\ \A i \in 1..Len(s) : /\ t[i].at = s[i].at /\ t[i].forced = s[i].forced
                                   /\ i = Len(s) => t[i].cancelled
                                   /\ i # Len(s) => t[i] = s[i]
<1> DEFINE n == Len(s)
           last == [s[n] EXCEPT !.cancelled = TRUE]
<1>1. n \in Nat /\ s \in [1..n -> Download] /\ t = [s EXCEPT ![n] = last]
  BY DEF LastCancelled
<1>2. ASSUME n \in 1..n
      PROVE  last \in Download /\ last.cancelled /\ last.at = s[n].at /\ last.forced = s[n].forced
  <2>1. s[n] \in Download
    BY <1>1, <1>2
  <2> HIDE DEF n
  <2> QED BY <2>1 DEF Download
<1>3. n = Len(s)
  OBVIOUS
<1> HIDE DEF last, n
<1>4. t \in [1..n -> Download] /\ \A i \in 1..n : t[i] = IF i = n THEN last ELSE s[i]
  BY <1>1, <1>2
<1>5. t \in Seq(Download) /\ Len(t) = n
  BY <1>1, <1>4
<1> QED BY <1>2, <1>3, <1>4, <1>5

\* The download that is on its way is cancelled.
LEMMA CancelKeepsPace ==
    ASSUME PaceInv, ~LockFree, downloads' = LastCancelled(downloads),
           UNCHANGED <<now, expires, forcedAt, failedAt>>
    PROVE  PaceInv'
<1> DEFINE n == Len(downloads)
<1>1. downloads \in Seq(Download) /\ n \in Nat /\ DOMAIN downloads = 1..n
  BY DEF PaceInv
<1>2. /\ downloads' \in Seq(Download) /\ Len(downloads') = n
      /\ \A i \in 1..n : /\ downloads'[i].at = downloads[i].at
                         /\ downloads'[i].forced = downloads[i].forced
                         /\ i = n => downloads'[i].cancelled
                         /\ i # n => downloads'[i] = downloads[i]
  BY <1>1, OnlyCancelled
<1>3. DOMAIN downloads' = 1..n
  BY <1>2
<1>4. \A i \in 1..n : downloads[i].cancelled => downloads'[i].cancelled
  BY <1>1, <1>2
<1>5. DownloadsArePaced'
  <2>1. ASSUME NEW i \in 1..n, NEW j \in 1..n, i < j
        PROVE  \/ downloads'[j].at - downloads'[i].at >= Pause
               \/ downloads'[j].forced /\ ~downloads'[i].forced
               \/ ~downloads'[j].forced /\ downloads'[i].cancelled
    <3>1. \/ downloads[j].at - downloads[i].at >= Pause
          \/ downloads[j].forced /\ ~downloads[i].forced
          \/ ~downloads[j].forced /\ downloads[i].cancelled
      BY <1>1, <2>1 DEF PaceInv, DownloadsArePaced
    <3>2. downloads[i].cancelled => downloads'[i].cancelled
      BY <1>4
    <3>3. /\ downloads'[i].at = downloads[i].at /\ downloads'[i].forced = downloads[i].forced
          /\ downloads'[j].at = downloads[j].at /\ downloads'[j].forced = downloads[j].forced
      BY <1>2
    <3> HIDE DEF n
    <3> QED BY <3>1, <3>2, <3>3
  <2> QED BY <1>3, <2>1 DEF DownloadsArePaced
<1>6. ASSUME NEW i \in 1..n
      PROVE  /\ downloads'[i].at <= now
             /\ downloads'[i].forced => forcedAt >= downloads'[i].at
             /\ ~downloads'[i].cancelled =>
                  failedAt >= downloads'[i].at \/ expires >= downloads'[i].at + Ttl
  <2>1. /\ downloads[i].at <= now /\ (downloads[i].forced => forcedAt >= downloads[i].at)
        /\ i < n /\ ~downloads[i].cancelled =>
             failedAt >= downloads[i].at \/ expires >= downloads[i].at + Ttl
    BY <1>1 DEF PaceInv
  <2>2. downloads'[i].at = downloads[i].at /\ downloads'[i].forced = downloads[i].forced
    BY <1>2
  <2>3. ~downloads'[i].cancelled => i < n /\ ~downloads[i].cancelled
    <3>1. n \in Nat /\ i \in 1..n
      BY <1>1
    <3>2. i = n => downloads'[i].cancelled
      BY <1>2
    <3>3. downloads[i].cancelled => downloads'[i].cancelled
      BY <1>4
    <3> HIDE DEF n
    <3> QED BY <3>1, <3>2, <3>3
  <2> HIDE DEF n
  <2> QED BY <2>1, <2>2, <2>3
<1>7. now \in Nat /\ expires \in Int /\ forcedAt \in Int /\ failedAt \in Int
  BY DEF PaceInv
<1> HIDE DEF n
<1> QED BY <1>2, <1>3, <1>5, <1>6, <1>7 DEF PaceInv

-----------------------------------------------------------------------------
(* The requests.                                                            *)

ReqInv ==
    /\ req \in [Requests -> Request]
    /\ minute \in 0..MaxMinute /\ day \in 0..MaxDay
    /\ \A r \in Requests : req[r].pc \in {"admit", "limited", "uncertain"} => req[r].operation # "none"

\* Of a request, a step changes the record; operation and identity stay.
Moves(r, new) ==
    /\ new \in Request
    /\ req' = [req EXCEPT ![r] = new]
    /\ new.operation = req[r].operation

\* What a request's step does to the windows: nothing, one more count of each
\* of its buckets, or a refusal.
Uncounted(r, new) ==
    /\ req[r].pc \in {"new", "verify", "refresh", "admit"}
    /\ new.pc \in {"verify", "refresh", "admit", "denied", "unavailable", "accepted", "cancelled"}
    /\ new.pc = "admit" => new.operation # "none"
    /\ new.pc = "accepted" => new.operation = "none"
    /\ UNCHANGED bucketVars

Counted(r, new) ==
    /\ req[r].pc = "admit" /\ ~Full(r)
    /\ new.pc \in {"accepted", "uncertain"}
    /\ new.late = Late(r) /\ new.minute = req[r].minute /\ new.day = req[r].day
    /\ count' = Consumed(r) /\ expired' = expired

Refused(r, new) ==
    /\ req[r].pc = "admit" /\ Full(r)
    /\ new.pc = "limited"
    /\ new.minute = req[r].minute /\ new.day = req[r].day
    /\ UNCHANGED bucketVars

LEMMA AuthenticatedIs ==
    ASSUME ReqInv, NEW r \in Requests
    PROVE  /\ Authenticated(r) \in Request
           /\ Authenticated(r).operation = req[r].operation
           /\ Authenticated(r).pc \in {"admit", "accepted"}
           /\ Authenticated(r).pc = "admit" <=> req[r].operation # "none"
<1>1. req[r] \in Request /\ minute \in 0..MaxMinute /\ day \in 0..MaxDay
  BY DEF ReqInv
<1>2. CASE req[r].operation = "none"
  <2> DEFINE new == [req[r] EXCEPT !.pc = "accepted"]
  <2>1. new \in Request /\ new.operation = req[r].operation /\ new.pc = "accepted"
    BY <1>1 DEF Request
  <2>2. Authenticated(r) = new
    BY <1>2 DEF Authenticated
  <2> QED BY <1>2, <2>1, <2>2
<1>3. CASE req[r].operation # "none"
  <2> DEFINE new == [req[r] EXCEPT !.pc = "admit", !.minute = minute, !.day = day]
  <2>1. new \in Request /\ new.operation = req[r].operation /\ new.pc = "admit"
    BY <1>1 DEF Request
  <2>2. Authenticated(r) = new
    BY <1>3 DEF Authenticated
  <2> QED BY <1>3, <2>1, <2>2
<1> QED BY <1>2, <1>3

\* A request that only gets on to another point.
LEMMA PointMoves ==
    ASSUME ReqInv, NEW r \in Requests,
           NEW pc \in {"verify", "refresh", "denied", "unavailable", "limited", "cancelled"},
           req' = [req EXCEPT ![r].pc = pc]
    PROVE  \E new : /\ Moves(r, new) /\ new.pc = pc
                    /\ new.minute = req[r].minute /\ new.day = req[r].day
<1> DEFINE new == [req[r] EXCEPT !.pc = pc]
<1>1. /\ new \in Request /\ new.pc = pc /\ new.operation = req[r].operation
      /\ new.minute = req[r].minute /\ new.day = req[r].day
  BY DEF ReqInv, Request
<1>2. req' = [req EXCEPT ![r] = new]
  BY DEF ReqInv
<1> HIDE DEF new
<1> QED BY <1>1, <1>2 DEF Moves

\* One that no window has seen.
LEMMA UncountedMoves ==
    ASSUME ReqInv, NEW r \in Requests, req[r].pc \in {"new", "verify", "refresh", "admit"},
           NEW pc \in {"verify", "refresh", "denied", "unavailable", "cancelled"},
           req' = [req EXCEPT ![r].pc = pc], UNCHANGED bucketVars
    PROVE  \E new : Moves(r, new) /\ Uncounted(r, new)
<1>1. pc \in {"verify", "refresh", "denied", "unavailable", "limited", "cancelled"}
  OBVIOUS
<1>2. PICK new : /\ Moves(r, new) /\ new.pc = pc
                 /\ new.minute = req[r].minute /\ new.day = req[r].day
  BY <1>1, PointMoves
<1> QED BY <1>2 DEF Uncounted

LEMMA CountedMoves ==
    ASSUME ReqInv, NEW r \in Requests, NEW pc \in {"accepted", "uncertain"},
           req' = [req EXCEPT ![r].pc = pc, ![r].late = Late(r)]
    PROVE  \E new : /\ Moves(r, new) /\ new.pc = pc /\ new.late = Late(r)
                    /\ new.minute = req[r].minute /\ new.day = req[r].day
<1> DEFINE late == Late(r)
           new == [req[r] EXCEPT !.pc = pc, !.late = late]
<1>1. late \in BOOLEAN
  BY DEF Late
<1>2. req' = [req EXCEPT ![r] = new]
  BY DEF ReqInv
<1> HIDE DEF late
<1>3. /\ new \in Request /\ new.pc = pc /\ new.operation = req[r].operation
      /\ new.minute = req[r].minute /\ new.day = req[r].day /\ new.late = late
  BY <1>1 DEF ReqInv, Request
<1> HIDE DEF new
<1> QED BY <1>2, <1>3 DEF Moves, late

LEMMA RequestMoves ==
    ASSUME ReqInv, NEW r \in Requests, RequestStep(r)
    PROVE  \E new : Moves(r, new) /\ (Uncounted(r, new) \/ Counted(r, new) \/ Refused(r, new))
<1>1. CASE Send(r)
  <2>1. req[r].pc = "new" /\ req' = [req EXCEPT ![r].pc = "verify"] /\ UNCHANGED bucketVars
    BY <1>1 DEF Send, Is
  <2> QED BY <2>1, UncountedMoves
<1>2. CASE Key(r)
  <2>1. req[r].pc = "verify" /\ UNCHANGED bucketVars
    BY <1>2 DEF Key, Is
  <2>2. CASE req' = [req EXCEPT ![r] = Authenticated(r)]
    <3>1. Moves(r, Authenticated(r))
      BY <2>2, AuthenticatedIs DEF Moves
    <3>2. Uncounted(r, Authenticated(r))
      BY <2>1, AuthenticatedIs DEF Uncounted
    <3> QED BY <3>1, <3>2
  <2>3. ASSUME NEW pc \in {"refresh", "unavailable", "denied"}, req' = [req EXCEPT ![r].pc = pc]
        PROVE  \E new : Moves(r, new) /\ Uncounted(r, new)
    BY <2>1, <2>3, UncountedMoves
  <2> QED BY <1>2, <2>2, <2>3 DEF Key
<1>3. CASE Refreshed(r)
  <2>1. req[r].pc = "refresh" /\ UNCHANGED bucketVars
    BY <1>3 DEF Refreshed, Is
  <2>2. CASE req' = [req EXCEPT ![r] = Authenticated(r)]
    <3>1. Moves(r, Authenticated(r))
      BY <2>2, AuthenticatedIs DEF Moves
    <3>2. Uncounted(r, Authenticated(r))
      BY <2>1, AuthenticatedIs DEF Uncounted
    <3> QED BY <3>1, <3>2
  <2>3. ASSUME NEW pc \in {"unavailable", "denied"}, req' = [req EXCEPT ![r].pc = pc]
        PROVE  \E new : Moves(r, new) /\ Uncounted(r, new)
    BY <2>1, <2>3, UncountedMoves
  <2>4. \/ req' = [req EXCEPT ![r] = Authenticated(r)]
        \/ req' = [req EXCEPT ![r].pc = "denied"]
        \/ req' = [req EXCEPT ![r].pc = "unavailable"]
    <3>1. CASE req' = [req EXCEPT ![r] = IF req[r].kid \in published THEN Authenticated(r)
                                         ELSE [@ EXCEPT !.pc = "denied"]]
      <4>1. CASE req[r].kid \in published
        BY <3>1, <4>1
      <4>2. CASE req[r].kid \notin published
        BY <3>1, <4>2 DEF ReqInv
      <4> QED BY <4>1, <4>2
    <3> QED BY <1>3, <3>1 DEF Refreshed
  <2> QED BY <2>2, <2>3, <2>4
<1>4. CASE Admit(r)
  <2>1. req[r].pc = "admit" /\ expired' = expired
    BY <1>4 DEF Admit, Is
  <2>2. CASE Full(r)
    <3>1. PICK new : /\ Moves(r, new) /\ new.pc = "limited"
                     /\ new.minute = req[r].minute /\ new.day = req[r].day
      BY <1>4, <2>2, PointMoves DEF Admit
    <3> QED BY <1>4, <2>1, <2>2, <3>1 DEF Admit, Refused, bucketVars
  <2>3. CASE ~Full(r)
    <3>1. PICK new : /\ Moves(r, new) /\ new.pc = "accepted" /\ new.late = Late(r)
                     /\ new.minute = req[r].minute /\ new.day = req[r].day
      BY <1>4, <2>3, CountedMoves DEF Admit
    <3> QED BY <1>4, <2>1, <2>3, <3>1 DEF Admit, Counted
  <2> QED BY <2>2, <2>3
<1>5. CASE AdmitFails(r)
  <2>1. req[r].pc = "admit" /\ expired' = expired
    BY <1>5 DEF AdmitFails, Is
  <2>2. CASE req' = [req EXCEPT ![r].pc = "unavailable"] /\ UNCHANGED count
    <3>1. UNCHANGED bucketVars
      BY <2>1, <2>2 DEF bucketVars
    <3> QED BY <2>1, <2>2, <3>1, UncountedMoves
  <2>3. CASE /\ ~Full(r)
             /\ req' = [req EXCEPT ![r].pc = "uncertain", ![r].late = Late(r)]
             /\ count' = Consumed(r)
    <3>1. PICK new : /\ Moves(r, new) /\ new.pc = "uncertain" /\ new.late = Late(r)
                     /\ new.minute = req[r].minute /\ new.day = req[r].day
      BY <2>3, CountedMoves
    <3> QED BY <2>1, <2>3, <3>1 DEF Counted
  <2> QED BY <1>5, <2>2, <2>3 DEF AdmitFails
<1>6. CASE CancelKey(r)
  <2>1. /\ req[r].pc \in {"verify", "refresh"} /\ UNCHANGED bucketVars
        /\ req' = [req EXCEPT ![r].pc = "cancelled"]
    BY <1>6 DEF CancelKey, Is
  <2> QED BY <2>1, UncountedMoves
<1> QED BY <1>1, <1>2, <1>3, <1>4, <1>5, <1>6 DEF RequestStep

LEMMA InitRequests == ServiceInit => ReqInv
<1> SUFFICES ASSUME ServiceInit PROVE ReqInv
  OBVIOUS
<1>1. req \in [Requests -> [pc: {"new"}, kid: Kids, operation: {"none", "intake", "plan"},
                            minute: {0}, day: {0}, late: {FALSE}]]
      /\ minute = 0 /\ day = 0
  BY DEF ServiceInit, AdmissionInit
<1>2. 0 \in 0..MaxMinute /\ 0 \in 0..MaxDay
  BY AdmissionAssumption
<1>3. req \in [Requests -> Request]
  BY <1>1, <1>2 DEF Request
<1> QED BY <1>1, <1>2, <1>3 DEF ReqInv

\* What the steps outside of requests may do to what the requests use.
LEMMA WorldMoves ==
    ASSUME ReqInv, ProcessStep \/ Tick \/ NextMinute \/ Expire \/ Rotate
    PROVE  req' = req /\ ReqInv'
<1>1. req' = req
  BY DEF ProcessStep, Tick, NextMinute, Expire, Rotate
<1>2. minute' \in 0..MaxMinute /\ day' \in 0..MaxDay
  <2>1. CASE NextMinute
    BY <2>1, AdmissionAssumption DEF NextMinute, ReqInv
  <2>2. CASE UNCHANGED <<minute, day>>
    BY <2>2 DEF ReqInv
  <2> QED BY <2>1, <2>2 DEF ProcessStep, Tick, Expire, Rotate, clocks
<1> QED BY <1>1, <1>2 DEF ReqInv

LEMMA RequestsStay == ReqInv /\ [ServiceNext]_serviceVars => ReqInv'
<1> SUFFICES ASSUME ReqInv, [ServiceNext]_serviceVars PROVE ReqInv'
  OBVIOUS
<1>1. ASSUME NEW r \in Requests, RequestStep(r) PROVE ReqInv'
  <2>1. PICK new : Moves(r, new) /\ (Uncounted(r, new) \/ Counted(r, new) \/ Refused(r, new))
    BY <1>1, RequestMoves
  <2>2. UNCHANGED <<minute, day>>
    BY <1>1 DEF RequestStep, Send, Key, Refreshed, CancelKey, Admit, AdmitFails, clocks
  <2>3. new.pc \in {"admit", "limited", "uncertain"} => new.operation # "none"
    BY <2>1 DEF Moves, Uncounted, Counted, Refused, ReqInv
  <2> QED BY <2>1, <2>2, <2>3 DEF Moves, ReqInv
<1>2. CASE ProcessStep \/ Tick \/ NextMinute \/ Expire \/ Rotate
  BY <1>2, WorldMoves
<1>3. CASE UNCHANGED serviceVars
  BY <1>3 DEF serviceVars, admissionVars, clocks, ReqInv
<1> QED BY <1>1, <1>2, <1>3 DEF ServiceNext

-----------------------------------------------------------------------------
LEMMA ServicePaces == ReqInv /\ PaceInv /\ [ServiceNext]_serviceVars => PaceInv'
<1> SUFFICES ASSUME ReqInv, PaceInv, [ServiceNext]_serviceVars PROVE PaceInv'
  OBVIOUS
<1>1. now \in Nat /\ expires \in Int /\ forcedAt \in Int /\ failedAt \in Int /\ Ttl \in Nat
  BY AdmissionAssumption DEF PaceInv
<1>2. ASSUME NEW r \in Requests, RequestStep(r) PROVE PaceInv'
  <2>1. PICK new : Moves(r, new) /\ (Uncounted(r, new) \/ Counted(r, new) \/ Refused(r, new))
    BY <1>2, RequestMoves
  <2>2. ASSUME req[r].pc # "refresh" PROVE LockFree' => LockFree
    BY <2>1, <2>2 DEF Moves, LockFree, Is, ReqInv
  <2>3. CASE Send(r) \/ Admit(r) \/ AdmitFails(r)
    <3>1. req[r].pc # "refresh" /\ UNCHANGED <<downloads, now, expires, failedAt, forcedAt>>
      BY <2>3 DEF Send, Admit, AdmitFails, Is, verifierVars, clocks
    <3> QED BY <1>1, <2>2, <3>1, PaceKept
  <2>4. CASE Refreshed(r)
    <3>1. /\ UNCHANGED <<downloads, now, forcedAt>>
          /\ \/ expires' = now + Ttl /\ failedAt' = failedAt
             \/ failedAt' = now /\ expires' = expires
      BY <2>4 DEF Refreshed, clocks
    <3>2. expires' \in Int /\ failedAt' \in Int
      BY <1>1, <3>1
    <3> QED BY <1>1, <3>1, <3>2, PaceKept
  <2>5. CASE Key(r)
    <3>1. req[r].pc # "refresh" /\ LockFree /\ UNCHANGED <<now, expires, failedAt>>
      BY <2>5 DEF Key, Is, clocks
    <3>2. CASE UNCHANGED <<downloads, forcedAt>>
      BY <1>1, <2>2, <3>1, <3>2, PaceKept
    <3>3. ASSUME NEW forced \in BOOLEAN,
                 req' = [req EXCEPT ![r].pc = "refresh"],
                 downloads' = Append(downloads, [at |-> now, forced |-> forced, cancelled |-> FALSE]),
                 now - failedAt >= Pause,
                 IF forced THEN now - forcedAt >= Pause /\ forcedAt' = now
                           ELSE now >= expires /\ UNCHANGED forcedAt
          PROVE  PaceInv'
      <4>1. req'[r].pc = "refresh"
        BY <3>3 DEF ReqInv, Request
      <4>2. ~LockFree'
        BY <4>1 DEF LockFree, Is
      <4> QED BY <3>1, <3>3, <4>2, DownloadIsPaced
    <3> QED BY <2>5, <3>2, <3>3 DEF Key
  <2>6. CASE CancelKey(r)
    <3>1. UNCHANGED <<now, expires, failedAt, forcedAt>>
      BY <2>6 DEF CancelKey, verifierVars, clocks
    <3>2. CASE req[r].pc = "refresh"
      <4>1. ~LockFree /\ downloads' = LastCancelled(downloads)
        BY <2>6, <3>2 DEF CancelKey, LockFree, Is
      <4> QED BY <3>1, <4>1, CancelKeepsPace
    <3>3. CASE req[r].pc # "refresh"
      <4>1. downloads' = downloads
        BY <2>6, <3>3 DEF CancelKey, Is
      <4> QED BY <1>1, <2>2, <3>1, <3>3, <4>1, PaceKept
    <3> QED BY <3>2, <3>3
  <2> QED BY <1>2, <2>3, <2>4, <2>5, <2>6 DEF RequestStep
<1>3. CASE NextMinute \/ Expire \/ Rotate
  <2>1. UNCHANGED <<req, downloads, now, expires, failedAt, forcedAt>>
    BY <1>3 DEF NextMinute, Expire, Rotate, verifierVars, clocks
  <2> QED BY <1>1, <2>1, PaceKept DEF LockFree, Is
<1>4. CASE Tick
  <2>1. UNCHANGED <<req, downloads, expires, failedAt, forcedAt>> /\ now' = now + 1
    BY <1>4 DEF Tick, verifierVars
  <2>2. now' \in Nat /\ now <= now'
    BY <1>1, <2>1
  <2> QED BY <1>1, <2>1, <2>2, PaceKept DEF LockFree, Is
<1>5. CASE ProcessStep
  <2>1. CASE process = "down"
    <3>1. /\ downloads' = <<>> /\ now' = now /\ expires' = now /\ forcedAt' = Never
          /\ failedAt' = Never
      BY <1>5, <2>1 DEF ProcessStep, clocks
    <3>2. Never \in Int
      BY <1>1 DEF Never
    <3>3. downloads' \in Seq(Download) /\ DOMAIN downloads' = {}
      BY <3>1
    <3> QED BY <1>1, <3>1, <3>2, <3>3 DEF PaceInv, DownloadsArePaced
  <2>2. CASE process # "down"
    <3>1. UNCHANGED <<req, downloads, now, expires, failedAt, forcedAt>>
      BY <1>5, <2>2 DEF ProcessStep, clocks, verifierVars
    <3> QED BY <1>1, <3>1, PaceKept DEF LockFree, Is
  <2> QED BY <2>1, <2>2
<1>6. CASE UNCHANGED serviceVars
  <2>1. UNCHANGED <<req, downloads, now, expires, failedAt, forcedAt>>
    BY <1>6 DEF serviceVars, admissionVars, verifierVars, clocks
  <2> QED BY <1>1, <2>1, PaceKept DEF LockFree, Is
<1> QED BY <1>2, <1>3, <1>4, <1>5, <1>6 DEF ServiceNext

\* However requests arrive and are cancelled, and the issuer answers or rotates
\* its keys, only a cancelled download, or a forced one after one that was not,
\* lets another begin within the pause.
THEOREM IssuerIsSpared == ServiceSpec => []DownloadsArePaced
<1>1. PaceInv => DownloadsArePaced
  BY DEF PaceInv
<1> QED
  BY <1>1, InitRequests, InitPaces, RequestsStay, ServicePaces, PTL DEF ServiceSpec

-----------------------------------------------------------------------------
(* The windows.                                                             *)

InTime(b) == {q \in UsedBy(b) : ~req[q].late}

\* A bucket that has never expired counts its users exactly; one that has
\* never counts more than it had.
WindowInv ==
    /\ count \in [DOMAIN count -> Nat]
    /\ \A b : CountOf(b) <= Cardinality(UsedBy(b))
    /\ \A b : b \notin expired => CountOf(b) = Cardinality(UsedBy(b))
    /\ \A b : b[1] \in BucketKinds => Cardinality(InTime(b)) <= Limit[b[1]]
    /\ \A r \in Requests : req[r].pc = "limited" =>
          \E b \in BucketsOf(r) : Cardinality(UsedBy(b)) >= Limit[b[1]]

LEMMA BucketsNamed ==
    ASSUME NEW r, NEW b \in BucketsOf(r)
    PROVE  b[1] \in BucketKinds
BY DEF BucketsOf, BucketKinds

LEMMA UseIsFinite ==
    ASSUME NEW b
    PROVE  /\ IsFiniteSet(UsedBy(b)) /\ Cardinality(UsedBy(b)) \in Nat
           /\ IsFiniteSet(InTime(b)) /\ Cardinality(InTime(b)) \in Nat
           /\ Cardinality(InTime(b)) <= Cardinality(UsedBy(b))
<1>1. IsFiniteSet(Requests) /\ UsedBy(b) \in SUBSET Requests /\ InTime(b) \in SUBSET UsedBy(b)
  BY AdmissionAssumption DEF UsedBy, InTime
<1>2. IsFiniteSet(UsedBy(b))
  BY <1>1, FS_Subset
<1>3. IsFiniteSet(InTime(b)) /\ Cardinality(InTime(b)) <= Cardinality(UsedBy(b))
  BY <1>1, <1>2, FS_Subset
<1> QED BY <1>2, <1>3, FS_CardinalityType

LEMMA CountsAreNumbers ==
    ASSUME WindowInv, NEW b
    PROVE  CountOf(b) \in Nat
BY DEF WindowInv, CountOf

LEMMA LimitsAreNumbers ==
    ASSUME NEW kind \in BucketKinds
    PROVE  Limit[kind] \in Nat
BY AdmissionAssumption

\* A step that changes nobody's use and no count.
LEMMA WindowKept ==
    ASSUME WindowInv, UNCHANGED bucketVars,
           \A b : UsedBy(b)' = UsedBy(b) /\ InTime(b)' = InTime(b),
           \A r \in Requests : req'[r].pc = "limited" =>
               \/ req[r].pc = "limited" /\ BucketsOf(r)' = BucketsOf(r)
               \/ \E b \in BucketsOf(r)' : Cardinality(UsedBy(b)) >= Limit[b[1]]
    PROVE  WindowInv'
<1>1. \A b : CountOf(b)' = CountOf(b)
  BY DEF CountOf, bucketVars
<1>2. ASSUME NEW r \in Requests, req'[r].pc = "limited"
      PROVE  \E b \in BucketsOf(r)' : Cardinality(UsedBy(b)') >= Limit[b[1]]
  BY <1>2 DEF WindowInv
<1>3. count' \in [DOMAIN count' -> Nat] /\ expired' = expired
  BY DEF WindowInv, bucketVars
<1> QED BY <1>1, <1>2, <1>3 DEF WindowInv

\* What the move of one request does to the users of a bucket.
LEMMA OthersStay ==
    ASSUME ReqInv, NEW r \in Requests, NEW new, Moves(r, new)
    PROVE  /\ req'[r] = new
           /\ \A q \in Requests : q # r => req'[q] = req[q] /\ BucketsOf(q)' = BucketsOf(q)
           /\ (new.minute = req[r].minute /\ new.day = req[r].day) => BucketsOf(r)' = BucketsOf(r)
<1>1. req'[r] = new /\ \A q \in Requests : q # r => req'[q] = req[q]
  BY DEF Moves, ReqInv
<1>2. ASSUME NEW q \in Requests, q # r PROVE BucketsOf(q)' = BucketsOf(q)
  BY <1>1, <1>2 DEF BucketsOf
<1>3. ASSUME new.minute = req[r].minute, new.day = req[r].day PROVE BucketsOf(r)' = BucketsOf(r)
  BY <1>1, <1>3 DEF BucketsOf, Moves
<1> QED BY <1>1, <1>2, <1>3

LEMMA UncountedKeeps ==
    ASSUME ReqInv, WindowInv, NEW r \in Requests, NEW new, Moves(r, new), Uncounted(r, new)
    PROVE  WindowInv'
<1>1. /\ req'[r] = new
      /\ \A q \in Requests : q # r => req'[q] = req[q] /\ BucketsOf(q)' = BucketsOf(q)
  BY OthersStay
<1>2. ASSUME NEW b PROVE UsedBy(b)' = UsedBy(b) /\ InTime(b)' = InTime(b)
  <2>1. r \notin UsedBy(b)
    BY DEF UsedBy, Uncounted
  <2>2. r \notin UsedBy(b)'
    BY <1>1 DEF UsedBy, Uncounted
  <2>3. \A q \in Requests : q # r => (q \in UsedBy(b)' <=> q \in UsedBy(b))
    BY <1>1 DEF UsedBy
  <2>4. UsedBy(b) \in SUBSET Requests /\ UsedBy(b)' \in SUBSET Requests
    BY DEF UsedBy
  <2>5. UsedBy(b)' = UsedBy(b)
    BY <2>1, <2>2, <2>3, <2>4
  <2>6. InTime(b)' = InTime(b)
    BY <1>1, <2>1, <2>4, <2>5 DEF InTime
  <2> QED BY <2>5, <2>6
<1>3. ASSUME NEW q \in Requests, req'[q].pc = "limited"
      PROVE  req[q].pc = "limited" /\ BucketsOf(q)' = BucketsOf(q)
  BY <1>1, <1>3 DEF Uncounted
<1> QED BY <1>2, <1>3, WindowKept DEF Uncounted

LEMMA RefusedKeeps ==
    ASSUME ReqInv, WindowInv, NEW r \in Requests, NEW new, Moves(r, new), Refused(r, new)
    PROVE  WindowInv'
<1>1. /\ req'[r] = new /\ BucketsOf(r)' = BucketsOf(r)
      /\ \A q \in Requests : q # r => req'[q] = req[q] /\ BucketsOf(q)' = BucketsOf(q)
  BY OthersStay DEF Refused
<1>2. ASSUME NEW b PROVE UsedBy(b)' = UsedBy(b) /\ InTime(b)' = InTime(b)
  <2>1. r \notin UsedBy(b)
    BY DEF UsedBy, Refused
  <2>2. r \notin UsedBy(b)'
    BY <1>1 DEF UsedBy, Refused
  <2>3. \A q \in Requests : q # r => (q \in UsedBy(b)' <=> q \in UsedBy(b))
    BY <1>1 DEF UsedBy
  <2>4. UsedBy(b) \in SUBSET Requests /\ UsedBy(b)' \in SUBSET Requests
    BY DEF UsedBy
  <2>5. UsedBy(b)' = UsedBy(b)
    BY <2>1, <2>2, <2>3, <2>4
  <2>6. InTime(b)' = InTime(b)
    BY <1>1, <2>1, <2>4, <2>5 DEF InTime
  <2> QED BY <2>5, <2>6
<1>3. PICK full \in BucketsOf(r) : CountOf(full) >= Limit[full[1]]
  BY DEF Refused, Full
<1>4. Cardinality(UsedBy(full)) >= Limit[full[1]]
  <2>1. /\ CountOf(full) \in Nat /\ Limit[full[1]] \in Nat
        /\ Cardinality(UsedBy(full)) \in Nat /\ CountOf(full) <= Cardinality(UsedBy(full))
    BY UseIsFinite, CountsAreNumbers, LimitsAreNumbers, BucketsNamed DEF WindowInv
  <2> QED BY <1>3, <2>1
<1>5. ASSUME NEW q \in Requests, req'[q].pc = "limited"
      PROVE  \/ req[q].pc = "limited" /\ BucketsOf(q)' = BucketsOf(q)
             \/ \E b \in BucketsOf(q)' : Cardinality(UsedBy(b)) >= Limit[b[1]]
  <2>1. CASE q = r
    BY <1>1, <1>4, <2>1
  <2>2. CASE q # r
    BY <1>1, <1>5, <2>2
  <2> QED BY <2>1, <2>2
<1> QED BY <1>2, <1>5, WindowKept DEF Refused

\* An admission counts the request in each of its buckets and leaves the
\* others; unless one of its buckets has expired, all of them had room.
LEMMA CountedKeeps ==
    ASSUME ReqInv, WindowInv, NEW r \in Requests, NEW new, Moves(r, new), Counted(r, new)
    PROVE  WindowInv'
<1>1. /\ req'[r] = new /\ BucketsOf(r)' = BucketsOf(r)
      /\ \A q \in Requests : q # r => req'[q] = req[q] /\ BucketsOf(q)' = BucketsOf(q)
  BY OthersStay DEF Counted
<1>2. new.pc \in {"accepted", "uncertain"} /\ new.operation # "none" /\ new.late = Late(r)
      /\ req[r].pc = "admit"
  BY DEF Counted, Moves, ReqInv
<1>3. ASSUME NEW b
      PROVE  /\ r \notin UsedBy(b)
             /\ UsedBy(b)' = IF b \in BucketsOf(r) THEN UsedBy(b) \union {r} ELSE UsedBy(b)
             /\ InTime(b)' = IF b \in BucketsOf(r) /\ ~Late(r) THEN InTime(b) \union {r}
                                                               ELSE InTime(b)
  <2>1. r \notin UsedBy(b) /\ r \notin InTime(b)
    BY <1>2 DEF UsedBy, InTime
  <2>2. r \in UsedBy(b)' <=> b \in BucketsOf(r)
    BY <1>1, <1>2 DEF UsedBy
  <2>3. \A q \in Requests : q # r => (q \in UsedBy(b)' <=> q \in UsedBy(b))
    BY <1>1 DEF UsedBy
  <2>4. UsedBy(b) \in SUBSET Requests /\ UsedBy(b)' \in SUBSET Requests
    BY DEF UsedBy
  <2>5. UsedBy(b)' = IF b \in BucketsOf(r) THEN UsedBy(b) \union {r} ELSE UsedBy(b)
    BY <2>1, <2>2, <2>3, <2>4
  <2>6. \A q \in Requests : q # r => (q \in InTime(b)' <=> q \in InTime(b))
    BY <1>1, <2>3 DEF InTime
  <2>7. r \in InTime(b)' <=> (b \in BucketsOf(r) /\ ~Late(r))
    BY <1>1, <1>2, <2>2 DEF InTime
  <2>8. InTime(b) \in SUBSET Requests /\ InTime(b)' \in SUBSET Requests
    BY <2>4 DEF InTime
  <2>9. InTime(b)' = IF b \in BucketsOf(r) /\ ~Late(r) THEN InTime(b) \union {r} ELSE InTime(b)
    BY <2>1, <2>6, <2>7, <2>8
  <2> QED BY <2>1, <2>5, <2>9
<1>4. ASSUME NEW b
      PROVE  /\ Cardinality(UsedBy(b)') = IF b \in BucketsOf(r) THEN Cardinality(UsedBy(b)) + 1
                                                                ELSE Cardinality(UsedBy(b))
             /\ Cardinality(InTime(b)') = IF b \in BucketsOf(r) /\ ~Late(r)
                                          THEN Cardinality(InTime(b)) + 1
                                          ELSE Cardinality(InTime(b))
  <2>1. IsFiniteSet(UsedBy(b)) /\ IsFiniteSet(InTime(b))
    BY UseIsFinite
  <2>2. Cardinality(UsedBy(b) \union {r}) = Cardinality(UsedBy(b)) + 1
    BY <1>3, <2>1, FS_AddElement
  <2>3. r \notin InTime(b)
    BY <1>3 DEF InTime
  <2>4. Cardinality(InTime(b) \union {r}) = Cardinality(InTime(b)) + 1
    BY <2>1, <2>3, FS_AddElement
  <2> QED BY <1>3, <2>2, <2>4
<1>5. ASSUME NEW b
      PROVE  CountOf(b)' = IF b \in BucketsOf(r) THEN CountOf(b) + 1 ELSE CountOf(b)
  <2>1. /\ DOMAIN count' = DOMAIN count \union BucketsOf(r)
        /\ b \in DOMAIN count' =>
             count'[b] = IF b \in BucketsOf(r) THEN CountOf(b) + 1 ELSE count[b]
    BY DEF Counted, Consumed
  <2> QED BY <2>1 DEF CountOf
<1>6. count' \in [DOMAIN count' -> Nat]
  <2>1. \A b : CountOf(b) \in Nat
    BY CountsAreNumbers
  <2>2. \A b \in DOMAIN count \union BucketsOf(r) :
          (IF b \in BucketsOf(r) THEN CountOf(b) + 1 ELSE count[b]) \in Nat
    BY <2>1 DEF WindowInv
  <2> QED BY <2>2 DEF Counted, Consumed
<1>7. ASSUME NEW b
      PROVE  /\ CountOf(b)' <= Cardinality(UsedBy(b)')
             /\ b \notin expired => CountOf(b)' = Cardinality(UsedBy(b)')
  <2>1. CountOf(b) \in Nat /\ Cardinality(UsedBy(b)) \in Nat
    BY UseIsFinite, CountsAreNumbers
  <2>2. /\ CountOf(b) <= Cardinality(UsedBy(b))
        /\ b \notin expired => CountOf(b) = Cardinality(UsedBy(b))
    BY DEF WindowInv
  <2> QED BY <1>4, <1>5, <2>1, <2>2
<1>8. ASSUME NEW b, b[1] \in BucketKinds
      PROVE  Cardinality(InTime(b)') <= Limit[b[1]]
  <2>1. /\ CountOf(b) \in Nat /\ Limit[b[1]] \in Nat
        /\ Cardinality(UsedBy(b)) \in Nat /\ Cardinality(InTime(b)) \in Nat
        /\ Cardinality(InTime(b)) <= Cardinality(UsedBy(b))
        /\ Cardinality(InTime(b)) <= Limit[b[1]]
    BY <1>8, UseIsFinite, CountsAreNumbers, LimitsAreNumbers DEF WindowInv
  <2>2. CASE b \in BucketsOf(r) /\ ~Late(r)
    <3>1. b \notin expired /\ ~(CountOf(b) >= Limit[b[1]])
      BY <2>2 DEF Late, Counted, Full
    <3>2. CountOf(b) = Cardinality(UsedBy(b))
      BY <3>1 DEF WindowInv
    <3>3. Cardinality(InTime(b)') = Cardinality(InTime(b)) + 1
      BY <1>4, <2>2
    <3> QED BY <2>1, <3>1, <3>2, <3>3
  <2>3. CASE ~(b \in BucketsOf(r) /\ ~Late(r))
    BY <1>4, <2>1, <2>3
  <2> QED BY <2>2, <2>3
<1>9. ASSUME NEW q \in Requests, req'[q].pc = "limited"
      PROVE  \E b \in BucketsOf(q)' : Cardinality(UsedBy(b)') >= Limit[b[1]]
  <2>1. q # r /\ req[q].pc = "limited" /\ BucketsOf(q)' = BucketsOf(q)
    BY <1>1, <1>2, <1>9
  <2>2. PICK b \in BucketsOf(q) : Cardinality(UsedBy(b)) >= Limit[b[1]]
    BY <2>1 DEF WindowInv
  <2>3. Cardinality(UsedBy(b)) \in Nat /\ Limit[b[1]] \in Nat
    BY UseIsFinite, LimitsAreNumbers, BucketsNamed
  <2>4. Cardinality(UsedBy(b)') >= Limit[b[1]]
    BY <1>4, <2>2, <2>3
  <2> QED BY <2>1, <2>4
<1>10. expired' = expired
  BY DEF Counted
<1> QED BY <1>6, <1>7, <1>8, <1>9, <1>10 DEF WindowInv

LEMMA ExpireKeeps ==
    ASSUME ReqInv, WindowInv, Expire
    PROVE  WindowInv'
<1>1. PICK x \in DOMAIN count :
        /\ count' = [y \in DOMAIN count \ {x} |-> count[y]]
        /\ expired' = expired \union {x} /\ req' = req
  BY DEF Expire
<1>2. \A b : UsedBy(b)' = UsedBy(b) /\ InTime(b)' = InTime(b)
  BY <1>1 DEF UsedBy, InTime, BucketsOf
<1>3. ASSUME NEW b
      PROVE  CountOf(b)' = IF b = x THEN 0 ELSE CountOf(b)
  BY <1>1 DEF CountOf
<1>4. count' \in [DOMAIN count' -> Nat]
  BY <1>1 DEF WindowInv
<1>5. ASSUME NEW b
      PROVE  /\ CountOf(b)' <= Cardinality(UsedBy(b)')
             /\ b \notin expired' => CountOf(b)' = Cardinality(UsedBy(b)')
  <2>1. Cardinality(UsedBy(b)) \in Nat
    BY UseIsFinite
  <2> QED BY <1>1, <1>2, <1>3, <2>1 DEF WindowInv
<1>6. \A r \in Requests : BucketsOf(r)' = BucketsOf(r)
  BY <1>1 DEF BucketsOf
<1>7. \A b : b[1] \in BucketKinds => Cardinality(InTime(b)') <= Limit[b[1]]
  BY <1>2 DEF WindowInv
<1>8. \A r \in Requests : req'[r].pc = "limited" =>
        \E b \in BucketsOf(r)' : Cardinality(UsedBy(b)') >= Limit[b[1]]
  BY <1>1, <1>2, <1>6 DEF WindowInv
<1> QED BY <1>4, <1>5, <1>7, <1>8 DEF WindowInv

LEMMA InitWindows == ServiceInit => WindowInv
<1> SUFFICES ASSUME ServiceInit PROVE WindowInv
  OBVIOUS
<1>1. count = [b \in {} |-> 0] /\ expired = {} /\ \A r \in Requests : req[r].pc = "new"
  BY DEF ServiceInit, AdmissionInit
<1>2. \A b : UsedBy(b) = {} /\ InTime(b) = {}
  BY <1>1 DEF UsedBy, InTime
<1>3. \A b : CountOf(b) = 0
  BY <1>1 DEF CountOf
<1>4. Cardinality({}) = 0
  BY FS_EmptySet
<1>5. count \in [DOMAIN count -> Nat]
  BY <1>1
<1>6. \A b : b[1] \in BucketKinds => Limit[b[1]] \in Nat
  BY LimitsAreNumbers
<1>7. \A b : b[1] \in BucketKinds => 0 <= Limit[b[1]]
  BY <1>6
<1>8. \A b : Cardinality(UsedBy(b)) = 0 /\ Cardinality(InTime(b)) = 0
  BY <1>2, <1>4
<1>9. \A b : CountOf(b) = Cardinality(UsedBy(b)) /\ CountOf(b) <= Cardinality(UsedBy(b))
  BY <1>3, <1>8
<1>10. \A b : b[1] \in BucketKinds => Cardinality(InTime(b)) <= Limit[b[1]]
  BY <1>7, <1>8
<1>11. \A r \in Requests : req[r].pc # "limited"
  BY <1>1
<1> QED BY <1>5, <1>9, <1>10, <1>11 DEF WindowInv

LEMMA ServiceWindows == ReqInv /\ WindowInv /\ [ServiceNext]_serviceVars => WindowInv'
<1> SUFFICES ASSUME ReqInv, WindowInv, [ServiceNext]_serviceVars PROVE WindowInv'
  OBVIOUS
<1>1. ASSUME NEW r \in Requests, RequestStep(r) PROVE WindowInv'
  <2>1. PICK new : Moves(r, new) /\ (Uncounted(r, new) \/ Counted(r, new) \/ Refused(r, new))
    BY <1>1, RequestMoves
  <2> QED BY <2>1, UncountedKeeps, CountedKeeps, RefusedKeeps
<1>2. CASE Expire
  BY <1>2, ExpireKeeps
<1>3. ASSUME UNCHANGED <<req, bucketVars>> PROVE WindowInv'
  <2>1. \A b : UsedBy(b)' = UsedBy(b) /\ InTime(b)' = InTime(b)
    BY <1>3 DEF UsedBy, InTime, BucketsOf
  <2>2. \A r \in Requests : BucketsOf(r)' = BucketsOf(r) /\ req'[r] = req[r]
    BY <1>3 DEF BucketsOf
  <2> QED BY <1>3, <2>1, <2>2, WindowKept
<1>4. CASE ProcessStep \/ Tick \/ NextMinute \/ Rotate
  BY <1>3, <1>4 DEF ProcessStep, Tick, NextMinute, Rotate
<1>5. CASE UNCHANGED serviceVars
  BY <1>3, <1>5 DEF serviceVars, admissionVars
<1> QED BY <1>1, <1>2, <1>4, <1>5 DEF ServiceNext

\* Whatever requests share users and windows, however late their scripts run:
\* no window admits more in time than its limit, and nobody is refused for
\* requests that were refused themselves.
THEOREM LimitsHold == ServiceSpec => []WindowsHold
<1>1. ReqInv /\ WindowInv => WindowsHold
  <2> SUFFICES ASSUME WindowInv, NEW r \in Requests
               PROVE  /\ \A b \in BucketsOf(r) : Cardinality(InTime(b)) <= Limit[b[1]]
                      /\ Is(r, "limited") =>
                           \E b \in BucketsOf(r) : Cardinality(UsedBy(b)) >= Limit[b[1]]
    BY DEF WindowsHold, InTime
  <2> QED BY BucketsNamed DEF WindowInv, Is
<1> QED
  BY <1>1, InitRequests, InitWindows, RequestsStay, ServiceWindows, PTL DEF ServiceSpec

=============================================================================
