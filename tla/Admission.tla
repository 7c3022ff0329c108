------------------------------ MODULE Admission ------------------------------
(***************************************************************************)
(* What a request passes before its handler runs (auth/dependencies.py):   *)
(* the verifier's cache of signing keys, refreshed under a lock            *)
(* (auth/tokens.py), and the request windows that one Lua script in Redis  *)
(* checks and counts (auth/rate_limit.py).  Requests are served while the  *)
(* process of Lifespan serves; it waits for them before it closes.         *)
(*                                                                         *)
(* now is the monotonic clock of the key cache in ticks; minute and day    *)
(* are the windows of the wall clock.                                      *)
(***************************************************************************)
EXTENDS Lifespan, FiniteSets

CONSTANTS
    Requests,     \* requests, each sent once
    UserOf,       \* the user of a request's token
    Kids,         \* key identifiers a token may name
    FirstKeys,    \* the keys the issuer publishes first
    NextKeys,     \* and after a rotation
    Pause,        \* ticks between refreshes that fail or are forced (30 s)
    Ttl,          \* settings.auth_jwks_cache_ttl_seconds in ticks (60 s or more)
    Limit,        \* the maximum count of each kind of bucket
    MaxNow,       \* bound: ticks
    MaxMinute,    \* bound: minutes
    MaxDay        \* bound: days

Users == {UserOf[r] : r \in Requests}
BucketKinds == {"intake_minute", "intake_day", "global_intake", "plan_day", "global_plan"}

ASSUME AdmissionAssumption ==
    /\ IsFiniteSet(Requests)
    /\ FirstKeys \subseteq Kids /\ NextKeys \subseteq Kids
    /\ Pause \in Nat \ {0}
    /\ Ttl \in Nat /\ Ttl >= 2 * Pause
    /\ Limit \in [BucketKinds -> Nat \ {0}]
    /\ {MaxNow, MaxMinute, MaxDay} \subseteq Nat

VARIABLES
    req,          \* the requests
    keys,         \* _keys
    expires,      \* _expires
    forcedAt,     \* _forced_refresh_at
    failedAt,     \* _failed_refresh_at
    published,    \* the issuer's keys
    count,        \* the buckets' counts in Redis
    expired,      \* history: buckets whose key has expired
    downloads,    \* history: when each download began, whether it was forced, and
                  \* whether its request was cancelled
    now, minute, day

clocks == <<now, minute, day>>
verifierVars == <<keys, expires, forcedAt, failedAt>>
bucketVars == <<count, expired>>
admissionVars == <<req, verifierVars, published, bucketVars, downloads, clocks>>
serviceVars == <<lifespanVars, admissionVars>>

-----------------------------------------------------------------------------
(* State.                                                                   *)

Never == 0 - Ttl     \* float("-inf"): longer ago than any pause

Buckets == BucketKinds \X (Users \union {"all"}) \X (0..MaxMinute) \X (0..MaxDay)

\* operation: "none" for a request that no window limits; late: its script ran
\* after one of its buckets had expired.
Request == [pc: {"new", "verify", "refresh", "admit", "accepted", "denied",
                 "unavailable", "uncertain", "limited", "cancelled"},
            kid: Kids, operation: {"none", "intake", "plan"},
            minute: 0..MaxMinute, day: 0..MaxDay, late: BOOLEAN]

AdmissionInit ==
    /\ req \in [Requests -> [pc: {"new"}, kid: Kids, operation: {"none", "intake", "plan"},
                             minute: {0}, day: {0}, late: {FALSE}]]
    /\ keys = {} /\ expires = 0 /\ forcedAt = Never /\ failedAt = Never
    /\ published = FirstKeys
    /\ count = [b \in {} |-> 0]
    /\ expired = {}
    /\ downloads = <<>>
    /\ now = 0 /\ minute = 0 /\ day = 0

-----------------------------------------------------------------------------
(* Helpers.                                                                 *)

Is(r, pc) == req[r].pc = pc

\* Mutant of LockFree: requests do not wait for each other's download.
LockFreeAlways == TRUE

\* The verifier's lock is held by the request that downloads.
LockFree == \A r \in Requests : ~Is(r, "refresh")

\* An authenticated request is accepted at once, or its buckets are chosen by
\* the wall clock of this moment.
Authenticated(r) ==
    IF req[r].operation = "none" THEN [req[r] EXCEPT !.pc = "accepted"]
    ELSE [req[r] EXCEPT !.pc = "admit", !.minute = minute, !.day = day]

\* buckets: the user's minute and day and everybody's day, or the user's and
\* everybody's day.
BucketsOf(r) ==
    LET d == req[r].day
        u == UserOf[r]
    IN  IF req[r].operation = "intake"
        THEN {<<"intake_minute", u, req[r].minute, d>>, <<"intake_day", u, 0, d>>,
              <<"global_intake", "all", 0, d>>}
        ELSE {<<"plan_day", u, 0, d>>, <<"global_plan", "all", 0, d>>}

CountOf(b) == IF b \in DOMAIN count THEN count[b] ELSE 0

Full(r) == \E b \in BucketsOf(r) : CountOf(b) >= Limit[b[1]]

\* One INCR of each bucket.
Consumed(r) == [b \in DOMAIN count \union BucketsOf(r) |->
                   IF b \in BucketsOf(r) THEN CountOf(b) + 1 ELSE count[b]]

-----------------------------------------------------------------------------
(* Requests.                                                                *)

Send(r) ==
    /\ process = "serving"
    /\ Is(r, "new")
    /\ req' = [req EXCEPT ![r].pc = "verify"]
    /\ UNCHANGED <<verifierVars, published, bucketVars, downloads, clocks, lifespanVars>>

\* _key under the lock, up to the download if there is one.
Key(r) ==
    LET stale == now >= expires
        unknown == req[r].kid \notin keys
        Download(forced) ==
            /\ req' = [req EXCEPT ![r].pc = "refresh"]
            /\ downloads' = Append(downloads, [at |-> now, forced |-> forced, cancelled |-> FALSE])
    IN
    /\ Is(r, "verify")
    /\ LockFree
    /\ \/ /\ ~stale /\ ~unknown
          /\ req' = [req EXCEPT ![r] = Authenticated(r)]
          /\ UNCHANGED <<downloads, forcedAt>>
       \/ /\ stale \/ unknown
          /\ now - failedAt < Pause
          /\ req' = [req EXCEPT ![r].pc = "unavailable"]
          /\ UNCHANGED <<downloads, forcedAt>>
       \/ /\ stale
          /\ now - failedAt >= Pause
          /\ Download(FALSE) /\ UNCHANGED forcedAt
       \/ /\ ~stale /\ unknown
          /\ now - failedAt >= Pause
          /\ IF now - forcedAt >= Pause
             THEN Download(TRUE) /\ forcedAt' = now
             ELSE req' = [req EXCEPT ![r].pc = "denied"] /\ UNCHANGED <<downloads, forcedAt>>
    /\ UNCHANGED <<keys, expires, failedAt, published, bucketVars, clocks, lifespanVars>>

\* The download is over: the issuer's keys replace all of the cache, or the
\* failure is remembered; then the lock is released.
Refreshed(r) ==
    /\ Is(r, "refresh")
    /\ \/ /\ keys' = published
          /\ expires' = now + Ttl
          /\ req' = [req EXCEPT ![r] = IF req[r].kid \in published THEN Authenticated(r)
                                       ELSE [@ EXCEPT !.pc = "denied"]]
          /\ UNCHANGED failedAt
       \/ /\ failedAt' = now
          /\ req' = [req EXCEPT ![r].pc = "unavailable"]
          /\ UNCHANGED <<keys, expires>>
    /\ UNCHANGED <<forcedAt, published, bucketVars, downloads, clocks, lifespanVars>>

LastCancelled(s) == [s EXCEPT ![Len(s)].cancelled = TRUE]

\* A request is cancelled while it waits for the lock or downloads.  Its
\* CancelledError passes the except of _refresh: the lock is released, and
\* neither keys nor a failure are remembered.
CancelKey(r) ==
    /\ Is(r, "verify") \/ Is(r, "refresh")
    /\ req' = [req EXCEPT ![r].pc = "cancelled"]
    /\ downloads' = IF Is(r, "refresh")
                    THEN LastCancelled(downloads)
                    ELSE downloads
    /\ UNCHANGED <<verifierVars, published, bucketVars, clocks, lifespanVars>>

\* A window may have passed, and its key expired, before the script runs.
Late(r) == BucketsOf(r) \intersect expired # {}

\* Mutant of Admit: a request is counted before it is checked.
AdmitCounted(r) ==
    /\ Is(r, "admit")
    /\ req' = [req EXCEPT ![r].pc = IF Full(r) THEN "limited" ELSE "accepted",
                          ![r].late = Late(r)]
    /\ count' = Consumed(r)
    /\ UNCHANGED <<verifierVars, published, expired, downloads, clocks, lifespanVars>>

\* ADMIT_SCRIPT: every bucket is checked, then all are counted.
Admit(r) ==
    /\ Is(r, "admit")
    /\ IF Full(r)
       THEN req' = [req EXCEPT ![r].pc = "limited"] /\ UNCHANGED count
       ELSE /\ req' = [req EXCEPT ![r].pc = "accepted", ![r].late = Late(r)]
            /\ count' = Consumed(r)
    /\ UNCHANGED <<verifierVars, published, expired, downloads, clocks, lifespanVars>>

\* Redis does not answer, or the request is cancelled while it waits: it is not
\* admitted, but the script may have run.
AdmitFails(r) ==
    /\ Is(r, "admit")
    /\ \/ req' = [req EXCEPT ![r].pc = "unavailable"] /\ UNCHANGED count
       \/ /\ ~Full(r)
          /\ req' = [req EXCEPT ![r].pc = "uncertain", ![r].late = Late(r)]
          /\ count' = Consumed(r)
    /\ UNCHANGED <<verifierVars, published, expired, downloads, clocks, lifespanVars>>

-----------------------------------------------------------------------------
(* The world around them.                                                   *)

Tick ==
    /\ now < MaxNow
    /\ now' = now + 1
    /\ UNCHANGED <<req, verifierVars, published, bucketVars, downloads, minute, day, lifespanVars>>

NextMinute ==
    /\ minute < MaxMinute
    /\ minute' = minute + 1
    /\ day' \in {d \in {day, day + 1} : d <= MaxDay}
    /\ UNCHANGED <<req, verifierVars, published, bucketVars, downloads, now, lifespanVars>>

\* A bucket's key expires once its window is over.
Expire ==
    \E b \in DOMAIN count :
        /\ IF b[1] = "intake_minute" THEN b[3] < minute ELSE b[4] < day
        /\ count' = [x \in DOMAIN count \ {b} |-> count[x]]
        /\ expired' = expired \union {b}
        /\ UNCHANGED <<req, verifierVars, published, downloads, clocks, lifespanVars>>

Rotate ==
    /\ published # NextKeys
    /\ published' = NextKeys
    /\ UNCHANGED <<req, verifierVars, bucketVars, downloads, clocks, lifespanVars>>

\* A step of the process.  It closes when no request is on its way, and a new
\* process has a new verifier.
ProcessStep ==
    /\ LifespanNext
    /\ process = "serving" => \A r \in Requests : req[r].pc \notin {"verify", "refresh", "admit"}
    /\ IF process = "down"
       THEN /\ keys' = {} /\ expires' = now /\ forcedAt' = Never /\ failedAt' = Never
            /\ downloads' = <<>>
       ELSE UNCHANGED <<verifierVars, downloads>>
    /\ UNCHANGED <<req, published, bucketVars, clocks>>

ServiceInit == LifespanInit /\ AdmissionInit

RequestStep(r) ==
    Send(r) \/ Key(r) \/ Refreshed(r) \/ CancelKey(r) \/ Admit(r) \/ AdmitFails(r)

ServiceNext ==
    \/ ProcessStep
    \/ \E r \in Requests : RequestStep(r)
    \/ Tick \/ NextMinute \/ Expire \/ Rotate

ServiceSpec == ServiceInit /\ [][ServiceNext]_serviceVars

-----------------------------------------------------------------------------
(* Properties.                                                              *)

\* However many requests arrive together or are cancelled, with known, unknown
\* or retired keys, and whatever the issuer answers: forced downloads begin at
\* least 30 seconds apart, and a download of stale keys at least 30 seconds after
\* any download but a cancelled one, which is the only kind that leaves no trace.
\* So at most two downloads that are not cancelled begin within 30 seconds.
DownloadsArePaced ==
    \A i, j \in DOMAIN downloads :
        i < j => \/ downloads[j].at - downloads[i].at >= Pause
                 \/ downloads[j].forced /\ ~downloads[i].forced
                 \/ ~downloads[j].forced /\ downloads[i].cancelled

\* The requests that used a bucket up, and those that may have.
UsedBy(b) == {r \in Requests : /\ req[r].pc \in {"accepted", "uncertain"}
                               /\ req[r].operation # "none"
                               /\ b \in BucketsOf(r)}

\* No window admits more requests than its limit, unless a script ran after the
\* window's key had expired; and a request is refused only if a window it has
\* to fit is used up by requests that were admitted, never by refused ones.
WindowsHold ==
    \A r \in Requests :
        /\ Is(r, "accepted") /\ req[r].operation # "none" /\ ~req[r].late =>
             \A b \in BucketsOf(r) :
                 Cardinality({q \in UsedBy(b) : ~req[q].late}) <= Limit[b[1]]
        /\ Is(r, "limited") =>
             \E b \in BucketsOf(r) : Cardinality(UsedBy(b)) >= Limit[b[1]]

=============================================================================
