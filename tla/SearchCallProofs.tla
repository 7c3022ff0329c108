--------------------------- MODULE SearchCallProofs ---------------------------
(***************************************************************************)
(* Safety of one search for any settings of the two processes and any       *)
(* numbers of retries.  The invariant Careful says of every job that its    *)
(* answer is genuine, and of the requests sent how far the only job of an   *)
(* external search can have come.                                           *)
(***************************************************************************)
EXTENDS SearchCall, TLAPS

Ops == Operations(conf)
Tries == 1..(ToolRetries + 1)

\* What an answer says of the job that gave it.
Genuine(j) ==
    /\ j.answer.rows = "some" =>
          \/ j.answer.source = conf.theirs /\ j.answer.made = conf.theirs
          \/ /\ j.answer.source = "demo_fallback" /\ j.answer.made = "demo"
             /\ conf.theirsFallback
    /\ j.answer.recoverable =>
          /\ j.answer.rows = "none" /\ j.answer.error \in Vendors /\ ~j.refused
          /\ j.op \in DOMAIN Ops /\ j.try = Retries[Ops[j.op]]

Fits(j) ==
    /\ j \in Job
    /\ j.op \in DOMAIN Ops \/ (Ops = <<>> /\ j.op = 1)
    /\ j.op \in DOMAIN Ops => j.try <= Retries[Ops[j.op]]
    /\ j.at \in {"idle", "running"} => ~j.refused
    /\ j.at # "done" => j.answer = NoAnswer
    /\ Genuine(j)

\* Attempts are made in order; an answered search knows its job.
Orderly ==
    /\ \A n \in Tries : n > app.attempt => jobs[n] = NoJob
    /\ app.at = "start" => app.attempt = 1 /\ jobs[1] = NoJob
    /\ ~conf.demo => app.attempt = 1
    /\ app.answered => app.at = "ended" /\ jobs[app.attempt].at = "done"

\* How often operation i can have been requested when job j is all there is.
Spendable(j, i) ==
    IF i < j.op THEN Retries[Ops[i]] + 1
    ELSE IF i > j.op THEN 0
    ELSE IF j.at \in {"idle", "running"} THEN j.try
    ELSE Retries[Ops[i]] + 1

Spent == ~conf.demo => \A i \in DOMAIN Ops : sent[i] <= Spendable(jobs[1], i)

Careful ==
    /\ TypeOK
    /\ \A n \in Tries : Fits(jobs[n])
    /\ Orderly
    /\ Spent
    /\ ProvenanceIsHonest
    /\ AdviceIsHonest

-----------------------------------------------------------------------------
(* Facts about configurations, operations and answers.                      *)

\* A search has at most three operations, each with a vendor.
LEMMA OperationsTyped ==
    ASSUME NEW c \in Configs
    PROVE  /\ Operations(c) \in Seq(Vendors)
           /\ Len(Operations(c)) \in 0..3
           /\ DOMAIN Operations(c) = 1..Len(Operations(c))
           /\ DOMAIN Operations(c) \subseteq 1..3
           /\ Operations(c) = <<>> \/ 1 \in DOMAIN Operations(c)
           /\ c.kind = "hotels" /\ Operations(c) # <<>> => 2 \in DOMAIN Operations(c)
           /\ \A i \in DOMAIN Operations(c) : /\ Operations(c)[i] \in Vendors
                                              /\ Retries[Operations(c)[i]] \in Nat
  <1> DEFINE ops == Operations(c)
  <1>1. \/ ops = <<>>
        \/ ops = <<"duffel", "duffel", "duffel">> /\ c.kind = "flights"
        \/ ops = <<"duffel", "liteapi">>
        \/ ops = <<"duffel", "duffel">>
    BY DEF Operations
  <1>2. Retries["duffel"] \in Nat /\ Retries["liteapi"] \in Nat
    BY SearchAssumption DEF Vendors
  <1> HIDE DEF ops
  <1>3. CASE ops = <<>>
    BY <1>3 DEF ops
  <1>4. CASE ops = <<"duffel", "duffel", "duffel">> /\ c.kind = "flights"
    BY <1>2, <1>4 DEF ops, Vendors
  <1>5. CASE ops = <<"duffel", "liteapi">>
    BY <1>2, <1>5 DEF ops, Vendors
  <1>6. CASE ops = <<"duffel", "duffel">>
    BY <1>2, <1>6 DEF ops, Vendors
  <1> QED
    BY <1>1, <1>3, <1>4, <1>5, <1>6

\* The source a configured process selects is one of the sources.
LEMMA ConfigTyped ==
    ASSUME NEW c \in Configs
    PROVE  /\ c.mine \in Sources /\ c.theirs \in Sources
           /\ c.mine # "demo_fallback" /\ c.theirs # "demo_fallback"
           /\ c.mcp \in BOOLEAN /\ c.demo \in BOOLEAN
           /\ c.mineFallback \in BOOLEAN /\ c.theirsFallback \in BOOLEAN
           /\ ~c.mcp => c.mine = c.theirs /\ c.mineFallback = c.theirsFallback
  BY SearchAssumption DEF Config

\* What the operators that build answers build.
LEMMA AnswersTyped ==
    /\ \A s, m \in Sources : Rows(s, m) \in Answer /\ NoRows(s) \in Answer
    /\ \A code \in Codes, r \in BOOLEAN : Failure(code, r) \in Answer
    /\ NoAnswer \in Answer
  BY DEF Rows, NoRows, Failure, NoAnswer, Answer, Sources, External, Codes, Vendors, Unknown

\* A deterministic provider's answer is never recoverable, its rows are demo data.
LEMMA DemoIsDemo ==
    ASSUME NEW c \in Configs, NEW label \in {"demo", "demo_fallback"},
           NEW a \in DemoAnswers(c, label)
    PROVE  /\ a \in Answer /\ a.recoverable = FALSE
           /\ a.rows = "some" => a.source = label /\ a.made = "demo"
  <1>1. a \in {Rows(label, "demo"), NoRows(c.theirs), Failure("bad_input", FALSE),
               Failure("route_unavailable", FALSE)}
    BY DEF DemoAnswers
  <1>2. a \in Answer
    <2>1. label \in Sources /\ "demo" \in Sources /\ c.theirs \in Sources
      BY ConfigTyped DEF Sources
    <2>2. "bad_input" \in Codes /\ "route_unavailable" \in Codes
      BY DEF Codes
    <2> QED
      BY <1>1, <2>1, <2>2, AnswersTyped
  <1> QED
    BY <1>1, <1>2 DEF Rows, NoRows, Failure

\* What the bundle makes of a vendor's failure.
LEMMA FailureIsHonest ==
    ASSUME NEW c \in Configs, NEW v \in Vendors, NEW r \in BOOLEAN,
           NEW a \in AfterFailure(c, v, r)
    PROVE  /\ a \in Answer
           /\ a.recoverable => r /\ a.rows = "none" /\ a.error \in Vendors
           /\ a.rows = "some" =>
                 a.source = "demo_fallback" /\ a.made = "demo" /\ c.theirsFallback
  <1>1. CASE c.theirsFallback
    BY <1>1, DemoIsDemo DEF AfterFailure
  <1>2. CASE ~c.theirsFallback
    <2>1. a = Failure(v, r)
      BY <1>2 DEF AfterFailure
    <2>2. a \in Answer
      BY <2>1, AnswersTyped DEF Codes
    <2> QED
      BY <2>1, <2>2 DEF Failure
  <1> QED
    BY <1>1, <1>2

-----------------------------------------------------------------------------
\* The first state: nothing asked, nothing sent.
THEOREM InitCareful == Init => Careful
  <1> SUFFICES ASSUME Init PROVE Careful
    OBVIOUS
  <1> USE SearchAssumption
  <1>1. conf \in Configs /\ \A n \in Tries : jobs[n] = NoJob
    BY DEF Init, Tries
  <1>2. NoJob \in Job
    BY AnswersTyped DEF NoJob, Job
  <1>3. TypeOK
    BY <1>1, <1>2, AnswersTyped DEF Init, TypeOK
  <1>4. Fits(NoJob)
    <2>1. Ops = <<>> \/ 1 \in DOMAIN Ops
      BY <1>1, OperationsTyped DEF Ops
    <2>2. 1 \in DOMAIN Ops => Retries[Ops[1]] \in Nat
      BY <1>1, OperationsTyped DEF Ops
    <2> QED
      BY <1>2, <2>1, <2>2 DEF Fits, Genuine, NoJob, NoAnswer, Failure
  <1>5. 1 \in Tries
    BY DEF Tries
  <1>6. Orderly
    BY <1>1, <1>5 DEF Init, Orderly, Tries
  <1>7. Spent
    <2>1. \A i \in DOMAIN Ops : sent[i] = 0 /\ Retries[Ops[i]] \in Nat /\ i \in 1..3
      BY <1>1, OperationsTyped DEF Init, Ops
    <2> QED
      BY <1>1, <1>5, <2>1 DEF Spent, Spendable, NoJob
  <1>8. ProvenanceIsHonest /\ AdviceIsHonest
    BY DEF Init, ProvenanceIsHonest, AdviceIsHonest, Ended
  <1> QED
    BY <1>1, <1>3, <1>4, <1>6, <1>7, <1>8 DEF Careful

-----------------------------------------------------------------------------
(* Steps of a job.                                                          *)

\* What a step of job n may do to its record and to the requests sent.
Moves(n, j) ==
    /\ jobs' = [jobs EXCEPT ![n] = j]
    /\ Fits(j) /\ j.at \in {"running", "done", "dropped"}
    /\ \/ sent' = sent /\ j.op = jobs[n].op /\ j.try = jobs[n].try
       \/ /\ jobs[n].op \in DOMAIN Ops
          /\ sent' = [sent EXCEPT ![jobs[n].op] = @ + 1]
          /\ \/ j.op = jobs[n].op /\ j.at = "running" /\ j.try = jobs[n].try + 1
             \/ j.op = jobs[n].op + 1 /\ j.at = "running" /\ j.try = 0
             \/ j.op = jobs[n].op /\ j.at = "done"

LEMMA MovesKeep ==
    ASSUME Careful, NEW n \in Tries, Running(n), NEW j, Moves(n, j),
           UNCHANGED <<conf, app>>
    PROVE  Careful'
  <1> USE SearchAssumption
  <1>1. /\ TypeOK /\ conf \in Configs /\ jobs \in [Tries -> Job] /\ Fits(jobs[n])
        /\ jobs[n].at = "running" /\ jobs[n] \in Job
    BY DEF Careful, TypeOK, Running, Fits, Tries
  <1>2. /\ jobs' \in [Tries -> Job]
        /\ jobs'[n] = j
        /\ \A m \in Tries \ {n} : jobs'[m] = jobs[m]
    BY <1>1 DEF Moves, Fits
  <1>3. /\ Ops' = Ops
        /\ \A i \in DOMAIN Ops : i \in 1..3 /\ Retries[Ops[i]] \in Nat
    BY <1>1, OperationsTyped DEF Ops
  <1>4. sent' \in [1..3 -> Nat]
    BY <1>1, <1>3, SMTT(30) DEF Moves, TypeOK
  <1>5. TypeOK'
    BY <1>1, <1>2, <1>4 DEF TypeOK, Tries
  <1>6. \A m \in Tries : Fits(jobs[m])'
    <2>1. \A k : Fits(k) <=> Fits(k)'
      BY <1>3 DEF Fits, Genuine
    <2> QED
      BY <1>2, <2>1 DEF Careful, Moves
  <1>7. n <= app.attempt /\ app.at # "start"
    <2>1. NoJob.at # "running" /\ app.attempt \in Nat /\ n \in Nat \ {0}
      BY <1>1 DEF NoJob, TypeOK, Tries
    <2>2. ~(n > app.attempt)
      BY <1>1, <2>1 DEF Careful, Orderly
    <2>3. app.at # "start"
      BY <1>1, <2>1, <2>2 DEF Careful, Orderly
    <2> QED
      BY <2>1, <2>2, <2>3
  <1>8. app.answered => n # app.attempt
    BY <1>1 DEF Careful, Orderly
  <1>9. app.attempt \in Tries
    BY <1>1 DEF TypeOK, Tries
  <1>10. Orderly'
    <2>1. \A m \in Tries : m > app.attempt => jobs'[m] = NoJob
      BY <1>1, <1>2, <1>7 DEF Careful, Orderly, Tries, TypeOK
    <2>2. app.answered => jobs'[app.attempt].at = "done"
      BY <1>2, <1>8, <1>9 DEF Careful, Orderly
    <2> QED
      BY <1>7, <2>1, <2>2 DEF Careful, Orderly
  <1>11. Spent'
    <2> SUFFICES ASSUME ~conf.demo, NEW i \in DOMAIN Ops
                 PROVE  sent'[i] <= Spendable(jobs[1], i)'
      BY <1>3 DEF Spent
    <2>1. n = 1
      BY <1>7 DEF Careful, Orderly, Tries
    <2>2. jobs'[1] = j
      BY <1>2, <2>1
    <2>3. /\ i \in 1..3 /\ Retries[Ops[i]] \in Nat
          /\ sent[i] \in Nat /\ jobs[1].op \in 1..4 /\ jobs[1].try \in Nat
      BY <1>1, <1>3, <2>1 DEF TypeOK, Job
    <2>4. sent[i] <= Spendable(jobs[1], i)
      BY DEF Careful, Spent
    <2>5. jobs[1].op \in DOMAIN Ops => jobs[1].try <= Retries[Ops[jobs[1].op]]
      BY <1>1, <2>1 DEF Fits
    <2>6. j.op \in 1..4 /\ j.try \in Nat
      BY DEF Moves, Fits, Job
    <2>7. sent[i] <= (IF i < jobs[1].op THEN Retries[Ops[i]] + 1
                      ELSE IF i > jobs[1].op THEN 0 ELSE jobs[1].try)
      BY <1>1, <2>1, <2>4 DEF Spendable
    <2>8. sent'[i] <= (IF i < j.op THEN Retries[Ops[i]] + 1
                       ELSE IF i > j.op THEN 0
                       ELSE IF j.at \in {"idle", "running"} THEN j.try
                       ELSE Retries[Ops[i]] + 1)
      <3>1. CASE sent' = sent /\ j.op = jobs[n].op /\ j.try = jobs[n].try
        BY <2>1, <2>3, <2>5, <2>6, <2>7, <3>1
      <3>2. CASE /\ jobs[n].op \in DOMAIN Ops
                 /\ sent' = [sent EXCEPT ![jobs[n].op] = @ + 1]
                 /\ \/ j.op = jobs[n].op /\ j.at = "running" /\ j.try = jobs[n].try + 1
                    \/ j.op = jobs[n].op + 1 /\ j.at = "running" /\ j.try = 0
                    \/ j.op = jobs[n].op /\ j.at = "done"
        <4>1. sent'[i] = IF i = jobs[1].op THEN sent[i] + 1 ELSE sent[i]
          BY <1>1, <2>1, <2>3, <3>2 DEF TypeOK
        <4> QED
          BY <2>1, <2>3, <2>5, <2>6, <2>7, <3>2, <4>1
      <3> QED
        BY <3>1, <3>2 DEF Moves
    <2> QED
      BY <1>3, <2>2, <2>8 DEF Spendable
  <1>12. ProvenanceIsHonest'
    BY DEF Careful, ProvenanceIsHonest, Ended
  <1>13. AdviceIsHonest'
    <2>1. app.answered => jobs'[app.attempt] = jobs[app.attempt]
      BY <1>2, <1>8, <1>9
    <2> QED
      BY <1>3, <2>1 DEF Careful, AdviceIsHonest, Ended, Ops
  <1> QED
    BY <1>5, <1>6, <1>10, <1>11, <1>12, <1>13 DEF Careful

\* A job that ends where it stands, without a request, with an honest answer.
LEMMA EndingMoves ==
    ASSUME Careful, NEW n \in Tries, Running(n), NEW a \in Answer,
           jobs' = [jobs EXCEPT ![n].at = "done", ![n].answer = a],
           ~a.recoverable, sent' = sent,
           a.rows = "some" =>
               \/ a.source = conf.theirs /\ a.made = conf.theirs
               \/ a.source = "demo_fallback" /\ a.made = "demo" /\ conf.theirsFallback,
           UNCHANGED <<conf, app>>
    PROVE  Careful'
  <1> DEFINE j == [jobs[n] EXCEPT !.at = "done", !.answer = a]
  <1>1. jobs[n] \in Job /\ Fits(jobs[n]) /\ jobs[n].at = "running"
    BY DEF Careful, Fits, Running
  <1>2. /\ j \in Job /\ j.at = "done" /\ j.answer = a
        /\ j.op = jobs[n].op /\ j.try = jobs[n].try /\ j.refused = jobs[n].refused
    BY <1>1 DEF Job
  <1>3. jobs' = [jobs EXCEPT ![n] = j]
    BY DEF Careful, TypeOK
  <1> HIDE DEF j
  <1>4. Fits(j)
    BY <1>1, <1>2 DEF Fits, Genuine
  <1>5. Moves(n, j)
    BY <1>2, <1>3, <1>4 DEF Moves
  <1> QED
    BY <1>5, MovesKeep

\* The deterministic provider answers in its own name.
LEMMA UseDemoKeeps ==
    ASSUME Careful, NEW n \in Tries, UseDemo(n)
    PROVE  Careful'
  <1>1. conf \in Configs
    BY DEF Careful, TypeOK
  <1>2. PICK a \in DemoAnswers(conf, "demo") :
            jobs' = [jobs EXCEPT ![n].at = "done", ![n].answer = a]
    BY DEF UseDemo, Ends
  <1>3. conf.theirs = "demo"
    BY <1>1, OperationsTyped DEF UseDemo, Operations
  <1>4. /\ a \in Answer /\ ~a.recoverable
        /\ a.rows = "some" => a.source = "demo" /\ a.made = "demo"
    BY <1>1, DemoIsDemo
  <1> QED
    BY <1>2, <1>3, <1>4, EndingMoves DEF UseDemo

\* A trip is rejected before anything is sent, and for good.
LEMMA RejectTripKeeps ==
    ASSUME Careful, NEW n \in Tries, RejectTrip(n)
    PROVE  Careful'
  <1>1. conf \in Configs
    BY DEF Careful, TypeOK
  <1>2. Ops[2] \in Vendors
    BY <1>1, OperationsTyped DEF RejectTrip, Ops
  <1>3. PICK a \in AfterFailure(conf, Ops[2], FALSE) :
            jobs' = [jobs EXCEPT ![n].at = "done", ![n].answer = a]
    BY DEF RejectTrip, Ends, Ops
  <1>4. /\ a \in Answer /\ ~a.recoverable
        /\ a.rows = "some" =>
              a.source = "demo_fallback" /\ a.made = "demo" /\ conf.theirsFallback
    BY <1>1, <1>2, FailureIsHonest
  <1> QED
    BY <1>3, <1>4, EndingMoves DEF RejectTrip

\* What every request knows of the job that sends it.
LEMMA RequestTyped ==
    ASSUME Careful, NEW n \in Tries, Running(n), jobs[n].op <= Len(Ops)
    PROVE  /\ conf \in Configs /\ jobs[n] \in Job /\ Fits(jobs[n])
           /\ jobs[n].op \in DOMAIN Ops /\ jobs[n].op \in 1..3
           /\ Ops[jobs[n].op] \in Vendors /\ Retries[Ops[jobs[n].op]] \in Nat
           /\ jobs[n].try \in Nat /\ jobs[n].try <= Retries[Ops[jobs[n].op]]
           /\ jobs[n].at = "running" /\ ~jobs[n].refused /\ jobs[n].answer = NoAnswer
  <1>1. conf \in Configs /\ Fits(jobs[n]) /\ jobs[n] \in Job /\ jobs[n].at = "running"
    BY DEF Careful, TypeOK, Fits, Running
  <1>2. DOMAIN Ops = 1..Len(Ops) /\ DOMAIN Ops \subseteq 1..3 /\ Len(Ops) \in 0..3
    BY <1>1, OperationsTyped DEF Ops
  <1>3. jobs[n].op \in 1..4 /\ jobs[n].try \in Nat
    BY <1>1 DEF Job
  <1>4. jobs[n].op \in DOMAIN Ops
    BY <1>2, <1>3
  <1>5. Ops[jobs[n].op] \in Vendors /\ Retries[Ops[jobs[n].op]] \in Nat
    BY <1>1, <1>4, OperationsTyped DEF Ops
  <1>6. jobs[n].op \in 1..3
    BY <1>2, <1>4
  <1> QED
    BY <1>1, <1>3, <1>4, <1>5, <1>6 DEF Fits

\* A response moves the job on, at the end with the selected source's rows.
LEMMA RequestDeliversKeeps ==
    ASSUME Careful, NEW n \in Tries, RequestDelivers(n)
    PROVE  Careful'
  <1> DEFINE op == jobs[n].op
  <1>1. /\ Running(n) /\ op <= Len(Ops) /\ UNCHANGED <<conf, app>>
        /\ sent' = [sent EXCEPT ![op] = @ + 1]
    BY DEF RequestDelivers, Ops, Count
  <1>2. /\ conf \in Configs /\ jobs[n] \in Job /\ Fits(jobs[n])
        /\ op \in DOMAIN Ops /\ op \in 1..3 /\ ~jobs[n].refused
        /\ jobs[n].answer = NoAnswer /\ jobs[n].at = "running"
    BY <1>1, RequestTyped
  <1>3. CASE op < Len(Ops)
    <2> DEFINE j == [jobs[n] EXCEPT !.op = op + 1, !.try = 0]
    <2>0. op + 1 \in 1..4 /\ 0 \in Nat
      BY <1>2
    <2>1. /\ j \in Job /\ j.op = op + 1 /\ j.try = 0 /\ j.at = "running"
          /\ j.refused = jobs[n].refused /\ j.answer = NoAnswer
      BY <1>2, <2>0, ZenonT(60) DEF Job
    <2>2. jobs' = [jobs EXCEPT ![n].op = op + 1, ![n].try = 0]
      BY <1>3 DEF RequestDelivers, Ops
    <2>3. jobs' = [jobs EXCEPT ![n] = j]
      BY <2>2 DEF Careful, TypeOK
    <2>4. j.op \in DOMAIN Ops /\ Retries[Ops[j.op]] \in Nat
      <3>1. DOMAIN Ops = 1..Len(Ops) /\ Len(Ops) \in 0..3
        BY <1>2, OperationsTyped DEF Ops
      <3>2. j.op \in DOMAIN Ops
        BY <1>2, <1>3, <2>1, <3>1
      <3> QED
        BY <1>2, <3>2, OperationsTyped DEF Ops
    <2> HIDE DEF j
    <2>5. Fits(j)
      BY <1>2, <2>1, <2>4 DEF Fits, Genuine, NoAnswer, Failure
    <2>6. Moves(n, j)
      BY <1>1, <1>2, <2>1, <2>3, <2>5 DEF Moves
    <2> QED
      BY <1>1, <2>6, MovesKeep
  <1>4. CASE ~(op < Len(Ops))
    <2> DEFINE a == Rows(conf.theirs, conf.theirs)
               j == [jobs[n] EXCEPT !.at = "done", !.answer = a]
    <2>1. a \in Answer
      BY <1>2, AnswersTyped, ConfigTyped
    <2>2. a.source = conf.theirs /\ a.made = conf.theirs /\ ~a.recoverable
      BY DEF Rows
    <2>3. jobs' = [jobs EXCEPT ![n].at = "done", ![n].answer = a]
      BY <1>4 DEF RequestDelivers, Ops, Ends
    <2> HIDE DEF a
    <2>4. /\ j \in Job /\ j.at = "done" /\ j.answer = a
          /\ j.op = op /\ j.try = jobs[n].try /\ j.refused = jobs[n].refused
      BY <1>2, <2>1 DEF Job
    <2>5. jobs' = [jobs EXCEPT ![n] = j]
      BY <2>3 DEF Careful, TypeOK
    <2> HIDE DEF j
    <2>6. Fits(j)
      BY <1>2, <2>2, <2>4 DEF Fits, Genuine
    <2>7. Moves(n, j)
      BY <1>1, <1>2, <2>4, <2>5, <2>6 DEF Moves
    <2> QED
      BY <1>1, <2>7, MovesKeep
  <1> QED
    BY <1>3, <1>4

\* A refusal ends the job for good.
LEMMA RequestRefusedKeeps ==
    ASSUME Careful, NEW n \in Tries, RequestRefused(n)
    PROVE  Careful'
  <1> DEFINE op == jobs[n].op
  <1>1. /\ Running(n) /\ op <= Len(Ops) /\ UNCHANGED <<conf, app>>
        /\ sent' = [sent EXCEPT ![op] = @ + 1]
    BY DEF RequestRefused, Ops, Count
  <1>2. /\ conf \in Configs /\ jobs[n] \in Job /\ Fits(jobs[n])
        /\ op \in DOMAIN Ops /\ op \in 1..3 /\ Ops[op] \in Vendors
    BY <1>1, RequestTyped
  <1>3. PICK v \in {Ops[op], Ops[Len(Ops)]} : \E a \in AfterFailure(conf, v, FALSE) :
            jobs' = [jobs EXCEPT ![n].at = "done", ![n].refused = TRUE, ![n].answer = a]
    BY DEF RequestRefused, Ops
  <1>4. PICK a \in AfterFailure(conf, v, FALSE) :
            jobs' = [jobs EXCEPT ![n].at = "done", ![n].refused = TRUE, ![n].answer = a]
    BY <1>3
  <1>5. v \in Vendors
    <2>1. Len(Ops) \in DOMAIN Ops
      BY <1>2, OperationsTyped DEF Ops
    <2> QED
      BY <1>2, <2>1, OperationsTyped DEF Ops
  <1>6. /\ a \in Answer /\ ~a.recoverable
        /\ a.rows = "some" =>
              a.source = "demo_fallback" /\ a.made = "demo" /\ conf.theirsFallback
    BY <1>2, <1>5, FailureIsHonest
  <1> DEFINE j == [jobs[n] EXCEPT !.at = "done", !.refused = TRUE, !.answer = a]
  <1>7. /\ j \in Job /\ j.at = "done" /\ j.answer = a
        /\ j.op = op /\ j.try = jobs[n].try
    BY <1>2, <1>6 DEF Job
  <1>8. jobs' = [jobs EXCEPT ![n] = j]
    BY <1>4 DEF Careful, TypeOK
  <1> HIDE DEF j
  <1>9. Fits(j)
    BY <1>2, <1>6, <1>7 DEF Fits, Genuine
  <1>10. Moves(n, j)
    BY <1>1, <1>2, <1>7, <1>8, <1>9 DEF Moves
  <1> QED
    BY <1>1, <1>10, MovesKeep

\* An unknown exception ends the job, with or without a request.
LEMMA BreakKeeps ==
    ASSUME Careful, NEW n \in Tries, Break(n)
    PROVE  Careful'
  <1> DEFINE op == jobs[n].op
  <1>1. Running(n) /\ op <= Len(Ops) /\ UNCHANGED <<conf, app>>
    BY DEF Break, Ops
  <1>2. /\ conf \in Configs /\ jobs[n] \in Job /\ Fits(jobs[n])
        /\ op \in DOMAIN Ops /\ op \in 1..3
    BY <1>1, RequestTyped
  <1>3. PICK code \in Unknown, refused \in BOOLEAN :
            /\ jobs' = [jobs EXCEPT ![n].at = "done", ![n].refused = refused,
                                    ![n].answer = Failure(code, FALSE)]
            /\ sent' = sent \/ sent' = [sent EXCEPT ![op] = @ + 1]
    BY DEF Break, Count, Unknown
  <1> DEFINE a == Failure(code, FALSE)
  <1>4. a \in Answer /\ ~a.recoverable /\ a.rows = "none"
    BY AnswersTyped DEF Failure, Codes
  <1> HIDE DEF a
  <1> DEFINE j == [jobs[n] EXCEPT !.at = "done", !.refused = refused, !.answer = a]
  <1>5. /\ j \in Job /\ j.at = "done" /\ j.answer = a
        /\ j.op = op /\ j.try = jobs[n].try
    BY <1>2, <1>4 DEF Job
  <1>6. jobs' = [jobs EXCEPT ![n].at = "done", ![n].refused = refused, ![n].answer = a]
    BY <1>3 DEF a
  <1>7. jobs' = [jobs EXCEPT ![n] = j]
    BY <1>6 DEF Careful, TypeOK
  <1> HIDE DEF j
  <1>8. Fits(j)
    BY <1>2, <1>4, <1>5 DEF Fits, Genuine
  <1>9. Moves(n, j)
    BY <1>1, <1>2, <1>3, <1>5, <1>7, <1>8 DEF Moves
  <1> QED
    BY <1>1, <1>9, MovesKeep

\* A transient failure is counted, and at the last try reported as recoverable.
LEMMA RequestFailsKeeps ==
    ASSUME Careful, NEW n \in Tries, RequestFails(n)
    PROVE  Careful'
  <1> DEFINE op == jobs[n].op
  <1>1. /\ Running(n) /\ op <= Len(Ops) /\ UNCHANGED <<conf, app>>
        /\ sent' = [sent EXCEPT ![op] = @ + 1]
    BY DEF RequestFails, Ops, Count
  <1>2. /\ conf \in Configs /\ jobs[n] \in Job /\ Fits(jobs[n])
        /\ op \in DOMAIN Ops /\ op \in 1..3 /\ Ops[op] \in Vendors
        /\ Retries[Ops[op]] \in Nat /\ jobs[n].try \in Nat
        /\ jobs[n].try <= Retries[Ops[op]] /\ ~jobs[n].refused
        /\ jobs[n].answer = NoAnswer /\ jobs[n].at = "running"
    BY <1>1, RequestTyped
  <1>3. CASE jobs[n].try < Retries[Ops[op]]
    <2> DEFINE j == [jobs[n] EXCEPT !.try = jobs[n].try + 1]
    <2>1. /\ j \in Job /\ j.op = op /\ j.try = jobs[n].try + 1 /\ j.at = "running"
          /\ j.refused = jobs[n].refused /\ j.answer = NoAnswer
      BY <1>2 DEF Job
    <2>2. jobs' = [jobs EXCEPT ![n].try = @ + 1]
      BY <1>3 DEF RequestFails, Ops
    <2>3. jobs' = [jobs EXCEPT ![n] = j]
      BY <2>2 DEF Careful, TypeOK
    <2> HIDE DEF j
    <2>4. Fits(j)
      BY <1>2, <1>3, <2>1 DEF Fits, Genuine, NoAnswer, Failure
    <2>5. Moves(n, j)
      BY <1>1, <1>2, <2>1, <2>3, <2>4 DEF Moves
    <2> QED
      BY <1>1, <2>5, MovesKeep
  <1>4. CASE ~(jobs[n].try < Retries[Ops[op]])
    <2>1. PICK a \in AfterFailure(conf, Ops[op], TRUE) :
              jobs' = [jobs EXCEPT ![n].at = "done", ![n].answer = a]
      BY <1>4 DEF RequestFails, Ops, Ends
    <2>2. /\ a \in Answer
          /\ a.recoverable => a.rows = "none" /\ a.error \in Vendors
          /\ a.rows = "some" =>
                a.source = "demo_fallback" /\ a.made = "demo" /\ conf.theirsFallback
      BY <1>2, FailureIsHonest
    <2> DEFINE j == [jobs[n] EXCEPT !.at = "done", !.answer = a]
    <2>3. /\ j \in Job /\ j.at = "done" /\ j.answer = a
          /\ j.op = op /\ j.try = jobs[n].try /\ j.refused = jobs[n].refused
      BY <1>2, <2>2 DEF Job
    <2>4. jobs' = [jobs EXCEPT ![n] = j]
      BY <2>1 DEF Careful, TypeOK
    <2> HIDE DEF j
    <2>5. j.try = Retries[Ops[j.op]]
      BY <1>2, <1>4, <2>3
    <2>6. Fits(j)
      BY <1>2, <2>2, <2>3, <2>5 DEF Fits, Genuine
    <2>7. Moves(n, j)
      BY <1>1, <1>2, <2>3, <2>4, <2>6 DEF Moves
    <2> QED
      BY <1>1, <2>7, MovesKeep
  <1> QED
    BY <1>3, <1>4

\* A dropped job says nothing.
LEMMA DropKeeps ==
    ASSUME Careful, NEW n \in Tries, Drop(n)
    PROVE  Careful'
  <1> DEFINE j == [jobs[n] EXCEPT !.at = "dropped"]
  <1>1. jobs[n] \in Job /\ Fits(jobs[n]) /\ jobs[n].at = "running"
    BY DEF Careful, Fits, Drop, Running
  <1>2. /\ j \in Job /\ j.at = "dropped" /\ j.answer = jobs[n].answer
        /\ j.op = jobs[n].op /\ j.try = jobs[n].try /\ j.refused = jobs[n].refused
    BY <1>1 DEF Job
  <1>3. jobs' = [jobs EXCEPT ![n] = j]
    BY DEF Careful, TypeOK, Drop
  <1> HIDE DEF j
  <1>4. Fits(j)
    BY <1>1, <1>2 DEF Fits, Genuine
  <1>5. Moves(n, j)
    BY <1>2, <1>3, <1>4 DEF Moves, Drop
  <1> QED
    BY <1>5, MovesKeep DEF Drop

-----------------------------------------------------------------------------
(* Steps of the application.                                                *)

\* Ending a search without an answer: nothing is claimed of anything.
LEMMA EndKeeps ==
    ASSUME Careful, app.at # "ended", NEW code \in Codes, NEW r \in BOOLEAN,
           End(Failure(code, r)), UNCHANGED <<conf, jobs, sent>>
    PROVE  Careful'
  <1> DEFINE a == Failure(code, r)
  <1>1. a \in Answer /\ a.rows = "none"
    BY AnswersTyped DEF Failure
  <1> HIDE DEF a
  <1>2. app' = [app EXCEPT !.at = "ended", !.outcome = a]
    BY DEF End, a
  <1>3. TypeOK
    BY DEF Careful
  <1>4. /\ app'.at = "ended" /\ app'.attempt = app.attempt
        /\ app'.answered = app.answered /\ app'.outcome = a
    BY <1>2, <1>3 DEF TypeOK
  <1>5. TypeOK'
    BY <1>1, <1>2, <1>3 DEF TypeOK
  <1>6. ~app.answered
    BY DEF Careful, Orderly
  <1>7. \A n \in Tries : Fits(jobs[n])'
    BY DEF Careful, Fits, Genuine, Ops
  <1>8. Orderly'
    BY <1>4, <1>6 DEF Careful, Orderly
  <1>9. Spent'
    BY DEF Careful, Spent, Spendable, Ops
  <1>10. ProvenanceIsHonest' /\ AdviceIsHonest'
    BY <1>1, <1>4, <1>6 DEF ProvenanceIsHonest, AdviceIsHonest, Ended
  <1> QED
    BY <1>5, <1>7, <1>8, <1>9, <1>10 DEF Careful

\* Starting attempt m, which nobody has worked on.
LEMMA StartKeeps ==
    ASSUME Careful, NEW m \in Tries, jobs[m] = NoJob, Start(m),
           m >= app.attempt, ~conf.demo => m = 1,
           app.at # "ended",
           app' = [app EXCEPT !.at = "waiting", !.attempt = m],
           UNCHANGED <<conf, sent>>
    PROVE  Careful'
  <1> DEFINE j == [NoJob EXCEPT !.at = "running"]
  <1>1. TypeOK /\ jobs \in [Tries -> Job] /\ Fits(NoJob)
    BY DEF Careful, TypeOK, Tries
  <1>2. /\ j \in Job /\ j.at = "running" /\ j.answer = NoJob.answer
        /\ j.op = NoJob.op /\ j.try = NoJob.try /\ j.refused = NoJob.refused
    BY <1>1 DEF Fits, Job
  <1>3. jobs' = [jobs EXCEPT ![m] = j]
    BY <1>1 DEF Start
  <1> HIDE DEF j
  <1>4. jobs' \in [Tries -> Job] /\ jobs'[m] = j /\ \A n \in Tries \ {m} : jobs'[n] = jobs[n]
    BY <1>1, <1>2, <1>3
  <1>5. /\ app'.at = "waiting" /\ app'.attempt = m
        /\ app'.answered = app.answered /\ app'.outcome = app.outcome
    BY <1>1 DEF TypeOK
  <1>6. TypeOK'
    BY <1>1, <1>4 DEF TypeOK, Tries
  <1>7. ~app.answered
    BY DEF Careful, Orderly
  <1>8. \A n \in Tries : Fits(jobs[n])'
    <2>1. Fits(j)
      BY <1>1, <1>2 DEF Fits, Genuine, NoJob
    <2>2. \A k : Fits(k) <=> Fits(k)'
      BY DEF Fits, Genuine, Ops
    <2> QED
      BY <1>4, <2>1, <2>2 DEF Careful
  <1>9. Orderly'
    <2>1. \A n \in Tries : n > m => n > app.attempt /\ n # m
      BY <1>1 DEF TypeOK, Tries
    <2> QED
      BY <1>4, <1>5, <1>7, <2>1 DEF Careful, Orderly
  <1>10. Spent'
    <2> SUFFICES ASSUME ~conf.demo, NEW i \in DOMAIN Ops
                 PROVE  sent[i] <= Spendable(jobs[1], i)'
      BY DEF Spent, Ops
    <2>1. m = 1
      OBVIOUS
    <2>2. jobs[1] = NoJob /\ jobs'[1] = j
      BY <1>4, <2>1
    <2>3. sent[i] <= Spendable(NoJob, i)
      BY <2>2 DEF Careful, Spent
    <2>4. NoJob.at = "idle"
      BY DEF NoJob
    <2> QED
      BY <1>2, <2>2, <2>3, <2>4 DEF Spendable, Ops
  <1>11. ProvenanceIsHonest' /\ AdviceIsHonest'
    BY <1>5 DEF ProvenanceIsHonest, AdviceIsHonest, Ended
  <1> QED
    BY <1>6, <1>8, <1>9, <1>10, <1>11 DEF Careful

\* The first attempt starts, or the search ends for want of a tool.
LEMMA BeginKeeps == Careful /\ Begin => Careful'
  <1> SUFFICES ASSUME Careful, Begin PROVE Careful'
    OBVIOUS
  <1> USE SearchAssumption
  <1>1. /\ app.at = "start" /\ app.attempt = 1 /\ jobs[1] = NoJob /\ 1 \in Tries
        /\ UNCHANGED <<conf, sent>>
    BY DEF Begin, Careful, Orderly, Tries
  <1>2. CASE app' = [app EXCEPT !.at = "waiting"] /\ Start(1)
    <2>1. app' = [app EXCEPT !.at = "waiting", !.attempt = 1]
      BY <1>1, <1>2 DEF Careful, TypeOK
    <2>2. app.at # "ended" /\ 1 >= app.attempt
      BY <1>1
    <2> QED
      BY <1>1, <1>2, <2>1, <2>2, StartKeeps
  <1>3. ASSUME NEW code \in Codes, End(Failure(code, TRUE)), UNCHANGED jobs
        PROVE  Careful'
    BY <1>1, <1>3, EndKeeps
  <1>4. "mcp_tool_not_found" \in Codes /\ "mcp_discovery_failed" \in Codes
    BY DEF Codes
  <1> QED
    BY <1>2, <1>3, <1>4 DEF Begin

\* Another attempt exists in demo mode only.
LEMMA TryAgainKeeps == Careful /\ TryAgain => Careful'
  <1> SUFFICES ASSUME Careful, TryAgain PROVE Careful'
    OBVIOUS
  <1> USE SearchAssumption
  <1> DEFINE m == app.attempt + 1
  <1>1. /\ app.at = "waiting" /\ app.attempt < Attempts(conf) /\ app.attempt \in Tries
        /\ UNCHANGED <<conf, sent>> /\ Start(m) /\ app' = [app EXCEPT !.attempt = m]
    BY DEF TryAgain, Waiting, Careful, TypeOK, Tries
  <1>2. conf.demo /\ m \in Tries /\ m > app.attempt
    BY <1>1 DEF Attempts, Tries
  <1>3. jobs[m] = NoJob
    BY <1>2 DEF Careful, Orderly
  <1>4. app' = [app EXCEPT !.at = "waiting", !.attempt = m]
    BY <1>1 DEF Careful, TypeOK
  <1>5. m >= app.attempt
    BY <1>1, <1>2 DEF Tries
  <1> HIDE DEF m
  <1> QED
    BY <1>1, <1>2, <1>3, <1>4, <1>5, StartKeeps

\* An answer is passed on only if the application's own settings allow it.
LEMMA ReceiveKeeps == Careful /\ Receive => Careful'
  <1> SUFFICES ASSUME Careful, Receive PROVE Careful'
    OBVIOUS
  <1> DEFINE job == jobs[app.attempt]
             a == job.answer
             b == IF conf.mcp THEN Decoded(conf, a) ELSE a
             out == Settled(conf, b)
  <1>1. /\ TypeOK /\ app.at = "waiting" /\ job.at = "done" /\ UNCHANGED <<conf, jobs, sent>>
        /\ app' = [app EXCEPT !.at = "ended", !.answered = TRUE, !.outcome = out]
    BY DEF Receive, Waiting, Careful
  <1>2. app.attempt \in Tries /\ conf \in Configs
    BY <1>1 DEF TypeOK, Tries
  <1>3. Fits(job) /\ job \in Job /\ a \in Answer
    BY <1>2 DEF Careful, Fits, Job
  <1>4. /\ conf.mine # "demo_fallback" /\ conf.theirs # "demo_fallback"
        /\ ~conf.mcp => conf.mine = conf.theirs /\ conf.mineFallback = conf.theirsFallback
    BY <1>2, ConfigTyped
  <1>5. /\ a.rows = "some" =>
              \/ a.source = conf.theirs /\ a.made = conf.theirs
              \/ /\ a.source = "demo_fallback" /\ a.made = "demo"
                 /\ conf.theirsFallback
        /\ a.recoverable =>
              /\ a.rows = "none" /\ a.error \in Vendors /\ ~job.refused
              /\ job.op \in DOMAIN Ops /\ job.try = Retries[Ops[job.op]]
    BY <1>3 DEF Fits, Genuine
  <1>6. a.rows \in {"none", "empty", "some"} /\ a.recoverable \in BOOLEAN
    BY <1>3 DEF Answer
  <1> HIDE DEF a
  <1>7. /\ b \in Answer
        /\ b.rows # "none" => b = a /\ (conf.mcp => Accepts(conf, a))
        /\ b.recoverable => a.recoverable /\ b.error \in {"mcp_tool_failed", a.error}
        /\ b.error \in Unknown => b = a /\ ~conf.mcp
    <2>1. \A code \in Codes, r \in BOOLEAN :
              /\ Failure(code, r).rows = "none" /\ Failure(code, r).recoverable = r
              /\ Failure(code, r).error = code
      BY DEF Failure
    <2>2. /\ "mcp_tool_failed" \in Codes /\ "mcp_invalid_response" \in Codes
          /\ {"mcp_tool_failed", "mcp_invalid_response", "none"} \cap Unknown = {}
      BY DEF Codes, Unknown
    <2>3. b \in {Failure("mcp_tool_failed", a.recoverable),
                 Failure("mcp_invalid_response", FALSE), a}
      BY DEF Decoded
    <2>4. b = a /\ conf.mcp => Accepts(conf, a) \/ a.error # "none"
      <3>1. CASE conf.mcp /\ a.error = "none" /\ ~Accepts(conf, a)
        <4>1. Failure("mcp_invalid_response", FALSE).error # "none"
          BY DEF Failure
        <4> QED
          BY <3>1, <4>1 DEF Decoded
      <3> QED
        BY <3>1
    <2>5. conf.mcp /\ a.error # "none" => b.rows = "none"
      BY <1>6, <2>1, <2>2 DEF Decoded
    <2>6. b \in Answer
      BY <1>3, <1>6, <2>2, <2>3, AnswersTyped
    <2>7. b.recoverable => a.recoverable /\ b.error \in {"mcp_tool_failed", a.error}
      <3>1. CASE b = a
        BY <3>1
      <3>2. CASE b = Failure("mcp_tool_failed", a.recoverable)
        <4>1. b.recoverable = a.recoverable /\ b.error = "mcp_tool_failed"
          BY <1>6, <2>1, <2>2, <3>2
        <4> QED
          BY <4>1
      <3>3. CASE b = Failure("mcp_invalid_response", FALSE)
        <4>1. b.recoverable = FALSE
          BY <2>1, <2>2, <3>3
        <4> QED
          BY <4>1
      <3> QED
        BY <2>3, <3>1, <3>2, <3>3
    <2>8. b.error \in Unknown => b = a /\ ~conf.mcp
      <3>1. CASE conf.mcp /\ a.error # "none"
        <4>1. b.error = "mcp_tool_failed"
          BY <1>6, <2>1, <2>2, <3>1 DEF Decoded
        <4> QED
          BY <2>2, <4>1
      <3>2. CASE conf.mcp /\ a.error = "none"
        <4>1. b.error \in {"none", "mcp_invalid_response"}
          BY <2>1, <2>2, <3>2 DEF Decoded
        <4> QED
          BY <2>2, <4>1
      <3>3. CASE ~conf.mcp
        BY <3>3
      <3> QED
        BY <3>1, <3>2, <3>3
    <2> QED
      <3>1. b.rows # "none" => b = a /\ (conf.mcp => Accepts(conf, a))
        <4>1. CASE b = a
          BY <2>4, <2>5, <4>1
        <4>2. CASE b \in {Failure("mcp_tool_failed", a.recoverable),
                          Failure("mcp_invalid_response", FALSE)}
          <5>1. b.rows = "none"
            BY <1>6, <4>2 DEF Failure
          <5> QED
            BY <5>1
        <4> QED
          BY <2>3, <4>1, <4>2
      <3> QED
        BY <2>6, <2>7, <2>8, <3>1
  <1> HIDE DEF b
  <1>8. /\ out \in Answer
        /\ out.rows # "none" => out = b /\ b.rows = "some" /\ conf.kind # "route"
        /\ out.recoverable =>
              \/ out.error = "empty_result"
              \/ out.error = "provider_error" /\ b.error \in Unknown
              \/ out = b
    <2>1. \A code \in Codes, r \in BOOLEAN :
              /\ Failure(code, r) \in Answer
              /\ Failure(code, r).rows = "none" /\ Failure(code, r).recoverable = r
              /\ Failure(code, r).error = code
      BY AnswersTyped DEF Failure
    <2>2. {"route_unavailable", "empty_result", "invalid_result", "provider_error"} \subseteq Codes
      BY DEF Codes
    <2>3. CASE conf.kind = "route" /\ b.rows # "none"
      BY <2>1, <2>2, <2>3 DEF Settled
    <2>4. CASE ~(conf.kind = "route" /\ b.rows # "none") /\ b.rows = "empty"
      BY <2>1, <2>2, <2>4 DEF Settled
    <2>5. CASE ~(conf.kind = "route" /\ b.rows # "none") /\ b.rows # "empty"
      <3>1. b.rows \in {"none", "some"}
        BY <1>7, <2>5 DEF Answer
      <3>2. \/ out = b
            \/ out = Failure("invalid_result", FALSE)
            \/ out = Failure("provider_error", TRUE) /\ b.error \in Unknown
        BY <2>5 DEF Settled
      <3>3. CASE out = b
        <4>1. conf.kind = "route" => b.rows = "none"
          BY <2>5
        <4> QED
          BY <1>7, <3>1, <3>3, <4>1
      <3>4. CASE out = Failure("invalid_result", FALSE)
        <4>1. "invalid_result" \in Codes /\ FALSE \in BOOLEAN
          BY <2>2
        <4> QED
          BY <2>1, <3>4, <4>1
      <3>5. CASE out = Failure("provider_error", TRUE) /\ b.error \in Unknown
        <4>1. "provider_error" \in Codes /\ TRUE \in BOOLEAN
          BY <2>2
        <4> QED
          BY <2>1, <3>5, <4>1
      <3> QED
        BY <3>2, <3>3, <3>4, <3>5
    <2> QED
      BY <2>3, <2>4, <2>5
  <1> HIDE DEF out
  <1>9. /\ app'.at = "ended" /\ app'.attempt = app.attempt
        /\ app'.answered = TRUE /\ app'.outcome = out
    BY <1>1 DEF TypeOK
  <1>10. TypeOK'
    BY <1>1, <1>8 DEF TypeOK
  <1>11. \A n \in Tries : Fits(jobs[n])'
    BY <1>1 DEF Careful, Fits, Genuine, Ops
  <1>12. Orderly'
    BY <1>1, <1>9 DEF Careful, Orderly
  <1>13. Spent'
    BY <1>1 DEF Careful, Spent, Spendable, Ops
  <1>14. ProvenanceIsHonest'
    <2> SUFFICES ASSUME out.rows # "none"
                 PROVE  /\ out.rows = "some" /\ conf.kind # "route"
                        /\ \/ out.source = conf.mine /\ out.made = conf.mine
                           \/ /\ out.source = "demo_fallback" /\ out.made = "demo"
                              /\ conf.mineFallback /\ conf.theirsFallback
      BY <1>1, <1>9 DEF ProvenanceIsHonest, Ended
    <2>1. out = a /\ a.rows = "some" /\ conf.kind # "route" /\ (conf.mcp => Accepts(conf, a))
      BY <1>7, <1>8
    <2>2. CASE conf.mcp
      BY <1>4, <1>5, <2>1, <2>2 DEF Accepts
    <2>3. CASE ~conf.mcp
      BY <1>4, <1>5, <2>1, <2>3
    <2> QED
      BY <2>2, <2>3
  <1>15. AdviceIsHonest'
    <2> SUFFICES ASSUME out.recoverable
                 PROVE  \/ out.error = "empty_result"
                        \/ out.error = "provider_error" /\ a.error \in Unknown /\ ~conf.mcp
                        \/ /\ out.error \notin {"empty_result", "provider_error"}
                           /\ ~job.refused /\ job.op \in DOMAIN Ops /\ job.try = Retries[Ops[job.op]]
      BY <1>1, <1>9 DEF AdviceIsHonest, Ended, Ops, a
    <2>1. CASE out.error = "provider_error" /\ b.error \in Unknown
      BY <1>7, <2>1
    <2>2. CASE out = b
      <3>1. a.recoverable /\ out.error \in {"mcp_tool_failed", a.error} /\ a.error \in Vendors
        BY <1>5, <1>7, <2>2
      <3>2. out.error \notin {"empty_result", "provider_error"}
        BY <3>1 DEF Vendors
      <3> QED
        BY <1>5, <3>1, <3>2
    <2> QED
      BY <1>8, <2>1, <2>2
  <1> QED
    BY <1>10, <1>11, <1>12, <1>13, <1>14, <1>15 DEF Careful

-----------------------------------------------------------------------------
\* Every step keeps the invariant.
THEOREM NextCareful == Careful /\ [Next]_vars => Careful'
  <1> SUFFICES ASSUME Careful, [Next]_vars PROVE Careful'
    OBVIOUS
  <1>1. CASE Begin
    BY <1>1, BeginKeeps
  <1>2. CASE Receive
    BY <1>2, ReceiveKeeps
  <1>3. CASE ReceiveGarbled
    <2>1. PICK code \in {"mcp_tool_failed", "mcp_invalid_response"} :
              End(Failure(code, FALSE))
      BY <1>3 DEF ReceiveGarbled
    <2>2. code \in Codes
      BY DEF Codes
    <2> QED
      BY <1>3, <2>1, <2>2, EndKeeps DEF ReceiveGarbled, Waiting
  <1>4. CASE TryAgain
    BY <1>4, TryAgainKeeps
  <1>5. CASE GiveUp
    <2>1. PICK code \in {"mcp_tool_timeout", "mcp_transport_unavailable"} :
              End(Failure(code, TRUE))
      BY <1>5 DEF GiveUp
    <2>2. code \in Codes
      BY DEF Codes
    <2> QED
      BY <1>5, <2>1, <2>2, EndKeeps DEF GiveUp, Waiting
  <1>6. ASSUME NEW n \in DOMAIN jobs, Work(n) \/ Drop(n)
        PROVE  Careful'
    <2>1. n \in Tries
      BY DEF Careful, TypeOK, Tries
    <2> QED
      BY <1>6, <2>1, UseDemoKeeps, RejectTripKeeps, RequestDeliversKeeps,
         RequestRefusedKeeps, RequestFailsKeeps, BreakKeeps, DropKeeps DEF Work
  <1>7. CASE UNCHANGED vars
    <2>1. /\ conf' = conf /\ app' = app /\ jobs' = jobs /\ sent' = sent
      BY <1>7 DEF vars
    <2> QED
      BY <2>1 DEF Careful, TypeOK, Fits, Genuine, Orderly, Spent, Spendable, Ops,
                  ProvenanceIsHonest, AdviceIsHonest, Ended
  <1> QED
    BY <1>1, <1>2, <1>3, <1>4, <1>5, <1>6, <1>7 DEF Next

\* Careful holds in every state.
THEOREM AlwaysCareful == Spec => []Careful
  <1> QED
    BY InitCareful, NextCareful, PTL DEF Spec

\* The records of the search have their types, whatever the settings.
THEOREM SearchTypeCorrect == Spec => []TypeOK
  <1>1. Careful => TypeOK
    BY DEF Careful
  <1> QED
    BY <1>1, AlwaysCareful, PTL

\* A result names the source that made it, and both processes allowed it.
THEOREM ResultsAreHonest == Spec => []ProvenanceIsHonest
  <1>1. Careful => ProvenanceIsHonest
    BY DEF Careful
  <1> QED
    BY <1>1, AlwaysCareful, PTL

\* An error reported as recoverable is an empty search, was earned by used up
\* retries, or is the guess at an exception nobody knew, made in one process only.
THEOREM AdviceHolds == Spec => []AdviceIsHonest
  <1>1. Careful => AdviceIsHonest
    BY DEF Careful
  <1> QED
    BY <1>1, AlwaysCareful, PTL

\* No retry layer multiplies the requests of another in external mode.
THEOREM SearchesAreBounded == Spec => []RequestsAreBounded
  <1>1. Careful => RequestsAreBounded
    <2> SUFFICES ASSUME Careful, ~conf.demo, NEW i \in 1..Len(Ops)
                 PROVE  sent[i] <= Retries[Ops[i]] + 1
      BY DEF RequestsAreBounded, Ops
    <2>1. conf \in Configs /\ 1 \in Tries /\ Fits(jobs[1])
      BY SearchAssumption DEF Careful, TypeOK, Tries
    <2>2. i \in DOMAIN Ops /\ Retries[Ops[i]] \in Nat /\ i \in 1..3
      BY <2>1, OperationsTyped DEF Ops
    <2>3. sent[i] \in Nat /\ sent[i] <= Spendable(jobs[1], i)
      BY <2>2 DEF Careful, TypeOK, Spent
    <2>4. jobs[1].op \in 1..4 /\ jobs[1].try \in Nat
      BY <2>1 DEF Fits, Job
    <2>5. jobs[1].op = i => jobs[1].try <= Retries[Ops[i]]
      BY <2>1, <2>2 DEF Fits
    <2> QED
      BY <2>2, <2>3, <2>4, <2>5 DEF Spendable
  <1> QED
    BY <1>1, AlwaysCareful, PTL

\* After a refusal nothing more is sent for the attempt, nor in external mode
\* for the search.
THEOREM RefusalsAreFinal == Spec => RefusedIsFinal
  <1> DEFINE Final == sent' # sent =>
                 \A n \in DOMAIN jobs :
                     jobs[n].refused => jobs'[n] = jobs[n] /\ conf.demo
  <1>1. Careful /\ [Next]_vars => [Final]_vars
    <2> SUFFICES ASSUME Careful, Next, sent' # sent,
                        NEW m \in DOMAIN jobs, jobs[m].refused
                 PROVE  jobs'[m] = jobs[m] /\ conf.demo
      BY DEF vars
    <2>1. PICK n \in DOMAIN jobs :
              RequestDelivers(n) \/ RequestRefused(n) \/ RequestFails(n) \/ Break(n)
      BY DEF Next, Begin, Receive, ReceiveGarbled, TryAgain, GiveUp, Work, Drop,
             UseDemo, RejectTrip
    <2>2. /\ m \in Tries /\ n \in Tries /\ jobs \in [Tries -> Job]
          /\ Fits(jobs[m]) /\ Fits(jobs[n])
      BY DEF Careful, TypeOK, Tries
    <2>3. Running(n)
      BY <2>1 DEF RequestDelivers, RequestRefused, RequestFails, Break
    <2>4. n # m
      BY <2>2, <2>3 DEF Fits, Running
    <2>5. jobs'[m] = jobs[m]
      BY <2>1, <2>2, <2>4 DEF RequestDelivers, RequestRefused, RequestFails, Break, Ends
    <2>6. NoJob.at = "idle" /\ ~NoJob.refused
      BY DEF NoJob
    <2>7. n <= app.attempt /\ m <= app.attempt
      <3>1. app.attempt \in Nat /\ n \in Nat /\ m \in Nat
        BY <2>2 DEF Careful, TypeOK, Tries
      <3>2. ~(n > app.attempt)
        BY <2>2, <2>3, <2>6 DEF Careful, Orderly, Running
      <3>3. ~(m > app.attempt)
        BY <2>2, <2>6 DEF Careful, Orderly
      <3> QED
        BY <3>1, <3>2, <3>3
    <2>8. conf.demo
      BY <2>2, <2>4, <2>7 DEF Careful, Orderly, Tries
    <2> QED
      BY <2>5, <2>8
  <1> QED
    BY <1>1, AlwaysCareful, PTL DEF Spec, RefusedIsFinal
=============================================================================
