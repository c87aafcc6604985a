---------------------------- MODULE PollingProofs ----------------------------
(***************************************************************************)
(* The bounds of a poll, for every interval, timeout and retry count; and  *)
(* what the health samples, their report and the status page say of the    *)
(* process that takes them, for any interval, retention and faults.        *)
(***************************************************************************)
EXTENDS MCPolling, FiniteSetTheorems, WellFoundedInduction, TLAPS

\* The policy, whatever the environment says.
PolicyOK ==
  /\ source \in Sources
  /\ policy \in [attempts: 1..5, budget: Nat \ {0}, attemptTimeout: Nat \ {0}]
  /\ policy.attemptTimeout <= AtLeast(policy.budget, MinAttemptTimeout)

ClockOK ==
  /\ phase \in {"sleep", "call", "backoff"}
  /\ attempt \in 1..policy.attempts
  /\ elapsed \in Nat /\ inPhase \in Nat
  /\ inPhase <= elapsed /\ inPhase <= PhaseLimit
  /\ failure \in Failure \cup {NoFailure}

\* When each phase began, counted from the start of the poll.
CallBegan == phase = "call" => IF attempt = 1 THEN elapsed = inPhase ELSE elapsed - inPhase < policy.budget
BackoffBegan ==
  phase = "backoff" => attempt < policy.attempts /\ elapsed - inPhase + Backoff(attempt) < policy.budget
SleepBegan == phase = "sleep" => elapsed - inPhase < policy.budget + policy.attemptTimeout

\* RetryInsideInterval is not inductive: it does not say when the backoff that
\* leads to a retry began, nor that its length still fits in the interval.
RetryInv == PolicyOK /\ ClockOK /\ CallBegan /\ BackoffBegan /\ SleepBegan

LEMMA BackoffNat == \A n \in 1..5 : Backoff(n) \in Nat
<1>1. 2^0 \in Nat /\ 2^1 \in Nat /\ 2^2 \in Nat /\ 2^3 \in Nat /\ 2^4 \in Nat
  BY SMT
<1>2. SUFFICES ASSUME NEW n \in 1..5 PROVE 2^(n - 1) \in Nat
  BY DEF Backoff
<1>3. n - 1 = 0 \/ n - 1 = 1 \/ n - 1 = 2 \/ n - 1 = 3 \/ n - 1 = 4
  OBVIOUS
<1>4. QED
  BY <1>1, <1>3, Zenon

LEMMA PolicyBuilt ==
  ASSUME NEW n \in Nat, NEW i \in Nat, NEW h \in Nat
  PROVE  LET p == NewPolicy(n, i, h)
         IN /\ p \in [attempts: 1..5, budget: Nat \ {0}, attemptTimeout: Nat \ {0}]
            /\ p.attemptTimeout <= AtLeast(p.budget, MinAttemptTimeout)
<1>1. Clamped(n) \in 1..5
  BY DEF Clamped, AtLeast, AtMost
<1>2. Secs(AtLeast(i, 1)) \in Nat \ {0} /\ Secs(AtLeast(h, 1)) \in Nat \ {0}
  BY DEF Secs, AtLeast
<1>3. QED
  BY <1>1, <1>2 DEF NewPolicy, AtLeast, AtMost, MinAttemptTimeout, Secs

LEMMA RetryInit == Init => RetryInv
<1> SUFFICES ASSUME Init PROVE RetryInv
  OBVIOUS
<1>1. PolicyOK
  <2>1. PICK n \in RetryCounts, i \in Intervals, h \in HttpTimeouts : policy = NewPolicy(n, i, h)
    BY DEF Init
  <2>2. n \in Nat /\ i \in Nat /\ h \in Nat
    BY RetryPolicyAssumption
  <2>3. QED
    BY <2>1, <2>2, PolicyBuilt DEF Init, PolicyOK
<1>2. /\ phase = "sleep" /\ inPhase = policy.budget /\ elapsed = policy.budget
      /\ attempt = 1 /\ failure = NoFailure
  BY DEF Init
<1>3. QED
  BY <1>1, <1>2 DEF RetryInv, PolicyOK, ClockOK, CallBegan, BackoffBegan, SleepBegan, PhaseLimit

\* The end of a poll, in any phase that a poll passes through.
LEMMA EndsWell ==
  ASSUME RetryInv, phase = "call", EndPoll, failure' \in Failure \cup {NoFailure},
         UNCHANGED <<source, policy, elapsed>>
  PROVE  RetryInv'
BY DEF RetryInv, PolicyOK, ClockOK, CallBegan, BackoffBegan, SleepBegan, PhaseLimit, EndPoll, Enter

LEMMA FailsWell ==
  ASSUME RetryInv, phase = "call", NEW f \in Failure, Failed(f)
  PROVE  RetryInv'
<1>1. CASE GivesUp(Class(f))
  BY <1>1, EndsWell DEF Failed
<1>2. CASE ~GivesUp(Class(f))
  <2>1. Backoff(attempt) \in Nat
    BY BackoffNat DEF RetryInv, PolicyOK, ClockOK
  <2>2. /\ phase' = "backoff" /\ inPhase' = 0 /\ attempt' = attempt /\ failure' = f
        /\ UNCHANGED <<source, policy, elapsed>>
        /\ attempt < policy.attempts /\ elapsed + Backoff(attempt) < policy.budget
    BY <1>2, <2>1 DEF Failed, GivesUp, Enter, RetryInv, PolicyOK, ClockOK
  <2>3. Backoff(attempt') = Backoff(attempt)
    BY <2>2
  <2>4. QED
    BY <2>1, <2>2, <2>3
    DEF RetryInv, PolicyOK, ClockOK, CallBegan, BackoffBegan, SleepBegan, PhaseLimit
<1>3. QED
  BY <1>1, <1>2

LEMMA RetryStep == RetryInv /\ [Next]_vars => RetryInv'
<1> SUFFICES ASSUME RetryInv, [Next]_vars PROVE RetryInv'
  OBVIOUS
<1>1. Backoff(attempt) \in Nat
  BY BackoffNat DEF RetryInv, PolicyOK, ClockOK
<1>2. CASE Poll
  BY <1>2 DEF Poll, Enter, RetryInv, PolicyOK, ClockOK, CallBegan, BackoffBegan, SleepBegan, PhaseLimit
<1>3. CASE Skip
  BY <1>3 DEF Skip, Enter, RetryInv, PolicyOK, ClockOK, CallBegan, BackoffBegan, SleepBegan, PhaseLimit
<1>4. CASE Succeeds
  BY <1>4, EndsWell DEF Succeeds
<1>5. ASSUME NEW f \in Failure, Fails(f) PROVE RetryInv'
  BY <1>5, EndsWell, FailsWell DEF Fails
<1>6. CASE TimesOut
  <2>1. Timeout \in [decode: {FALSE}, transport: {TRUE}, status: {0}]
    BY DEF Timeout
  <2>2. QED
    BY <1>6, <2>1, FailsWell DEF TimesOut, Failure
<1>7. CASE Retry
  <2>1. attempt' \in 1..5
    BY <1>7 DEF Retry, RetryInv, PolicyOK, ClockOK, BackoffBegan
  <2>2. QED
    BY <1>1, <1>7, <2>1
    DEF Retry, Enter, RetryInv, PolicyOK, ClockOK, CallBegan, BackoffBegan, SleepBegan, PhaseLimit
<1>8. CASE Elapse
  <2>1. Backoff(attempt') = Backoff(attempt)
    BY <1>8 DEF Elapse
  <2>2. QED
    BY <1>1, <1>8, <2>1
    DEF Elapse, RetryInv, PolicyOK, ClockOK, CallBegan, BackoffBegan, SleepBegan, PhaseLimit
<1>9. CASE UNCHANGED vars
  BY <1>9 DEF vars, RetryInv, PolicyOK, ClockOK, CallBegan, BackoffBegan, SleepBegan, PhaseLimit, Backoff
<1>10. QED
  BY <1>2, <1>3, <1>4, <1>5, <1>6, <1>7, <1>8, <1>9 DEF Next

LEMMA RetryInvariant == Spec => []RetryInv
BY RetryInit, RetryStep, PTL DEF Spec

\* Type correctness: the attempt number stays within RETRY_COUNT as clamped, no
\* phase outlasts its limit, and no cycle two intervals and an attempt.
THEOREM RetryTypes == Spec => []TypeOK
<1>1. RetryInv => TypeOK
  <2> SUFFICES ASSUME RetryInv PROVE TypeOK
    OBVIOUS
  <2>1. Backoff(attempt) \in Nat /\ PhaseLimit \in Nat
    BY BackoffNat DEF RetryInv, PolicyOK, ClockOK, PhaseLimit
  <2>2. elapsed \in 0..Horizon
    BY <2>1 DEF RetryInv, PolicyOK, ClockOK, CallBegan, BackoffBegan, SleepBegan, PhaseLimit, Horizon
  <2>3. QED
    BY <2>1, <2>2 DEF TypeOK, RetryInv, PolicyOK, ClockOK
<1>2. QED
  BY <1>1, RetryInvariant, PTL

\* For every interval, timeout and retry count, no retry starts after the poll's
\* interval is over, and a poll outlasts it by less than one attempt.
THEOREM RetriesStartInside == Spec => []RetryInsideInterval
<1>1. RetryInv => RetryInsideInterval
  <2> SUFFICES ASSUME RetryInv PROVE RetryInsideInterval
    OBVIOUS
  <2>1. Backoff(attempt) \in Nat
    BY BackoffNat DEF RetryInv, PolicyOK, ClockOK
  <2>2. QED
    BY <2>1 DEF RetryInsideInterval, RetryInv, PolicyOK, ClockOK, CallBegan, BackoffBegan, PhaseLimit
<1>2. QED
  BY <1>1, RetryInvariant, PTL

\* A source slower than the floor is polled at least once in two intervals and a
\* sleep, however long HTTP_TIMEOUT is.
THEOREM PollsAreShort == Spec => []WithinTwoIntervals
<1>1. RetryInv => WithinTwoIntervals
  <2> SUFFICES ASSUME RetryInv PROVE WithinTwoIntervals
    OBVIOUS
  <2>1. Backoff(attempt) \in Nat
    BY BackoffNat DEF RetryInv, PolicyOK, ClockOK
  <2>2. QED
    BY <2>1 DEF WithinTwoIntervals, RetryInv, PolicyOK, ClockOK, CallBegan, BackoffBegan, PhaseLimit,
                AtLeast, MinAttemptTimeout, Secs
<1>2. QED
  BY <1>1, RetryInvariant, PTL

\* A failure a second attempt can fix is a transient one, and a timeout is such.
LEMMA WorthIsTransient ==
  ASSUME NEW f \in Failure, WorthRetrying(f)
  PROVE  Class(f) = "transient"
<1>1. f.decode \in BOOLEAN /\ f.transport \in BOOLEAN
  BY DEF Failure
<1>2. 500 \in 500..599 \ {501} /\ 503 \in 500..599 \ {501}
  OBVIOUS
<1>3. QED
  BY <1>1, <1>2 DEF WorthRetrying, Class

LEMMA FailedIsSpent ==
  ASSUME RetryInv, NEW f \in Failure, Failed(f), phase' = "sleep", WorthRetrying(failure')
  PROVE  Spent
<1>1. failure' = f /\ GivesUp(Class(f))
  BY DEF Failed, Enter
<1>2. Class(f) = "transient"
  BY <1>1, WorthIsTransient
<1>3. attempt >= policy.attempts \/ elapsed + Backoff(attempt) >= policy.budget
  BY <1>1, <1>2 DEF GivesUp
<1>4. QED
  BY <1>3 DEF Spent, RetryInv, PolicyOK, ClockOK

\* Whatever RETRY_COUNT, interval and timeout: a feed's poll that failed in a way
\* worth another try ends only when no attempt is left, or none would start
\* inside the interval.
THEOREM GivesUpWhenSpent == Spec => GivesUpOnlyWhenSpent
<1>1. RetryInv /\ [Next]_vars
        => [source = "feed" /\ phase = "call" /\ phase' = "sleep" /\ WorthRetrying(failure') => Spent]_vars
  <2> SUFFICES ASSUME RetryInv, Next,
                      source = "feed", phase = "call", phase' = "sleep", WorthRetrying(failure')
               PROVE  Spent
    OBVIOUS
  <2>1. ~Poll /\ ~Skip /\ ~Retry /\ ~Elapse
    BY DEF Poll, Skip, Retry, Elapse
  <2>2. ~Succeeds
    BY DEF Succeeds, NoFailure, WorthRetrying
  <2>3. ASSUME NEW f \in Failure, Fails(f) PROVE Spent
    BY <2>3, FailedIsSpent DEF Fails, SeenAsFailure
  <2>4. CASE TimesOut
    <3>1. Timeout \in Failure
      BY DEF Timeout, Failure
    <3>2. QED
      BY <2>4, <3>1, FailedIsSpent DEF TimesOut
  <2>5. QED
    BY <2>1, <2>2, <2>3, <2>4 DEF Next
<1>2. QED
  BY <1>1, RetryInvariant, PTL DEF Spec, GivesUpOnlyWhenSpent

-----------------------------------------------------------------------------
(* Health snapshots                                                          *)

LEMMA HealthNumbers ==
  /\ FetchWait \in Nat /\ MaxVerdictAge \in Nat /\ MaxNow \in Nat /\ MaxFaults \in Nat
  /\ Interval \in Nat \ {0} /\ Day \in Nat \ {0} /\ Window \in Nat \ {0} /\ KeepDays \in Nat \ {0}
  /\ Window < KeepDays
BY HealthConstants DEF H!HealthAssumption

\* The process was started in the order of its runs, the last of them the present one.
StartsOK ==
  /\ IsFiniteSet(starts)
  /\ \A p, q \in starts : p[2] <= q[2] => p[1] <= q[1]
  /\ \A p \in starts : p[1] <= now /\ p[2] <= run
  /\ (run - 1) + (IF poller = H!Down THEN 1 ELSE 0) <= faults

\* A sample is of a run that had begun and before the next, an interval from each other of
\* that run, and the process was up between them.
SamplesOK ==
  /\ IsFiniteSet(taken)
  /\ \A s \in taken :
       /\ s.ts <= now /\ s.run <= run
       /\ \E p \in starts : p[2] = s.run /\ p[1] <= s.ts
       /\ \A p \in starts : s.run < p[2] => s.ts <= p[1]
  /\ \A s, q \in taken : s.run = q.run /\ s # q => s.ts + Interval <= q.ts \/ q.ts + Interval <= s.ts
  /\ \A s, q \in taken, t \in down : s.run = q.run /\ s.ts <= t => q.ts <= t

\* The sample that is being taken will be one of those too.
ProbeOK ==
  /\ \A t \in down : t < now
  /\ poller # H!Down => \E p \in starts : p[2] = run /\ \A t \in down : t < p[1]
  /\ poller.at = "sleeping" => \A s \in taken : s.run = run => s.ts + Interval <= poller.until
  /\ poller.at = "probing" =>
       /\ poller.since <= now
       /\ \A s \in taken : s.run = run => s.ts + Interval <= poller.since
       /\ \A p \in starts : p[1] <= poller.since
       /\ fetched <= poller.since

\* What is older than the retention is all that is missing.
KeptOK == \A s \in taken : s.ts >= now - KeepDays * Day => s \in store

\* A good verdict came with a fetch of its own.
VerdictOK == fetched <= now /\ (kind = "verdict" => \A s \in taken : s.ok => s.ts <= fetched)

HealthInv == H!TypeOK /\ StartsOK /\ SamplesOK /\ ProbeOK /\ KeptOK /\ VerdictOK

LEMMA HealthTypes ==
  ASSUME H!TypeOK
  PROVE  /\ now \in Nat /\ now <= MaxNow /\ run \in Nat \ {0} /\ run <= MaxFaults + 1
         /\ fetched \in Int /\ faults \in Nat /\ down \subseteq Nat
         /\ \A s \in taken : s.ts \in Nat /\ s.run \in Nat /\ s.ok \in BOOLEAN
         /\ \A p \in starts : p[1] \in Nat /\ p[2] \in Nat \ {0} /\ p = <<p[1], p[2]>>
         /\ poller.at = "sleeping" => poller.until \in Nat /\ poller.until <= MaxNow + Interval
         /\ poller.at = "probing" => poller.since \in 0..MaxNow
         /\ poller = H!Down \/ poller.at \in {"sleeping", "probing"}
         /\ H!Down.at = "down"
BY HealthNumbers DEF H!TypeOK, H!Samples, H!Down

LEMMA HealthInit == H!Init => HealthInv
<1> SUFFICES ASSUME H!Init PROVE HealthInv
  OBVIOUS
<1>1. /\ kind \in Kinds /\ now = 0 /\ run = 1 /\ store = {} /\ taken = {} /\ down = {}
      /\ starts = {<<0, 1>>} /\ fetched = -1 /\ faults = 0
      /\ poller = [at |-> "sleeping", until |-> 0]
  BY DEF H!Init
<1>2. H!TypeOK
  <2>1. poller \in [at : {"sleeping"}, until : 0..MaxNow + Interval]
    BY <1>1, HealthNumbers
  <2>2. <<0, 1>> \in (0..MaxNow) \X (1..MaxFaults + 1)
    BY HealthNumbers
  <2>3. QED
    BY <1>1, <2>1, <2>2, HealthNumbers DEF H!TypeOK
<1>3. poller # H!Down
  BY <1>1 DEF H!Down
<1>4. StartsOK
  <2>1. IsFiniteSet({<<0, 1>>})
    BY FS_Singleton
  <2>2. \A p \in starts : p[1] = 0 /\ p[2] = 1
    BY <1>1
  <2>3. QED
    BY <1>1, <1>3, <2>1, <2>2 DEF StartsOK
<1>5. SamplesOK /\ ProbeOK /\ KeptOK /\ VerdictOK
  BY <1>1, FS_EmptySet DEF SamplesOK, ProbeOK, KeptOK, VerdictOK
<1>6. QED
  BY <1>2, <1>4, <1>5 DEF HealthInv

\* A cycle that ends, with or without a sample.
LEMMA CycleEnds ==
  ASSUME HealthInv, poller.at = "probing", H!Sleeps,
         UNCHANGED <<kind, now, run, down, starts>>,
         faults' \in faults..MaxFaults, fetched' \in {fetched, poller.since},
         \/ UNCHANGED <<store, taken>>
         \/ \E ok \in BOOLEAN : H!Insert(ok) /\ (ok /\ kind = "verdict" => fetched' = poller.since)
  PROVE  HealthInv'
<1>1. /\ now \in Nat /\ now <= MaxNow /\ run \in Nat \ {0} /\ faults \in Nat /\ fetched \in Int
      /\ poller.since \in 0..MaxNow /\ poller.since <= now /\ fetched <= poller.since
      /\ Interval \in Nat \ {0} /\ MaxNow \in Nat /\ MaxFaults \in Nat
  BY HealthTypes, HealthNumbers DEF HealthInv, ProbeOK
<1>2. /\ poller' = [at |-> "sleeping", until |-> now + Interval]
      /\ poller # H!Down /\ poller' # H!Down /\ poller'.at = "sleeping" /\ poller'.until = now + Interval
  BY DEF H!Sleeps, H!Down
<1>3. /\ fetched <= fetched' /\ fetched' \in -1..MaxNow /\ fetched' <= now
      /\ faults' \in 0..MaxFaults /\ faults <= faults'
  BY <1>1 DEF HealthInv, H!TypeOK
<1>4. StartsOK'
  <2>1. (run - 1) + 0 <= faults
    BY <1>2 DEF HealthInv, StartsOK
  <2>2. (run - 1) + 0 <= faults'
    BY <1>1, <1>3, <2>1
  <2>3. QED
    BY <1>2, <2>2 DEF HealthInv, StartsOK, H!Down
<1>5. poller' \in [at : {"sleeping"}, until : 0..MaxNow + Interval]
  BY <1>1, <1>2
<1>6. CASE UNCHANGED <<store, taken>>
  <2>1. H!TypeOK'
    BY <1>3, <1>5, <1>6 DEF HealthInv, H!TypeOK
  <2>2. SamplesOK' /\ KeptOK'
    BY <1>6 DEF HealthInv, SamplesOK, KeptOK
  <2>3. ProbeOK'
    BY <1>1, <1>2, <1>6, HealthTypes DEF HealthInv, ProbeOK, SamplesOK
  <2>4. VerdictOK'
    BY <1>1, <1>3, <1>6, HealthTypes DEF HealthInv, VerdictOK
  <2>5. QED
    BY <1>4, <2>1, <2>2, <2>3, <2>4 DEF HealthInv
<1>7. ASSUME NEW ok \in BOOLEAN, H!Insert(ok), ok /\ kind = "verdict" => fetched' = poller.since
      PROVE  HealthInv'
  <2> DEFINE n == [ts |-> poller.since, run |-> run, ok |-> ok]
  <2>1. store' = store \cup {n} /\ taken' = taken \cup {n}
    BY <1>7 DEF H!Insert
  <2>2. n.ts = poller.since /\ n.run = run /\ n.ok = ok /\ n \in H!Samples
    BY <1>1 DEF H!Samples
  <2> HIDE DEF n
  <2>3. H!TypeOK'
    BY <1>3, <1>5, <2>1, <2>2 DEF HealthInv, H!TypeOK
  <2>4. PICK p \in starts : p[2] = run /\ p[1] <= n.ts /\ \A t \in down : t < p[1]
    BY <1>2, <2>2 DEF HealthInv, ProbeOK
  <2>5. \A q \in taken : q.run = n.run => q.ts + Interval <= n.ts
    BY <2>2 DEF HealthInv, ProbeOK
  <2>6. SamplesOK'
    <3>1. IsFiniteSet(taken')
      BY <2>1, FS_AddElement DEF HealthInv, SamplesOK
    <3>2. \A q \in taken' : /\ q.ts <= now /\ q.run <= run
                            /\ \E o \in starts : o[2] = q.run /\ o[1] <= q.ts
                            /\ \A o \in starts : q.run < o[2] => q.ts <= o[1]
      <4>1. ~\E o \in starts : run < o[2]
        BY <1>1, HealthTypes DEF HealthInv, StartsOK
      <4>2. QED
        BY <1>1, <2>1, <2>2, <2>4, <4>1 DEF HealthInv, SamplesOK
    <3>3. \A q, r \in taken' : q.run = r.run /\ q # r => q.ts + Interval <= r.ts \/ r.ts + Interval <= q.ts
      BY <2>1, <2>5 DEF HealthInv, SamplesOK
    <3>4. \A q, r \in taken', t \in down : q.run = r.run /\ q.ts <= t => r.ts <= t
      <4> SUFFICES ASSUME NEW q \in taken', NEW r \in taken', NEW t \in down, q.run = r.run, q.ts <= t
                   PROVE  r.ts <= t
        OBVIOUS
      <4>1. CASE r \in taken /\ q \in taken
        BY <4>1 DEF HealthInv, SamplesOK
      <4>2. CASE r \in taken /\ q = n
        <5>1. r.ts + Interval <= n.ts /\ r.ts \in Nat /\ t \in Nat
          BY <2>5, <4>2, HealthTypes DEF HealthInv
        <5>2. QED
          BY <1>1, <2>2, <4>2, <5>1
      <4>3. CASE r = n
        <5>1. t < p[1] /\ q.run = run
          BY <2>2, <2>4, <4>3
        <5>2. p[1] <= q.ts
          <6>1. CASE q = n
            BY <2>4, <6>1
          <6>2. CASE q \in taken
            <7>1. PICK o \in starts : o[2] = q.run /\ o[1] <= q.ts
              BY <6>2 DEF HealthInv, SamplesOK
            <7>2. p[1] <= o[1]
              BY <1>1, <2>4, <5>1, <7>1 DEF HealthInv, StartsOK
            <7>3. p[1] \in Nat /\ o[1] \in Nat /\ q.ts \in Nat
              BY <6>2, HealthTypes DEF HealthInv
            <7>4. QED
              BY <7>1, <7>2, <7>3
          <6>3. QED
            BY <2>1, <6>1, <6>2
        <5>3. p[1] \in Nat /\ q.ts \in Nat /\ t \in Nat
          BY <1>1, <2>1, <2>2, HealthTypes DEF HealthInv
        <5>4. QED
          BY <5>1, <5>2, <5>3
      <4>4. QED
        BY <2>1, <4>1, <4>2, <4>3
    <3>5. QED
      BY <3>1, <3>2, <3>3, <3>4 DEF SamplesOK
  <2>7. ProbeOK'
    <3>1. \A q \in taken' : q.run = run => q.ts + Interval <= now + Interval
      BY <1>1, <2>1, <2>2, HealthTypes DEF HealthInv, SamplesOK
    <3>2. QED
      BY <1>1, <1>2, <3>1 DEF HealthInv, ProbeOK
  <2>8. KeptOK'
    BY <2>1 DEF HealthInv, KeptOK
  <2>9. VerdictOK'
    BY <1>1, <1>3, <1>7, <2>1, <2>2, HealthTypes DEF HealthInv, VerdictOK
  <2>10. QED
    BY <1>4, <2>3, <2>6, <2>7, <2>8, <2>9 DEF HealthInv
<1>8. QED
  BY <1>6, <1>7

LEMMA HealthStep ==
  ASSUME HealthInv, [H!Next]_(H!vars)
  PROVE  HealthInv'
<1>1. /\ now \in Nat /\ now <= MaxNow /\ run \in Nat \ {0} /\ faults \in Nat /\ fetched \in Int
      /\ Interval \in Nat \ {0} /\ Day \in Nat \ {0} /\ KeepDays \in Nat /\ Window \in Nat
      /\ MaxNow \in Nat /\ MaxFaults \in Nat
      /\ H!TypeOK /\ StartsOK /\ SamplesOK /\ ProbeOK /\ KeptOK /\ VerdictOK
  BY HealthTypes, HealthNumbers DEF HealthInv
<1>2. faults \in 0..MaxFaults /\ fetched \in -1..MaxNow
  BY <1>1 DEF H!TypeOK
<1>3. CASE UNCHANGED H!vars
  BY <1>1, <1>3 DEF H!vars, HealthInv, H!TypeOK, StartsOK, SamplesOK, ProbeOK, KeptOK, VerdictOK
<1>4. CASE H!Probe
  <2>1. /\ poller.at = "sleeping" /\ poller.until <= now
        /\ poller' = [at |-> "probing", since |-> now]
        /\ UNCHANGED <<kind, now, run, store, taken, down, starts, fetched, faults>>
    BY <1>4 DEF H!Probe
  <2>2. poller'.at = "probing" /\ poller'.since = now /\ poller' # H!Down /\ poller # H!Down
    BY <2>1 DEF H!Down
  <2>3. poller' \in [at : {"probing"}, since : 0..MaxNow]
    BY <1>1, <2>1
  <2>4. H!TypeOK'
    BY <1>1, <2>1, <2>3 DEF H!TypeOK
  <2>5. StartsOK' /\ SamplesOK' /\ KeptOK' /\ VerdictOK'
    BY <1>1, <2>1, <2>2 DEF StartsOK, SamplesOK, KeptOK, VerdictOK
  <2>6. \A s \in taken : s.run = run => s.ts + Interval <= now
    BY <1>1, <2>1, HealthTypes DEF ProbeOK
  <2>7. ProbeOK'
    BY <1>1, <2>1, <2>2, <2>6 DEF ProbeOK, StartsOK, VerdictOK
  <2>8. QED
    BY <2>4, <2>5, <2>7 DEF HealthInv
<1>5. CASE H!Sampled
  <2>1. fetched' \in {fetched, poller.since} /\ (kind = "verdict" => fetched' = poller.since)
    BY <1>5 DEF H!Sampled
  <2>2. faults' \in faults..MaxFaults
    BY <1>1, <1>2, <1>5 DEF H!Sampled
  <2>3. /\ poller.at = "probing" /\ H!Sleeps /\ H!Insert(TRUE)
        /\ UNCHANGED <<kind, now, run, down, starts>>
    BY <1>5 DEF H!Sampled
  <2>4. QED
    BY <2>1, <2>2, <2>3, CycleEnds
<1>6. CASE H!SampledBad
  <2>1. faults' \in faults..MaxFaults
    BY <1>1, <1>2, <1>6 DEF H!SampledBad
  <2>2. /\ poller.at = "probing" /\ H!Sleeps /\ H!Insert(FALSE)
        /\ UNCHANGED <<kind, now, run, down, starts, fetched>>
    BY <1>6 DEF H!SampledBad
  <2>3. QED
    BY <2>1, <2>2, CycleEnds
<1>7. CASE H!SampleDropped
  <2>1. faults' \in faults..MaxFaults
    BY <1>1, <1>2, <1>7 DEF H!SampleDropped
  <2>2. /\ poller.at = "probing" /\ H!Sleeps
        /\ UNCHANGED <<kind, now, run, store, taken, down, starts, fetched>>
    BY <1>7 DEF H!SampleDropped
  <2>3. QED
    BY <2>1, <2>2, CycleEnds
<1>8. CASE H!Purge
  <2>1. /\ store' = {s \in store : s.ts >= now - KeepDays * Day}
        /\ UNCHANGED <<kind, now, poller, run, taken, down, starts, fetched, faults>>
    BY <1>8 DEF H!Purge
  <2>2. H!TypeOK'
    BY <1>1, <2>1 DEF H!TypeOK
  <2>3. StartsOK' /\ SamplesOK' /\ ProbeOK' /\ VerdictOK'
    BY <1>1, <2>1 DEF StartsOK, SamplesOK, ProbeOK, VerdictOK
  <2>4. KeptOK'
    BY <1>1, <2>1 DEF KeptOK
  <2>5. QED
    BY <2>2, <2>3, <2>4 DEF HealthInv
<1>9. CASE H!Stop
  <2>1. /\ poller # H!Down /\ faults < MaxFaults /\ faults' = faults + 1 /\ poller' = H!Down
        /\ UNCHANGED <<kind, now, run, store, taken, down, starts, fetched>>
    BY <1>9 DEF H!Stop
  <2>2. poller'.at = "down"
    BY <2>1 DEF H!Down
  <2>3. H!TypeOK'
    <3>1. faults' \in 0..MaxFaults /\ poller' \in {H!Down}
      BY <1>1, <2>1
    <3>2. QED
      BY <1>1, <2>1, <3>1 DEF H!TypeOK
  <2>4. StartsOK'
    <3>1. (run - 1) + 0 <= faults
      BY <1>1, <2>1 DEF StartsOK
    <3>2. (run - 1) + 1 <= faults'
      BY <1>1, <2>1, <3>1
    <3>3. QED
      BY <1>1, <2>1, <3>2 DEF StartsOK
  <2>5. SamplesOK' /\ ProbeOK' /\ KeptOK' /\ VerdictOK'
    BY <1>1, <2>1, <2>2 DEF SamplesOK, ProbeOK, KeptOK, VerdictOK
  <2>6. QED
    BY <2>3, <2>4, <2>5 DEF HealthInv
<1>10. CASE H!Start
  <2> DEFINE p == <<now, run + 1>>
  <2>1. /\ poller = H!Down /\ run' = run + 1 /\ starts' = starts \cup {p}
        /\ poller' = [at |-> "sleeping", until |-> now]
        /\ UNCHANGED <<kind, now, store, taken, down, fetched, faults>>
    BY <1>10 DEF H!Start
  <2>2. poller'.at = "sleeping" /\ poller'.until = now /\ poller' # H!Down
    BY <2>1 DEF H!Down
  <2>3. run <= faults
    BY <1>1, <2>1 DEF StartsOK
  <2>4. p[1] = now /\ p[2] = run + 1
    OBVIOUS
  <2>5. H!TypeOK'
    <3>1. poller' \in [at : {"sleeping"}, until : 0..MaxNow + Interval]
      BY <1>1, <2>1
    <3>2. run' \in 1..MaxFaults + 1 /\ p \in (0..MaxNow) \X (1..MaxFaults + 1)
      BY <1>1, <1>2, <2>1, <2>3
    <3>3. QED
      BY <1>1, <2>1, <3>1, <3>2 DEF H!TypeOK
  <2>6. \A q \in starts : q[1] <= now /\ q[2] <= run /\ q[1] \in Nat /\ q[2] \in Nat
    BY <1>1, HealthTypes DEF StartsOK
  <2>7. \A s \in taken : s.run <= run /\ s.run \in Nat /\ s.ts <= now
    BY <1>1, HealthTypes DEF SamplesOK
  <2> HIDE DEF p
  <2>8. StartsOK'
    <3>1. IsFiniteSet(starts')
      BY <1>1, <2>1, FS_AddElement DEF StartsOK
    <3>2. \A q, r \in starts' : q[2] <= r[2] => q[1] <= r[1]
      BY <1>1, <2>1, <2>4, <2>6 DEF StartsOK
    <3>3. \A q \in starts' : q[1] <= now /\ q[2] <= run + 1
      BY <1>1, <2>1, <2>4, <2>6
    <3>4. (run' - 1) + 0 <= faults
      BY <1>1, <2>1, <2>3
    <3>5. QED
      BY <2>1, <2>2, <3>1, <3>2, <3>3, <3>4 DEF StartsOK
  <2>9. SamplesOK'
    BY <1>1, <2>1, <2>4, <2>7 DEF SamplesOK
  <2>10. ProbeOK'
    BY <1>1, <2>1, <2>2, <2>4, <2>7 DEF ProbeOK
  <2>11. KeptOK' /\ VerdictOK'
    BY <1>1, <2>1 DEF KeptOK, VerdictOK
  <2>12. QED
    BY <2>5, <2>8, <2>9, <2>10, <2>11 DEF HealthInv
<1>11. CASE H!Tick
  <2>1. /\ now < MaxNow /\ now' = now + 1 /\ now' \in 0..MaxNow
        /\ poller.at = "sleeping" => now < poller.until
        /\ poller.at = "probing" => faults < MaxFaults
        /\ faults' = (IF poller.at = "probing" THEN faults + 1 ELSE faults)
        /\ down' = (IF poller = H!Down THEN down \cup {now} ELSE down)
        /\ UNCHANGED <<kind, poller, run, store, taken, starts, fetched>>
    BY <1>1, <1>11 DEF H!Tick
  <2>2. faults' \in 0..MaxFaults /\ faults <= faults'
    BY <1>1, <1>2, <2>1
  <2>3. H!TypeOK'
    <3>1. down' \subseteq 0..MaxNow
      BY <1>1, <2>1 DEF H!TypeOK
    <3>2. QED
      BY <1>1, <2>1, <2>2, <3>1 DEF H!TypeOK
  <2>4. StartsOK'
    <3>1. \A p \in starts : p[1] <= now + 1
      BY <1>1, HealthTypes DEF StartsOK
    <3>2. (run - 1) + (IF poller = H!Down THEN 1 ELSE 0) <= faults'
      <4>1. (IF poller = H!Down THEN 1 ELSE 0) \in Int
        OBVIOUS
      <4> DEFINE x == IF poller = H!Down THEN 1 ELSE 0
      <4>2. x \in Int /\ (run - 1) + x <= faults
        BY <1>1, <4>1 DEF StartsOK
      <4> HIDE DEF x
      <4>3. (run - 1) + x <= faults'
        BY <1>1, <2>2, <4>2
      <4>4. QED
        BY <4>3 DEF x
    <3>3. QED
      BY <1>1, <2>1, <3>1, <3>2 DEF StartsOK, H!Down
  <2>5. \A s \in taken : s.ts \in Nat /\ s.ts <= now
    BY <1>1, HealthTypes DEF SamplesOK
  <2>6. SamplesOK'
    <3>1. \A s \in taken : s.ts <= now + 1
      BY <1>1, <2>5
    <3>2. \A t \in down' : t \in down \/ t = now
      BY <2>1
    <3>3. \A s, q \in taken, t \in down' : s.run = q.run /\ s.ts <= t => q.ts <= t
      BY <1>1, <2>5, <3>2 DEF SamplesOK
    <3>4. QED
      BY <1>1, <2>1, <3>1, <3>3 DEF SamplesOK
  <2>7. ProbeOK'
    <3>1. \A t \in down' : t < now + 1
      BY <1>1, <2>1, HealthTypes DEF ProbeOK
    <3>2. poller.at = "probing" => poller.since <= now + 1
      BY <1>1, HealthTypes DEF ProbeOK
    <3>3. QED
      BY <1>1, <2>1, <3>1, <3>2 DEF ProbeOK
  <2>8. KeptOK'
    <3>1. KeepDays * Day \in Nat
      BY <1>1
    <3> DEFINE k == KeepDays * Day
    <3> HIDE DEF k
    <3>2. \A s \in taken : s.ts >= (now + 1) - k => s.ts >= now - k
      BY <1>1, <2>5, <3>1 DEF k
    <3>3. QED
      BY <1>1, <2>1, <3>2 DEF KeptOK, k
  <2>9. VerdictOK'
    BY <1>1, <2>1 DEF VerdictOK
  <2>10. QED
    BY <2>3, <2>4, <2>6, <2>7, <2>8, <2>9 DEF HealthInv
<1>12. QED
  BY <1>3, <1>4, <1>5, <1>6, <1>7, <1>8, <1>9, <1>10, <1>11 DEF H!Next

LEMMA HealthInvariant == H!Spec => []HealthInv
BY HealthInit, HealthStep, PTL DEF H!Spec

\* For any interval, retention, stops and faults, every sample and start is well typed.
THEOREM HealthTypesHold == H!Spec => []H!TypeOK
<1>1. HealthInv => H!TypeOK
  BY DEF HealthInv
<1>2. QED
  BY <1>1, HealthInvariant, PTL

\* Whatever is dropped, fails, stops or takes long, for any limit: alerts are called
\* operational only when a fetch begun within it brought a recent product.
THEOREM OperationalIsChecked == H!Spec => []OperationalWasChecked
<1>1. HealthInv => OperationalWasChecked
  <2> SUFFICES ASSUME HealthInv, kind = "verdict", H!PollLiveness = "operational"
               PROVE  fetched >= 0 /\ now - fetched <= MaxVerdictAge
    BY DEF OperationalWasChecked, H!OperationalWasChecked
  <2>1. PICK s \in H!Newest(store) : s.ok /\ now - s.ts <= MaxVerdictAge
    BY DEF H!PollLiveness
  <2>2. s \in taken
    BY DEF H!Newest, HealthInv, H!TypeOK
  <2>3. s.ts <= fetched
    BY <2>1, <2>2 DEF HealthInv, VerdictOK
  <2>4. s.ts \in Nat /\ fetched \in Int /\ now \in Nat /\ MaxVerdictAge \in Nat
    BY <2>2, HealthTypes, HealthNumbers DEF HealthInv
  <2>5. QED
    BY <2>1, <2>3, <2>4
<1>2. QED
  BY <1>1, HealthInvariant, PTL

-----------------------------------------------------------------------------
(* The report of uptime                                                      *)

\* A finite set of numbers that is not empty has a least one, and Min is it.
LEMMA LeastOf ==
  ASSUME NEW S \in SUBSET Int, IsFiniteSet(S), S # {}
  PROVE  H!Min(S) \in S /\ \A x \in S : H!Min(S) <= x
<1> DEFINE Upto(b) == {x \in S : x <= b}
           T == {Upto(b) : b \in S}
<1>1. T \subseteq FiniteSubsetsOf(S) /\ T # {}
  <2>1. \A b \in S : Upto(b) \subseteq S /\ IsFiniteSet(Upto(b))
    BY FS_Subset
  <2>2. \A B \in T : B \in FiniteSubsetsOf(S)
    BY <2>1, Zenon DEF FiniteSubsetsOf
  <2>3. \E b \in S : Upto(b) \in T
    OBVIOUS
  <2>4. QED
    BY <2>2, <2>3
<1>2. IsWellFoundedOn(StrictSubsetOrdering(S), FiniteSubsetsOf(S))
  BY FS_StrictSubsetOrderingWellFounded
<1> HIDE DEF T
<1>3. PICK A \in T : \A B \in T : ~(<<B, A>> \in StrictSubsetOrdering(S))
  BY <1>1, <1>2, WFMin
<1>4. PICK b \in S : A = Upto(b)
  BY DEF T
<1>5. \A y \in S : b <= y
  <2> SUFFICES ASSUME NEW y \in S, y < b PROVE FALSE
    OBVIOUS
  <2>5. \A x \in S : x <= y => x <= b
    OBVIOUS
  <2>6. b <= b
    OBVIOUS
  <2>1. Upto(y) \subseteq A /\ A \subseteq S /\ b \in A
    <3>1. Upto(y) \subseteq Upto(b)
      BY <2>5, Zenon
    <3>2. Upto(b) \subseteq S /\ b \in Upto(b)
      BY <2>6, Zenon
    <3>3. QED
      BY <1>4, <3>1, <3>2
  <2>2. b \notin Upto(y) /\ Upto(y) \in T
    BY DEF T
  <2>3. <<Upto(y), A>> \in StrictSubsetOrdering(S)
    BY <2>1, <2>2 DEF StrictSubsetOrdering
  <2>4. QED
    BY <1>3, <2>2, <2>3
<1>6. QED
  BY <1>5 DEF H!Min

LEMMA TwoNumbers ==
  ASSUME NEW a \in Int, NEW b \in Int
  PROVE  /\ H!Min({a, b}) = IF a <= b THEN a ELSE b
         /\ H!Max({a, b}) = IF a >= b THEN a ELSE b
BY DEF H!Min, H!Max

LEMMA HealthCardinality == \A S : H!Cardinality(S) = Cardinality(S)
BY DEF H!Cardinality, Cardinality

\* A day in terms of its first step of the clock.
LEMMA Division ==
  ASSUME NEW x \in Int, NEW m \in Int, m > 0
  PROVE  x \div m \in Int /\ x % m \in 0..m - 1 /\ x % m = x - m * (x \div m)
<1>1. x % m \in 0..m - 1 /\ x \div m \in Int
  OBVIOUS
<1>2. x % m = x - m * (x \div m)
  OBVIOUS
<1>3. QED
  BY <1>1, <1>2

LEMMA DayBounds ==
  ASSUME NEW t \in Nat
  PROVE  /\ H!DayOf(t) \in Nat
         /\ H!DayOf(t) * Day <= t /\ t < (H!DayOf(t) + 1) * Day
<1>1. Day \in Int /\ Day > 0
  BY HealthNumbers
<1>2. PICK q \in Int, i \in 0..Day - 1 : q = t \div Day /\ i = t - Day * q
  BY <1>1, Division
<1>3. Day * q \in Int /\ Day * q <= t /\ t < Day * q + Day
  BY <1>1, <1>2
<1>4. q >= 0
  <2> SUFFICES ASSUME 0 - q - 1 >= 0 PROVE FALSE
    BY <1>2
  <2>1. Day * (0 - q - 1) >= 0
    BY <1>1, <1>2
  <2>2. Day * (0 - q - 1) = 0 - Day * q - Day
    BY <1>1, <1>2
  <2>3. QED
    BY <1>1, <1>3, <2>1, <2>2
<1>5. q * Day = Day * q /\ (q + 1) * Day = Day * q + Day
  BY <1>1, <1>2
<1>6. QED
  BY <1>2, <1>3, <1>4, <1>5 DEF H!DayOf

\* When a set of samples begins.
LEMMA FirstSample ==
  ASSUME HealthInv, NEW S \in SUBSET taken, S # {}
  PROVE  H!FirstOf(S) \in Nat /\ \A s \in S : H!FirstOf(S) <= s.ts
<1> DEFINE T == {s.ts : s \in S}
<1>1. T \subseteq 0..MaxNow /\ T # {}
  BY DEF HealthInv, H!TypeOK, H!Samples
<1>2. T \in SUBSET Nat /\ T \in SUBSET Int /\ IsFiniteSet(T)
  <2>1. IsFiniteSet(0..MaxNow)
    BY FS_Interval, HealthNumbers
  <2>2. QED
    BY <1>1, <2>1, FS_Subset, HealthNumbers
<1> HIDE DEF T
<1>3. H!Min(T) \in T /\ \A x \in T : H!Min(T) <= x
  BY <1>1, <1>2, LeastOf
<1>4. H!FirstOf(S) = H!Min(T)
  BY DEF H!FirstOf, T
<1>5. \A s \in S : s.ts \in T
  BY DEF T
<1>6. QED
  BY <1>2, <1>3, <1>4, <1>5

\* The report begins within the last Window days of steps, which the retention keeps.
LEMMA ReportEdge ==
  ASSUME HealthInv
  PROVE  LET edge == H!Min(H!Days) * Day
         IN /\ edge \in Nat /\ edge > now - Window * Day
            /\ \A d \in H!Days : d \in Nat /\ edge <= d * Day
            /\ Window * Day \in Nat /\ KeepDays * Day \in Nat /\ Window * Day <= KeepDays * Day
<1> DEFINE n == H!DayOf(now)
           e == H!Min(H!Days)
<1>1. /\ Day \in Nat /\ Day > 0 /\ Window \in Nat /\ Window > 0 /\ KeepDays \in Nat /\ Window < KeepDays
      /\ now \in Nat /\ n \in Nat /\ now < (n + 1) * Day
  BY HealthNumbers, HealthTypes, DayBounds DEF HealthInv
<1>2. H!Days = {d \in 0..n : d > n - Window}
  BY DEF H!Days
<1> HIDE DEF n
<1>3. H!Days \in SUBSET Int /\ IsFiniteSet(H!Days) /\ n \in H!Days
  <2>1. IsFiniteSet(0..n)
    BY <1>1, FS_Interval
  <2>2. H!Days \subseteq 0..n /\ n \in H!Days
    BY <1>1, <1>2
  <2>3. H!Days \subseteq Int
    BY <1>1, <2>2
  <2>4. IsFiniteSet(H!Days)
    BY <2>1, <2>2, FS_Subset
  <2>5. QED
    BY <2>2, <2>3, <2>4
<1>4. e \in H!Days /\ \A d \in H!Days : e <= d
  BY <1>3, LeastOf
<1> HIDE DEF e
<1>5. e \in Nat /\ e >= 0 /\ n + 1 <= e + Window
  BY <1>1, <1>2, <1>4
<1>6. e * Day \in Nat /\ Window * Day \in Nat /\ KeepDays * Day \in Nat /\ (n + 1) * Day \in Nat
  BY <1>1, <1>5
<1>7. (n + 1) * Day <= (e + Window) * Day
  BY <1>1, <1>5
<1>8. (e + Window) * Day = e * Day + Window * Day
  BY <1>1, <1>5
<1>9. Window * Day <= KeepDays * Day
  BY <1>1
<1>10. \A d \in H!Days : d \in Nat /\ e * Day <= d * Day
  BY <1>1, <1>2, <1>4, <1>5
<1>11. e * Day > now - Window * Day
  BY <1>1, <1>6, <1>7, <1>8
<1>12. QED
  BY <1>6, <1>9, <1>10, <1>11 DEF e

\* What the retention removed is not in a day that is shown.
LEMMA PresentStands ==
  ASSUME HealthInv, NEW d
  PROVE  H!Present(store, d) = H!Present(taken, d)
<1>1. \A s \in taken : s.ts >= now - Window * Day => s \in store
  <2> SUFFICES ASSUME NEW s \in taken, s.ts >= now - Window * Day PROVE s \in store
    OBVIOUS
  <2>1. /\ Window * Day \in Nat /\ KeepDays * Day \in Nat /\ Window * Day <= KeepDays * Day
        /\ s.ts \in Nat /\ now \in Nat
    BY ReportEdge, HealthTypes DEF HealthInv
  <2>2. s.ts >= now - KeepDays * Day
    BY <2>1
  <2>3. QED
    BY <2>2 DEF HealthInv, KeptOK
<1>2. store \subseteq taken
  BY DEF HealthInv, H!TypeOK
<1>3. QED
  BY <1>1, <1>2 DEF H!Present

\* For any retention longer than the report, any interval and any outages: what was
\* removed changes no day that is shown.
THEOREM PastDaysDoStand == H!Spec => []PastDaysStand
<1>1. HealthInv => PastDaysStand
  <2> DEFINE edge == H!Min(H!Days) * Day
  <2> SUFFICES ASSUME HealthInv, NEW d \in H!Days,
                      \/ \E s \in taken : s.ts >= now - KeepDays * Day /\ s.ts <= edge
                      \/ \A s \in taken : s.ts > edge
               PROVE  H!Status(store, d) = H!Status(taken, d)
    BY DEF PastDaysStand, H!PastDaysStand
  <2>1. /\ edge \in Nat /\ edge > now - Window * Day /\ d \in Nat /\ edge <= d * Day
        /\ Window * Day \in Nat /\ KeepDays * Day \in Nat /\ Window * Day <= KeepDays * Day
    BY ReportEdge
  <2> HIDE DEF edge
  <2>2. store \subseteq taken /\ now \in Nat /\ \A s \in taken : s.ts \in Nat
    BY HealthTypes DEF HealthInv, H!TypeOK
  <2>3. CASE \A s \in taken : s.ts > edge
    <3>1. \A s \in taken : s.ts >= now - KeepDays * Day
      BY <2>1, <2>2, <2>3
    <3>2. store = taken
      BY <2>2, <3>1 DEF HealthInv, KeptOK
    <3>3. QED
      BY <3>2
  <2>4. ASSUME NEW s \in taken, s.ts >= now - KeepDays * Day, s.ts <= edge
        PROVE  H!Status(store, d) = H!Status(taken, d)
    <3>1. s \in store
      BY <2>4 DEF HealthInv, KeptOK
    <3>2. ASSUME NEW S \in SUBSET taken, s \in S PROVE H!Max({d * Day, H!FirstOf(S)}) = d * Day
      <4>1. H!FirstOf(S) \in Nat /\ H!FirstOf(S) <= s.ts
        BY <3>2, FirstSample
      <4>2. d * Day \in Int
        BY <2>1, HealthNumbers
      <4>3. d * Day >= H!FirstOf(S)
        BY <2>1, <2>2, <2>4, <4>1, <4>2
      <4> DEFINE a == d * Day
                 b == H!FirstOf(S)
      <4>4. a \in Int /\ b \in Int /\ a >= b
        BY <4>1, <4>2, <4>3
      <4> HIDE DEF a, b
      <4>5. H!Max({a, b}) = a
        BY <4>4, TwoNumbers
      <4>6. QED
        BY <4>5 DEF a, b
    <3>3. H!SamplesDue(store, d) = H!SamplesDue(taken, d)
      BY <2>2, <3>1, <3>2 DEF H!SamplesDue
    <3>4. H!Due(store, d) = H!Due(taken, d)
      BY <3>1, <3>3 DEF H!Due
    <3>5. H!Operational(store, d) = H!Operational(taken, d)
      BY PresentStands DEF H!Operational
    <3>6. QED
      BY <3>4, <3>5 DEF H!Status
  <2>5. QED
    BY <2>3, <2>4
<1>2. QED
  BY <1>1, HealthInvariant, PTL

-----------------------------------------------------------------------------
(* How many samples a day has                                                *)

StartedOn(d)  == {p \in starts : H!DayOf(p[1]) = d}
SampledOn(d)  == {s \in taken : H!DayOf(s.ts) = d}
RunsOn(d)     == {s.run : s \in SampledOn(d)}
UpOn(d)       == {t \in d * Day..((d + 1) * Day - 1) : t \notin down}

LEMMA OnTheDay ==
  ASSUME NEW d \in Nat, NEW t \in Nat
  PROVE  H!DayOf(t) = d <=> d * Day <= t /\ t < (d + 1) * Day
<1>1. Day \in Int /\ Day > 0
  BY HealthNumbers
<1>2. PICK q \in Nat : q = H!DayOf(t) /\ q * Day <= t /\ t < (q + 1) * Day
  BY DayBounds
<1>3. ASSUME d * Day <= t, t < (d + 1) * Day PROVE q = d
  <2>1. d * Day \in Int /\ (d + 1) * Day \in Int /\ q * Day \in Int /\ (q + 1) * Day \in Int
    BY <1>1
  <2>2. d * Day < (q + 1) * Day /\ q * Day < (d + 1) * Day
    BY <1>2, <1>3, <2>1
  <2>3. ~(d >= q + 1)
    <3> SUFFICES ASSUME d >= q + 1 PROVE FALSE
      OBVIOUS
    <3>1. d * Day >= (q + 1) * Day
      BY <1>1
    <3>2. QED
      BY <2>1, <2>2, <3>1
  <2>4. ~(q >= d + 1)
    <3> SUFFICES ASSUME q >= d + 1 PROVE FALSE
      OBVIOUS
    <3>1. q * Day >= (d + 1) * Day
      BY <1>1
    <3>2. QED
      BY <2>1, <2>2, <3>1
  <2>5. QED
    BY <2>3, <2>4
<1>4. QED
  BY <1>2, <1>3

\* All runs a day has samples of, but the first, began on that day.
LEMMA RunsOfADay ==
  ASSUME HealthInv, NEW d \in Nat
  PROVE  /\ IsFiniteSet(RunsOn(d)) /\ IsFiniteSet(StartedOn(d))
         /\ Cardinality(RunsOn(d)) <= 1 + Cardinality(StartedOn(d))
<1> DEFINE P == StartedOn(d)
           none == <<0, 0>>
           R == RunsOn(d)
           f == [r \in R |-> IF \E p \in P : p[2] = r THEN CHOOSE p \in P : p[2] = r ELSE none]
<1>1. IsFiniteSet(P)
  BY FS_Subset DEF HealthInv, StartsOK, StartedOn
<1>2. \A p \in P : p \in starts /\ p[1] \in Nat /\ p[2] \in Nat \ {0} /\ H!DayOf(p[1]) = d
  BY HealthTypes DEF HealthInv, StartedOn
<1>3. none \notin P /\ none[2] = 0
  BY <1>2
<1>4. IsFiniteSet(P \cup {none}) /\ Cardinality(P \cup {none}) = Cardinality(P) + 1
  BY <1>1, <1>3, FS_AddElement
<1>5. ASSUME NEW r \in R, NEW q \in R, r < q PROVE \E p \in P : p[2] = q
  <2>1. PICK s \in taken : s.run = r /\ H!DayOf(s.ts) = d
    BY DEF RunsOn, SampledOn
  <2>2. PICK u \in taken : u.run = q /\ H!DayOf(u.ts) = d
    BY DEF RunsOn, SampledOn
  <2>3. PICK p \in starts : p[2] = q /\ p[1] <= u.ts
    BY <2>2 DEF HealthInv, SamplesOK
  <2>4. s.ts <= p[1]
    BY <1>5, <2>1, <2>3 DEF HealthInv, SamplesOK
  <2>5. s.ts \in Nat /\ u.ts \in Nat /\ p[1] \in Nat
    BY HealthTypes DEF HealthInv
  <2>6. d * Day <= s.ts /\ u.ts < (d + 1) * Day /\ d * Day \in Int /\ (d + 1) * Day \in Int
    BY <2>1, <2>2, <2>5, OnTheDay, HealthNumbers
  <2>7. d * Day <= p[1] /\ p[1] < (d + 1) * Day
    BY <2>3, <2>4, <2>5, <2>6
  <2>8. H!DayOf(p[1]) = d
    BY <2>5, <2>7, OnTheDay
  <2>9. QED
    BY <2>3, <2>8 DEF StartedOn
<1>6. R \subseteq Nat \ {0}
  <2> SUFFICES ASSUME NEW s \in taken PROVE s.run \in Nat \ {0}
    BY DEF RunsOn, SampledOn
  <2>1. PICK p \in starts : p[2] = s.run
    BY DEF HealthInv, SamplesOK
  <2>2. QED
    BY <2>1, HealthTypes DEF HealthInv
<1> HIDE DEF P, R, none
<1>7. \A r \in R : IF \E p \in P : p[2] = r THEN f[r] \in P /\ f[r][2] = r ELSE f[r] = none
  OBVIOUS
<1>8. f \in [R -> P \cup {none}]
  BY <1>7
<1>9. \A r, q \in R : f[r] = f[q] => r = q
  <2> SUFFICES ASSUME NEW r \in R, NEW q \in R, f[r] = f[q], r < q PROVE FALSE
    BY <1>6
  <2>1. f[q] \in P /\ f[q][2] = q
    BY <1>5, <1>7
  <2>2. f[r] \in P
    BY <1>3, <1>7, <2>1
  <2>3. f[r][2] = r
    BY <1>3, <1>7, <2>2
  <2>4. QED
    BY <1>6, <2>1, <2>3
<1> HIDE DEF f
<1>10. f \in Injection(R, P \cup {none})
  BY <1>8, <1>9 DEF Injection, IsInjective
<1>11. IsFiniteSet(R) /\ Cardinality(R) <= Cardinality(P \cup {none})
  BY <1>4, <1>10, FS_Injection
<1>12. Cardinality(P) + 1 = 1 + Cardinality(P)
  BY <1>1, FS_CardinalityType
<1>13. QED
  BY <1>1, <1>4, <1>11, <1>12 DEF P, R

\* Each sample but the last of its run on that day begins an interval the process ran
\* through, and no two such intervals overlap.
LEMMA SamplesOfADay ==
  ASSUME HealthInv, NEW d \in Nat
  PROVE  /\ IsFiniteSet(SampledOn(d)) /\ IsFiniteSet(UpOn(d))
         /\ Cardinality(SampledOn(d)) * Interval
              <= Cardinality(UpOn(d)) + Cardinality(RunsOn(d)) * Interval
<1> DEFINE P == SampledOn(d)
           J == 0..Interval - 1
           U == UpOn(d)
           R == RunsOn(d)
           Last(s) == \A q \in P : q.run = s.run => q.ts <= s.ts
           f == [x \in P \X J |-> IF Last(x[1]) THEN <<x[1].run, x[2]>> ELSE <<0, x[1].ts + x[2]>>]
           T == ({0} \X U) \cup (R \X J)
<1>1. Interval \in Nat \ {0} /\ Day \in Nat /\ d * Day \in Int /\ (d + 1) * Day \in Int
  BY HealthNumbers
<1>2. \A s \in P : /\ s \in taken /\ s.ts \in Nat /\ s.run \in Nat \ {0} /\ s.run \in R
                   /\ d * Day <= s.ts /\ s.ts < (d + 1) * Day
  <2> SUFFICES ASSUME NEW s \in P
               PROVE  /\ s \in taken /\ s.ts \in Nat /\ s.run \in Nat \ {0} /\ s.run \in R
                      /\ d * Day <= s.ts /\ s.ts < (d + 1) * Day
    OBVIOUS
  <2>1. s \in taken /\ H!DayOf(s.ts) = d /\ s.run \in R
    BY DEF SampledOn, RunsOn
  <2>2. s.ts \in Nat
    BY <2>1, HealthTypes DEF HealthInv
  <2>3. PICK p \in starts : p[2] = s.run
    BY <2>1 DEF HealthInv, SamplesOK
  <2>4. s.run \in Nat \ {0}
    BY <2>3, HealthTypes DEF HealthInv
  <2>5. d * Day <= s.ts /\ s.ts < (d + 1) * Day
    BY <2>1, <2>2, OnTheDay
  <2>6. QED
    BY <2>1, <2>2, <2>4, <2>5
<1>3. IsFiniteSet(P)
  BY FS_Subset DEF HealthInv, SamplesOK, SampledOn
<1>4. IsFiniteSet(U) /\ U = {t \in d * Day..((d + 1) * Day - 1) : t \notin down}
  <2>1. IsFiniteSet(d * Day..((d + 1) * Day - 1))
    BY <1>1, FS_Interval
  <2>2. QED
    BY <2>1, FS_Subset DEF UpOn
<1>5. IsFiniteSet(J) /\ Cardinality(J) = Interval
  BY <1>1, FS_Interval
<1>6. IsFiniteSet(R)
  BY RunsOfADay
<1> HIDE DEF P, U, R
\* The sample after one that is not the last of its run.
<1>7. ASSUME NEW s \in P, ~Last(s)
      PROVE  \E q \in P : q.run = s.run /\ s.ts + Interval <= q.ts
  <2>1. PICK q \in P : q.run = s.run /\ ~(q.ts <= s.ts)
    BY <1>7
  <2>2. q # s /\ q \in taken /\ s \in taken /\ q.ts \in Nat /\ s.ts \in Nat
    BY <1>2, <2>1
  <2>3. s.ts + Interval <= q.ts \/ q.ts + Interval <= s.ts
    BY <2>1, <2>2 DEF HealthInv, SamplesOK
  <2>4. QED
    BY <1>1, <2>1, <2>2, <2>3
<1>8. ASSUME NEW s \in P, ~Last(s), NEW j \in J PROVE s.ts + j \in U
  <2>1. PICK q \in P : q.run = s.run /\ s.ts + Interval <= q.ts
    BY <1>7, <1>8
  <2>2. /\ s \in taken /\ q \in taken /\ s.ts \in Nat /\ q.ts \in Nat
        /\ d * Day <= s.ts /\ q.ts < (d + 1) * Day
    BY <1>2
  <2>3. s.ts + j \in d * Day..((d + 1) * Day - 1) /\ s.ts <= s.ts + j /\ ~(q.ts <= s.ts + j)
    BY <1>1, <2>1, <2>2
  <2>4. s.ts + j \notin down
    BY <2>1, <2>2, <2>3 DEF HealthInv, SamplesOK
  <2>5. QED
    BY <1>4, <2>3, <2>4
<1>9. ASSUME NEW s \in P, NEW q \in P, NEW i \in J, NEW j \in J, ~Last(s), ~Last(q),
             s.ts + i = q.ts + j
      PROVE  s = q /\ i = j
  <2>1. /\ s \in taken /\ q \in taken /\ s.ts \in Nat /\ q.ts \in Nat
        /\ s.run \in Nat /\ q.run \in Nat
    BY <1>2
  <2>2. ASSUME NEW a \in P, NEW b \in P, ~Last(a), a.run < b.run PROVE a.ts + Interval <= b.ts
    <3>1. PICK c \in P : c.run = a.run /\ a.ts + Interval <= c.ts
      BY <1>7, <2>2
    <3>2. PICK p \in starts : p[2] = b.run /\ p[1] <= b.ts
      BY <1>2 DEF HealthInv, SamplesOK
    <3>3. c.ts <= p[1]
      BY <1>2, <2>2, <3>1, <3>2 DEF HealthInv, SamplesOK
    <3>4. a.ts \in Nat /\ b.ts \in Nat /\ c.ts \in Nat /\ p[1] \in Nat
      BY <1>2, HealthTypes DEF HealthInv
    <3>5. QED
      BY <1>1, <3>1, <3>2, <3>3, <3>4
  <2>3. ~(s.run < q.run) /\ ~(q.run < s.run)
    BY <1>1, <1>9, <2>1, <2>2
  <2>4. s.run = q.run
    BY <2>1, <2>3
  <2>5. s = q
    <3> SUFFICES ASSUME s # q PROVE FALSE
      OBVIOUS
    <3>1. s.ts + Interval <= q.ts \/ q.ts + Interval <= s.ts
      BY <2>1, <2>4 DEF HealthInv, SamplesOK
    <3>2. QED
      BY <1>1, <1>9, <2>1, <3>1
  <2>6. QED
    BY <1>1, <1>9, <2>1, <2>5
<1>10. ASSUME NEW s \in P, NEW q \in P, Last(s), Last(q), s.run = q.run PROVE s = q
  <2>1. s \in taken /\ q \in taken /\ s.ts \in Nat /\ q.ts \in Nat /\ s.ts <= q.ts /\ q.ts <= s.ts
    BY <1>2, <1>10
  <2>2. QED
    BY <1>1, <1>10, <2>1 DEF HealthInv, SamplesOK
<1> HIDE DEF Last, J
<1>11. \A x \in P \X J : /\ x = <<x[1], x[2]>> /\ x[1] \in P /\ x[2] \in J
                         /\ Last(x[1]) => f[x] = <<x[1].run, x[2]>>
                         /\ ~Last(x[1]) => f[x] = <<0, x[1].ts + x[2]>>
  OBVIOUS
<1>12. f \in [P \X J -> T]
  <2> SUFFICES ASSUME NEW x \in P \X J PROVE f[x] \in T
    OBVIOUS
  <2>1. x[1] \in P /\ x[2] \in J
    BY <1>11
  <2>2. CASE Last(x[1])
    BY <1>2, <1>11, <2>1, <2>2
  <2>3. CASE ~Last(x[1])
    BY <1>8, <1>11, <2>1, <2>3
  <2>4. QED
    BY <2>2, <2>3
<1> HIDE DEF f
<1>13. \A x, y \in P \X J : f[x] = f[y] => x = y
  <2> SUFFICES ASSUME NEW x \in P \X J, NEW y \in P \X J, f[x] = f[y] PROVE x = y
    OBVIOUS
  <2>1. x[1] \in P /\ x[2] \in J /\ y[1] \in P /\ y[2] \in J
    BY <1>11
  <2>2. CASE Last(x[1]) /\ Last(y[1])
    <3>1. x[1].run = y[1].run /\ x[2] = y[2]
      BY <1>11, <2>2
    <3>2. QED
      BY <1>10, <1>11, <2>1, <2>2, <3>1
  <2>3. CASE ~Last(x[1]) /\ ~Last(y[1])
    <3>1. x[1].ts + x[2] = y[1].ts + y[2]
      BY <1>11, <2>3
    <3>2. QED
      BY <1>9, <1>11, <2>1, <2>3, <3>1
  <2>4. CASE Last(x[1]) <=> ~Last(y[1])
    <3>1. x[1].run # 0 /\ y[1].run # 0
      BY <1>2, <2>1
    <3>2. QED
      BY <1>11, <2>4, <3>1
  <2>5. QED
    BY <2>2, <2>3, <2>4
<1>14. IsFiniteSet({0} \X U) /\ Cardinality({0} \X U) = Cardinality(U)
  <2>1. IsFiniteSet({0}) /\ Cardinality({0}) = 1
    BY FS_Singleton
  <2>2. IsFiniteSet({0} \X U) /\ Cardinality({0} \X U) = 1 * Cardinality(U)
    BY <1>4, <2>1, FS_Product
  <2>3. Cardinality(U) \in Nat
    BY <1>4, FS_CardinalityType
  <2>4. QED
    BY <2>2, <2>3
<1>15. IsFiniteSet(R \X J) /\ Cardinality(R \X J) = Cardinality(R) * Interval
  BY <1>5, <1>6, FS_Product
<1>16. IsFiniteSet(P \X J) /\ Cardinality(P \X J) = Cardinality(P) * Interval
  BY <1>3, <1>5, FS_Product
<1>17. IsFiniteSet(T) /\ Cardinality(T) <= Cardinality(U) + Cardinality(R) * Interval
  <2> DEFINE A == {0} \X U
             B == R \X J
  <2>1. IsFiniteSet(A) /\ IsFiniteSet(B)
    BY <1>14, <1>15
  <2> HIDE DEF A, B
  <2>2. IsFiniteSet(A \cup B) /\ Cardinality(A \cup B) = Cardinality(A) + Cardinality(B) - Cardinality(A \cap B)
    BY <2>1, FS_Union
  <2>3. IsFiniteSet(A \cap B)
    BY <2>1, FS_Intersection
  <2>4. Cardinality(A) \in Nat /\ Cardinality(B) \in Nat /\ Cardinality(A \cap B) \in Nat
    BY <2>1, <2>3, FS_CardinalityType
  <2>5. Cardinality(A \cup B) <= Cardinality(A) + Cardinality(B)
    BY <2>2, <2>4
  <2>6. QED
    BY <1>14, <1>15, <2>2, <2>5 DEF A, B
<1> HIDE DEF T
<1>18. f \in Injection(P \X J, T)
  BY <1>12, <1>13 DEF Injection, IsInjective
<1>19. Cardinality(P \X J) <= Cardinality(T)
  BY <1>17, <1>18, FS_Injection
<1>20. /\ Cardinality(T) \in Nat /\ Cardinality(U) \in Nat /\ Cardinality(R) * Interval \in Nat
       /\ Cardinality(P) * Interval \in Nat
  BY <1>1, <1>3, <1>4, <1>6, <1>17, FS_CardinalityType
<1>21. Cardinality(P) * Interval <= Cardinality(U) + Cardinality(R) * Interval
  BY <1>16, <1>17, <1>19, <1>20
<1>22. QED
  BY <1>3, <1>4, <1>21 DEF P, U, R

LEMMA ClockOfADay ==
  ASSUME HealthInv, NEW d \in H!Days \ {H!DayOf(now)}, NEW S \in SUBSET taken, S # {}
  PROVE  d \in Nat /\ H!SamplesDue(S, d) \in Int
<1>1. d \in Nat /\ now \in Nat /\ H!FirstOf(S) \in Nat
  BY FirstSample, HealthTypes, ReportEdge DEF HealthInv
<1>2. Interval \in Int /\ Interval > 0 /\ d * Day \in Int /\ (d + 1) * Day \in Int
  BY <1>1, HealthNumbers
<1> DEFINE from == H!Max({d * Day, H!FirstOf(S)})
           to == H!Min({(d + 1) * Day, now})
<1>3. from \in Int /\ to \in Int
  <2>1. \A a, b \in Int : H!Min({a, b}) \in Int /\ H!Max({a, b}) \in Int
    BY TwoNumbers
  <2>2. d * Day \in Int /\ (d + 1) * Day \in Int /\ now \in Int /\ H!FirstOf(S) \in Int
    BY <1>1, <1>2
  <2>3. QED
    BY <2>1, <2>2, Zenon
<1>4. H!SamplesDue(S, d) = IF to <= from THEN 0 ELSE (to - from) \div Interval
  BY DEF H!SamplesDue
<1> HIDE DEF from, to
<1>5. to - from \in Int
  BY <1>3
<1>6. (to - from) \div Interval \in Int
  BY <1>2, <1>5, Division
<1>7. QED
  BY <1>1, <1>4, <1>6

\* For any interval, day, report and number of stops and starts: an outage of a past day
\* that is shown as operational is no longer than the hundredth part the status allows, an
\* interval, and one more for each start that day.
THEOREM DowntimeIsSeen == H!Spec => []DowntimeShows
<1>1. HealthInv => DowntimeShows
  <2> SUFFICES ASSUME HealthInv, NEW d \in H!Days \ {H!DayOf(now)},
                      H!Status(store, d) = "operational"
               PROVE  99 * (H!SamplesDue(store, d) * Interval)
                        <= 100 * (H!Up(d) + Interval * (1 + H!Starts(d)))
    BY DEF DowntimeShows, H!DowntimeShows
  <2> DEFINE due == H!Due(store, d)
             ok == H!Operational(store, d)
             n == Cardinality(SampledOn(d))
             u == Cardinality(UpOn(d))
             r == Cardinality(RunsOn(d))
             b == Cardinality(StartedOn(d))
  <2>1. due # 0 /\ 100 * ok >= 99 * due
    BY DEF H!Status
  <2>2. store # {} /\ due = H!SamplesDue(store, d) /\ store \in SUBSET taken
    BY <2>1 DEF H!Due, HealthInv, H!TypeOK
  <2>3. d \in Nat /\ due \in Int
    BY <2>2, ClockOfADay
  <2>4. H!Up(d) = u /\ H!Starts(d) = b
    BY HealthCardinality DEF H!Up, H!Starts, UpOn, StartedOn
  <2>5. /\ IsFiniteSet(SampledOn(d)) /\ IsFiniteSet(UpOn(d)) /\ IsFiniteSet(RunsOn(d))
        /\ IsFiniteSet(StartedOn(d)) /\ n * Interval <= u + r * Interval /\ r <= 1 + b
    BY <2>3, SamplesOfADay, RunsOfADay
  <2>6. ok \in Nat /\ ok <= n
    <3> DEFINE K == {s \in H!Present(store, d) : kind = "liveness" \/ s.ok}
    <3>1. K \subseteq SampledOn(d)
      BY <2>2 DEF H!Present, SampledOn
    <3>2. IsFiniteSet(K) /\ Cardinality(K) <= n
      BY <2>5, <3>1, FS_Subset
    <3>3. ok = Cardinality(K)
      BY HealthCardinality DEF H!Operational
    <3>4. QED
      BY <3>2, <3>3, FS_CardinalityType
  <2>7. n \in Nat /\ u \in Nat /\ r \in Nat /\ b \in Nat /\ Interval \in Nat
    BY <2>5, FS_CardinalityType, HealthNumbers
  <2> HIDE DEF due, ok, n, u, r, b
  <2>8. 99 * due <= 100 * n
    BY <2>1, <2>3, <2>6, <2>7
  <2>9. 99 * (due * Interval) <= 100 * (n * Interval)
    <3>1. (99 * due) * Interval <= (100 * n) * Interval
      BY <2>3, <2>7, <2>8
    <3>2. (99 * due) * Interval = 99 * (due * Interval) /\ (100 * n) * Interval = 100 * (n * Interval)
      BY <2>3, <2>7
    <3>3. QED
      BY <3>1, <3>2
  <2>10. r * Interval <= Interval * (1 + b)
    <3>1. r * Interval <= (1 + b) * Interval
      BY <2>5, <2>7
    <3>2. (1 + b) * Interval = Interval * (1 + b)
      BY <2>7
    <3>3. QED
      BY <3>1, <3>2
  <2>11. n * Interval <= u + Interval * (1 + b)
    <3>1. r * Interval \in Int /\ Interval * (1 + b) \in Int /\ n * Interval \in Int
      BY <2>7
    <3>2. QED
      BY <2>5, <2>7, <2>10, <3>1
  <2>12. 100 * (n * Interval) <= 100 * (u + Interval * (1 + b))
    <3>1. n * Interval \in Int /\ u + Interval * (1 + b) \in Int
      BY <2>7
    <3>2. QED
      BY <2>11, <3>1
  <2>13. 99 * (due * Interval) <= 100 * (u + Interval * (1 + b))
    <3>1. n * Interval \in Int /\ u + Interval * (1 + b) \in Int /\ due * Interval \in Int
      BY <2>3, <2>7
    <3>2. QED
      BY <2>9, <2>12, <3>1
  <2>14. QED
    BY <2>2, <2>4, <2>13
<1>2. QED
  BY <1>1, HealthInvariant, PTL

-----------------------------------------------------------------------------
\* Each behaviour of the run that takes the two together is one of either.
THEOREM PollingIsBoth == MCSpec => Spec /\ H!Spec
<1>1. MCInit => Init /\ H!Init
  BY DEF MCInit
<1>2. [MCNext]_allVars => [Next]_vars /\ [H!Next]_(H!vars)
  <2>1. UNCHANGED allVars => UNCHANGED vars /\ UNCHANGED H!vars
    BY DEF allVars, loop, health, vars, H!vars
  <2>2. MCNext => [Next]_vars /\ [H!Next]_(H!vars)
    BY DEF MCNext, loop, health, vars, H!vars
  <2>3. QED
    BY <2>1, <2>2
<1>3. QED
  BY <1>1, <1>2, PTL DEF MCSpec, Spec, H!Spec
=============================================================================
