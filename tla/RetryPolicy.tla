----------------------------- MODULE RetryPolicy -----------------------------
(***************************************************************************)
(* One polling loop of poller.rs and the retry policy it runs every fetch  *)
(* under (retry.rs): poll, sleep one interval, poll again.                 *)
(*                                                                         *)
(* Time is counted in ticks of a quarter of a second, the first backoff.   *)
(* The clock of the model moves only while something waits for it, so an   *)
(* answer takes any number of ticks up to the timeout of the attempt.      *)
(***************************************************************************)
EXTENDS Integers

CONSTANTS
  Intervals,     \* poll intervals, in seconds
  HttpTimeouts,  \* HTTP_TIMEOUT, in seconds
  RetryCounts,   \* RETRY_COUNT as set in the environment
  Sources        \* "feed": a fetcher; "forecast": the prediction call

ASSUME RetryPolicyAssumption ==
  /\ Intervals \subseteq Nat /\ HttpTimeouts \subseteq Nat /\ RetryCounts \subseteq Nat
  /\ Sources \subseteq {"feed", "forecast"}

VARIABLES
  source,   \* which loop this is
  policy,   \* its Policy
  phase,    \* what the loop waits for: an answer, a backoff, the next poll
  attempt,  \* the attempt under way
  elapsed,  \* ticks since the poll began
  inPhase,  \* ticks since the phase began
  failure   \* what the latest attempt of this poll failed with, if it did

vars == <<source, policy, phase, attempt, elapsed, inPhase, failure>>

-----------------------------------------------------------------------------
Secs(s) == 4 * s
AtLeast(a, b) == IF a >= b THEN a ELSE b
AtMost(a, b) == IF a <= b THEN a ELSE b

MinAttemptTimeout == Secs(2)
Backoff(n) == 2^(n - 1)

\* RETRY_COUNT is clamped to 1..5; 0 means off, which is one attempt.
Clamped(n) == AtMost(AtLeast(n, 1), 5)

NewPolicy(count, interval, http) ==
  LET budget == Secs(AtLeast(interval, 1))
  IN [attempts |-> Clamped(count), budget |-> budget,
      attemptTimeout |-> AtMost(Secs(AtLeast(http, 1)), AtLeast(budget, MinAttemptTimeout))]

\* How a call can fail: the payload does not decode, cut short by a timeout or
\* not; the request never landed (connect, timeout, request); or the answer
\* carries an error status.
Failure == [decode: {TRUE}, transport: BOOLEAN, status: {0}]
             \cup [decode: {FALSE}, transport: {TRUE}, status: {0}]
             \cup [decode: {FALSE}, transport: {FALSE}, status: {404, 429, 500, 501, 503}]

NoFailure == [decode |-> FALSE, transport |-> FALSE, status |-> 0]
Timeout   == [decode |-> FALSE, transport |-> TRUE, status |-> 0]

Classes == {"transient", "ratelimited", "permanent"}

\* A decode failure is looked at first: the request plainly landed.
Class(f) ==
  IF f.decode THEN "permanent"
  ELSE IF f.transport \/ f.status \in 500..599 \ {501} THEN "transient"
  ELSE IF f.status = 429 THEN "ratelimited" ELSE "permanent"

\* The prediction call hands an answer to the retry loop before its status is
\* looked at and its body decoded: to the loop, it failed only if it never landed.
SeenAsFailure(f) == source = "feed" \/ (f.transport /\ ~f.decode)

PhaseLimit == CASE phase = "call"    -> policy.attemptTimeout
                [] phase = "backoff" -> Backoff(attempt)
                [] phase = "sleep"   -> policy.budget

Horizon == 2 * policy.budget + policy.attemptTimeout

TypeOK ==
  /\ source \in Sources
  /\ policy \in [attempts: 1..5, budget: Nat \ {0}, attemptTimeout: Nat \ {0}]
  /\ phase \in {"sleep", "call", "backoff"}
  /\ attempt \in 1..policy.attempts
  /\ elapsed \in 0..Horizon /\ inPhase \in 0..PhaseLimit
  /\ failure \in Failure \cup {NoFailure}

\* The loop is about to poll.
Init ==
  /\ source \in Sources
  /\ \E n \in RetryCounts, i \in Intervals, h \in HttpTimeouts : policy = NewPolicy(n, i, h)
  /\ phase = "sleep" /\ inPhase = policy.budget /\ elapsed = policy.budget
  /\ attempt = 1 /\ failure = NoFailure

-----------------------------------------------------------------------------
Enter(p) == phase' = p /\ inPhase' = 0

Poll ==
  /\ phase = "sleep" /\ inPhase = policy.budget
  /\ Enter("call")
  /\ attempt' = 1 /\ elapsed' = 0 /\ failure' = NoFailure
  /\ UNCHANGED <<source, policy>>

\* The forecast loop asks the sidecar for the model's input length and the
\* database for that many readings first; without either it sleeps on.
Skip ==
  /\ source = "forecast"
  /\ phase = "sleep" /\ inPhase = policy.budget
  /\ Enter("sleep")
  /\ elapsed' = 0
  /\ UNCHANGED <<source, policy, attempt, failure>>

\* The poll is over, one way or the other; the loop sleeps one interval.
EndPoll == Enter("sleep") /\ UNCHANGED attempt

\* Mutant of GivesUp: the budget is not looked at.
IgnoresBudget(c) == c # "transient" \/ attempt >= policy.attempts

GivesUp(c) ==
  c # "transient" \/ attempt >= policy.attempts \/ elapsed + Backoff(attempt) >= policy.budget

Failed(f) ==
  /\ failure' = f
  /\ IF GivesUp(Class(f)) THEN EndPoll ELSE Enter("backoff") /\ UNCHANGED attempt
  /\ UNCHANGED <<source, policy, elapsed>>

Succeeds ==
  /\ phase = "call"
  /\ EndPoll
  /\ failure' = NoFailure
  /\ UNCHANGED <<source, policy, elapsed>>

Fails(f) ==
  /\ phase = "call"
  /\ IF SeenAsFailure(f)
       THEN Failed(f)
       ELSE /\ EndPoll
            /\ failure' = f
            /\ UNCHANGED <<source, policy, elapsed>>

\* Mutant of TimesOut: nothing bounds the wait for an answer.
NoTimeout ==
  /\ phase = "call" /\ inPhase > policy.attemptTimeout
  /\ Failed(Timeout)

\* The attempt is abandoned at its timeout.
TimesOut ==
  /\ phase = "call" /\ inPhase = policy.attemptTimeout
  /\ Failed(Timeout)

Retry ==
  /\ phase = "backoff" /\ inPhase = Backoff(attempt)
  /\ Enter("call")
  /\ attempt' = attempt + 1
  /\ UNCHANGED <<source, policy, elapsed, failure>>

\* A timer that is due is not kept waiting.
Elapse ==
  /\ inPhase < PhaseLimit
  /\ inPhase' = inPhase + 1 /\ elapsed' = elapsed + 1
  /\ UNCHANGED <<source, policy, phase, attempt, failure>>

Next ==
  \/ Poll \/ Skip \/ Succeeds \/ TimesOut \/ Retry \/ Elapse
  \/ \E f \in Failure : Fails(f)

Spec == Init /\ [][Next]_vars

\* Timers run out, and the runtime wakes the loop when they do.
FairSpec == Spec /\ WF_vars(Elapse) /\ WF_vars(Poll \/ Skip) /\ WF_vars(Retry) /\ WF_vars(TimesOut)

-----------------------------------------------------------------------------
\* A retry is only ever started inside the interval its poll belongs to, so a
\* poll outlasts its interval by less than the timeout of one attempt.
RetryInsideInterval ==
  /\ phase = "call" /\ attempt > 1 => elapsed - inPhase < policy.budget
  /\ phase # "sleep" => elapsed < policy.budget + policy.attemptTimeout

\* However long the client's own timeout, a poll of a source slower than the
\* floor of two seconds is over before a second interval has passed.
WithinTwoIntervals ==
  phase # "sleep" /\ policy.budget >= MinAttemptTimeout => elapsed < 2 * policy.budget

\* What a second attempt can fix: the request never landed, or the server
\* declined to serve it now.
WorthRetrying(f) == ~f.decode /\ (f.transport \/ f.status \in {500, 503})

\* No attempt is left, or none would start inside the interval.
Spent == attempt = policy.attempts \/ elapsed + Backoff(attempt) >= policy.budget

\* A feed is given up for a transient failure only when it has had every attempt
\* its interval has room for.
GivesUpOnlyWhenSpent ==
  [][source = "feed" /\ phase = "call" /\ phase' = "sleep" /\ WorthRetrying(failure') => Spent]_vars

\* Whatever the source answers, and if it never does, a next cycle begins.
PollsForever == []<>(elapsed = 0) /\ []<>(elapsed > 0)
=============================================================================
