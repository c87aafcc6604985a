---------------------------- MODULE LoginBackoff ----------------------------
(***************************************************************************)
(* The back off after failed sign ins of one address (rate_limit.rs, and    *)
(* login and login_2fa of auth.rs).                                         *)
(*                                                                         *)
(* login asks whether the address is blocked before it reads the row and    *)
(* verifies the hash, and records the outcome after; login_2fa asks and     *)
(* records without giving up control in between.                            *)
(***************************************************************************)
EXTENDS Integers, FiniteSets, FiniteSetsExt

CONSTANTS
  Tasks,         \* requests to login that are handled at the same time
  FreeAttempts,  \* FREE_ATTEMPTS
  BaseDelay,     \* BASE_DELAY_SECS, a step of the clock
  MaxDelay,      \* MAX_DELAY_SECS
  WordBits,      \* width of the integer the delay is computed in: 64
  MaxFailures    \* bound: where the count of failures stops, as saturating_add does

ASSUME LoginBackoffAssumption ==
  /\ FreeAttempts \in Nat /\ BaseDelay \in Nat \ {0} /\ MaxDelay \in Nat \ {0}
  /\ MaxDelay % BaseDelay = 0
  /\ WordBits \in Nat /\ MaxFailures \in Nat /\ IsFiniteSet(Tasks)
  /\ FreeAttempts + WordBits < MaxFailures

VARIABLES
  factor,       \* users.totp_enabled, and there is such a user
  consecutive,  \* FailureEntry.consecutive; 0 without an entry
  wait,         \* how far off blocked_until is
  task,         \* what became of each request to login
  spree         \* history: wrong answers weighed since the clock last moved, a sign in
                \* was completed or the process began

vars == <<factor, consecutive, wait, task, spree>>

Delays == {k * BaseDelay : k \in 0..(MaxDelay \div BaseDelay)}

TypeOK ==
  /\ factor \in BOOLEAN
  /\ consecutive \in 0..MaxFailures
  /\ wait \in Delays /\ (wait > 0 => consecutive > FreeAttempts)
  /\ task \in [Tasks -> {"idle", "hashing"}]
  /\ spree \in Nat

Init ==
  /\ factor \in BOOLEAN
  /\ consecutive = 0 /\ wait = 0 /\ spree = 0
  /\ task = [t \in Tasks |-> "idle"]

-----------------------------------------------------------------------------
(* A word as the set of its bits that are 1; delays have few                 *)

Word(n) == {b \in 0..30 : (n \div 2^b) % 2 = 1}

\* Shifting left moves bits out of the word without further ado.
Shl(word, d) == {b + d : b \in word} \cap 0..(WordBits - 1)

Value(word) == MapThenSumSet(LAMBDA b : 2^b, word)

\* The smaller of a word and MaxDelay.
Capped(word) ==
  IF \E b \in word : b > 30 \/ 2^b > MaxDelay \/ Value({c \in word : c <= b}) > MaxDelay
    THEN MaxDelay
    ELSE Value(word)

\* backoff_secs: checked_shl refuses only a shift by the whole width or more.
BackoffSecs(n) ==
  IF n <= FreeAttempts
    THEN 0
    ELSE LET doublings == n - FreeAttempts - 1
         IN IF doublings >= WordBits THEN MaxDelay ELSE Capped(Shl(Word(BaseDelay), doublings))

-----------------------------------------------------------------------------
Blocked == wait > 0

RecordFailure ==
  /\ consecutive' = IF consecutive < MaxFailures THEN consecutive + 1 ELSE MaxFailures
  /\ wait' = BackoffSecs(consecutive')
  /\ spree' = spree + 1

ClearFailures == consecutive' = 0 /\ wait' = 0 /\ spree' = 0

\* Mutant of Login: the address is not looked up before the row is read.
LoginUnchecked(t) ==
  /\ task[t] = "idle"
  /\ task' = [task EXCEPT ![t] = "hashing"]
  /\ UNCHANGED <<factor, consecutive, wait, spree>>

\* Mutant of Login: to be refused starts the block afresh.
ExtendsBlock(t) ==
  /\ task[t] = "idle"
  /\ IF Blocked
       THEN wait' = BackoffSecs(consecutive) /\ UNCHANGED task
       ELSE task' = [task EXCEPT ![t] = "hashing"] /\ UNCHANGED wait
  /\ UNCHANGED <<factor, consecutive, spree>>

\* A request comes in and is not refused.
Login(t) ==
  /\ task[t] = "idle" /\ ~Blocked
  /\ task' = [task EXCEPT ![t] = "hashing"]
  /\ UNCHANGED <<factor, consecutive, wait, spree>>

\* No such address, or the wrong password for it.
LoginFails(t) ==
  /\ task[t] = "hashing"
  /\ RecordFailure
  /\ task' = [task EXCEPT ![t] = "idle"]
  /\ UNCHANGED factor

\* The right password, which is all it takes without a second factor.
LoginSucceeds(t) ==
  /\ task[t] = "hashing"
  /\ IF factor THEN UNCHANGED <<consecutive, wait, spree>> ELSE ClearFailures
  /\ task' = [task EXCEPT ![t] = "idle"]
  /\ UNCHANGED factor

\* A code, by someone who holds a partial token.
Login2fa(right) ==
  /\ factor /\ ~Blocked
  /\ IF right THEN ClearFailures ELSE RecordFailure
  /\ UNCHANGED <<factor, task>>

\* The handler is dropped, or the row or the hash cannot be read: nothing is recorded.
LoginEnds(t) ==
  /\ task[t] = "hashing"
  /\ task' = [task EXCEPT ![t] = "idle"]
  /\ UNCHANGED <<factor, consecutive, wait, spree>>

\* enable_totp and disable_totp commit.
FactorChanges ==
  /\ factor' = ~factor
  /\ UNCHANGED <<consecutive, wait, task, spree>>

Tick ==
  /\ wait' = IF Blocked THEN wait - BaseDelay ELSE 0
  /\ spree' = 0
  /\ UNCHANGED <<factor, consecutive, task>>

\* The map is in memory only.
Restart ==
  /\ consecutive' = 0 /\ wait' = 0 /\ spree' = 0
  /\ task' = [t \in Tasks |-> "idle"]
  /\ UNCHANGED factor

Next ==
  \/ \E t \in Tasks : Login(t) \/ LoginFails(t) \/ LoginSucceeds(t) \/ LoginEnds(t)
  \/ \E right \in BOOLEAN : Login2fa(right)
  \/ FactorChanges \/ Tick \/ Restart

Spec == Init /\ [][Next]_vars

\* Time passes.
FairSpec == Spec /\ WF_vars(Tick)

-----------------------------------------------------------------------------
\* The failures in this row whose delay was shifted out of its word, and blocked nobody.
Lost == Cardinality({n \in FreeAttempts + 1..consecutive : ~(BackoffSecs(n) > 0)})

\* Requests that were let in before a block began may still be weighed in it, and that
\* is all: in one moment no more wrong answers are than the free ones, the one that
\* starts the block, and one for each request that can be handled at once; the last two
\* once more for a delay that was shifted away and let everybody in again.
GuessesAtOnce == spree <= FreeAttempts + (Lost + 1) * (Cardinality(Tasks) + 1)

\* Whoever is blocked is let in again in the end, whatever others try meanwhile.
BlockEnds == []<>(~Blocked)

=============================================================================
