---------------------------- MODULE AccountCache ----------------------------
(***************************************************************************)
(* The per-account entry of the usage counter (rate_limit.rs, UsageEntry), *)
(* which caches three things at once: the API quota spent this period, the *)
(* plan, and the token version every session is checked against; and the   *)
(* users and usage_records rows it is filled from and flushed to.          *)
(*                                                                         *)
(* A request is a task that runs one handler, cut into steps where the     *)
(* handler awaits: the handler lock, a slot in the writer queue, the       *)
(* writer's reply.  Between two steps every other task may run.            *)
(*                                                                         *)
(* Time is counted in days.  A token, once minted, may be presented in any *)
(* later step: its 24 hours of life are not modelled, so the runs about    *)
(* sessions keep MaxDay small.  All months have DaysPerMonth days.         *)
(***************************************************************************)
EXTENDS Integers, Sequences, FiniteSets

CONSTANTS
  Accounts,      \* rows of users
  Tasks,         \* requests in flight at once
  None,          \* "no entry", "no account", "no plan"
  Plans,         \* plan names
  DailyPlans,    \* the plans counted by the day; the others by the month
  LimitedPlans,  \* the plans with a quota
  Limit,         \* their quota
  Rank,          \* the order of the plans
  DaysPerMonth,
  SelfServe,     \* may an account raise its own plan
  Endpoints,     \* the requests clients make
  Faults,        \* "disconnect", "restart", "dberror"
  QueueCap,      \* slots in the writer's channel
  MaxDay, MaxVersion, MaxDrops, MaxCount  \* bounds of the exploration

ASSUME AccountCacheAssumption ==
  /\ None \notin Accounts \cup Plans
  /\ DailyPlans \subseteq Plans /\ LimitedPlans \subseteq Plans
  /\ Limit \in [LimitedPlans -> Nat \ {0}]
  /\ Rank \in [Plans -> Nat]
  /\ DaysPerMonth \in Nat \ {0}
  /\ SelfServe \in BOOLEAN
  /\ Endpoints \subseteq {"session", "login", "apikey", "credential", "plan"}
  /\ Faults \subseteq {"disconnect", "restart", "dberror"}
  /\ QueueCap \in Nat \ {0}
  /\ MaxDay \in Nat /\ MaxVersion \in Nat /\ MaxDrops \in Nat /\ MaxCount \in Nat

VARIABLES
  day,      \* the clock
  version,  \* users.token_version
  plan,     \* users.plan
  stored,   \* usage_records: the count recorded for each period start, 0 if no row
  cache,    \* the in-memory usage counter
  queue,    \* the writer's channel
  task,     \* the requests in flight
  \* History, read by the properties and never by the actions:
  minted,   \* the versions session tokens have been minted with
  acked,    \* the version the last answered credential change left behind
  spent,    \* API requests admitted, by the period they were charged to
  drops,    \* how often the entry was thrown away
  drift     \* how the present entry came to disagree with its row, if it does

persistent == <<version, plan, stored>>
history    == <<minted, acked, spent, drops, drift>>
vars == <<day, persistent, cache, queue, task, history>>

-----------------------------------------------------------------------------
Days == 0..MaxDay

\* The first day of the period that day d belongs to under plan p.
CurrentPeriodStart(p, d) == IF p \in DailyPlans THEN d ELSE d - (d % DaysPerMonth)

\* The first day after the period that starts on s.  A start that is not the
\* first of a month still ends with its month.
PeriodEnd(p, s) ==
  IF p \in DailyPlans THEN s + 1 ELSE s - (s % DaysPerMonth) + DaysPerMonth

Entry == [count: Nat, start: Days, plan: Plans, ver: Nat]

ASSUME NoEntryAssumption == None \notin Entry

Fresh(p, d, v) == [count |-> 0, start |-> CurrentPeriodStart(p, d), plan |-> p, ver |-> v]

\* Mutant of AtLimit: one request too many.
PastLimit(e) == e.plan \in LimitedPlans /\ e.count > Limit[e.plan]

AtLimit(e) == e.plan \in LimitedPlans /\ e.count >= Limit[e.plan]

Blank == [pc |-> "idle", job |-> "none", acct |-> None, tok |-> 0, ver |-> 0,
          plan |-> None, now |-> 0, floor |-> 0]

ChangeJobs == {"credential", "plan"}

Request == [pc: {"idle", "read", "fill", "send", "sent", "gone", "acked",
                 "accepted", "refused", "charged", "denied"},
            job: {"none", "session", "login", "charge"} \cup ChangeJobs,
            acct: Accounts \cup {None}, tok: Nat, ver: Nat,
            plan: Plans \cup {None}, now: Days, floor: Nat]

Command == [op: {"change"}, task: Tasks]
             \cup [op: {"flush"}, acct: Accounts, count: Nat, start: Days]

RowsOK ==
  /\ day \in Days
  /\ version \in [Accounts -> Nat]
  /\ plan \in [Accounts -> Plans]
  /\ stored \in [Accounts -> [Days -> Nat]]

CacheOK == cache \in [Accounts -> Entry \cup {None}]

RequestOK(r) ==
  /\ r \in Request
  /\ r.pc # "idle" => r.acct \in Accounts
  /\ r.pc = "fill" => r.plan \in Plans
  /\ r.job = "plan" => r.plan \in Plans
  /\ r.pc \in {"send", "sent", "gone"} => r.job \in ChangeJobs

RequestsOK == task \in [Tasks -> Request] /\ \A t \in Tasks : RequestOK(task[t])

HistoryOK ==
  /\ minted \in [Accounts -> SUBSET Nat]
  /\ acked \in [Accounts -> Nat]
  /\ spent \in [Accounts -> [Days -> Nat]]
  /\ drops \in [Accounts -> Nat]
  /\ drift \in [Accounts -> SUBSET {"overlap", "apikey", "abandoned"}]

\* A request whose change is in the channel, whether or not its handler still
\* waits for the reply.
Waiting(t) == task[t].pc \in {"sent", "gone"}

\* Every queued change belongs to a request of its own, which waits for it.
QueueOK ==
  /\ queue \in Seq(Command)
  /\ \A i \in 1..Len(queue) : queue[i].op = "change" => Waiting(queue[i].task)
  /\ \A i, j \in 1..Len(queue) :
       queue[i].op = "change" /\ queue[j].op = "change" /\ queue[i].task = queue[j].task => i = j

TypeOK == RowsOK /\ CacheOK /\ RequestsOK /\ HistoryOK /\ QueueOK

\* A new account: version 0, some plan, nothing recorded, nothing cached.
Init ==
  /\ day = 0
  /\ version = [a \in Accounts |-> 0]
  /\ plan \in [Accounts -> Plans]
  /\ stored = [a \in Accounts |-> [d \in Days |-> 0]]
  /\ cache = [a \in Accounts |-> None]
  /\ queue = <<>>
  /\ task = [t \in Tasks |-> Blank]
  /\ minted = [a \in Accounts |-> {}]
  /\ acked = [a \in Accounts |-> 0]
  /\ spent = [a \in Accounts |-> [d \in Days |-> 0]]
  /\ drops = [a \in Accounts |-> 0]
  /\ drift = [a \in Accounts |-> {}]

-----------------------------------------------------------------------------
(* Sessions.  Both the extractor, checking a token, and issue_jwt, minting   *)
(* one, take the version from resolve_token_version: the cached one if there *)
(* is an entry, and otherwise the row's, which they then cache.              *)

Verdict(tok, current) == IF tok = current THEN "accepted" ELSE "refused"

Starts(t, a, endpoint) == task[t].pc = "idle" /\ endpoint \in Endpoints

\* A request bearing a session token of version v reaches the extractor.
SessionRequest(t, a, v) ==
  /\ Starts(t, a, "session")
  /\ v \in minted[a]
  /\ task' = [task EXCEPT ![t] =
       [Blank EXCEPT !.job = "session", !.acct = a, !.tok = v, !.floor = acked[a],
                     !.pc = IF cache[a] = None THEN "read" ELSE Verdict(v, cache[a].ver)]]
  /\ UNCHANGED <<day, persistent, cache, queue, history>>

\* A sign in, its password and code already checked, reaches issue_jwt.
Login(t, a) ==
  /\ Starts(t, a, "login")
  /\ IF cache[a] = None
       THEN /\ task' = [task EXCEPT ![t] =
                 [Blank EXCEPT !.job = "login", !.acct = a, !.pc = "read"]]
            /\ UNCHANGED minted
       ELSE /\ minted' = [minted EXCEPT ![a] = @ \cup {cache[a].ver}]
            /\ UNCHANGED task
  /\ UNCHANGED <<day, persistent, cache, queue, acked, spent, drops, drift>>

\* The row is read under the handler lock, which is then released.
ResolveRead(t) ==
  /\ task[t].pc = "read" /\ task[t].job \in {"session", "login"}
  /\ task' = [task EXCEPT ![t].pc = "fill", ![t].ver = version[task[t].acct],
                           ![t].plan = plan[task[t].acct]]
  /\ UNCHANGED <<day, persistent, cache, queue, history>>

\* History: an entry written now from a plan and a version that were read before
\* the row changed.
Overlap(a, p, v) == IF p = plan[a] /\ v = version[a] THEN {} ELSE {"overlap"}

\* The entry is inserted unless another request has inserted one meanwhile; the
\* answer is the version this request read, whatever the entry now holds.
ResolveFill(t) ==
  LET r == task[t]
      a == r.acct
  IN /\ r.pc = "fill" /\ r.job \in {"session", "login"}
     /\ IF cache[a] = None
          THEN /\ cache' = [cache EXCEPT ![a] = Fresh(r.plan, day, r.ver)]
               /\ drift' = [drift EXCEPT ![a] = Overlap(a, r.plan, r.ver)]
          ELSE UNCHANGED <<cache, drift>>
     /\ IF r.job = "login"
          THEN /\ minted' = [minted EXCEPT ![a] = @ \cup {r.ver}]
               /\ task' = [task EXCEPT ![t] = Blank]
          ELSE /\ task' = [task EXCEPT ![t].pc = Verdict(r.tok, r.ver)]
               /\ UNCHANGED minted
     /\ UNCHANGED <<day, persistent, queue, acked, spent, drops>>

-----------------------------------------------------------------------------
(* API keys: check_and_increment, charged to the entry.  The clock is read   *)
(* once, when the request starts.                                            *)

Spend(a, e) ==
  /\ cache' = [cache EXCEPT ![a] = [e EXCEPT !.count = @ + 1]]
  /\ spent' = [spent EXCEPT ![a][e.start] = @ + 1]

\* Hot path: an entry whose period is not over is checked and incremented under
\* its shard lock.  Otherwise the request goes on to read the plan.
StartCharge(t, a) ==
  LET e == cache[a]
      r == [Blank EXCEPT !.job = "charge", !.acct = a, !.now = day]
      hot == e # None /\ day < PeriodEnd(e.plan, e.start)
  IN /\ Starts(t, a, "apikey")
     /\ \A d \in Days : spent[a][d] < MaxCount
     /\ \/ /\ ~hot
           /\ task' = [task EXCEPT ![t] = [r EXCEPT !.pc = "read"]]
           /\ UNCHANGED <<cache, spent>>
        \/ /\ hot /\ AtLimit(e)
           /\ task' = [task EXCEPT ![t] = [r EXCEPT !.pc = "denied"]]
           /\ UNCHANGED <<cache, spent>>
        \/ /\ hot /\ ~AtLimit(e)
           /\ task' = [task EXCEPT ![t] = [r EXCEPT !.pc = "charged"]]
           /\ Spend(a, e)
     /\ UNCHANGED <<day, persistent, queue, minted, acked, drops, drift>>

ChargeRead(t) ==
  /\ task[t].pc = "read" /\ task[t].job = "charge"
  /\ task' = [task EXCEPT ![t].pc = "fill", ![t].plan = plan[task[t].acct]]
  /\ UNCHANGED <<day, persistent, cache, queue, history>>

\* Mutant of Rolled: a new period goes on with the count of the old one.
RolledKeepsCount(e, p, d) ==
  IF e = None THEN Fresh(p, d, 0)
  ELSE IF e.start < CurrentPeriodStart(p, d)
    THEN [e EXCEPT !.start = CurrentPeriodStart(p, d), !.plan = p]
    ELSE e

\* Mutant of Rolled: an entry is charged whatever period it is of.
NeverRolled(e, p, d) == IF e = None THEN Fresh(p, d, 0) ELSE e

\* The entry the cold path charges: a new one, which claims token version 0; an
\* existing one of an earlier period, restarted; or an existing one as it is.
Rolled(e, p, d) ==
  IF e = None THEN Fresh(p, d, 0)
  ELSE IF e.start < CurrentPeriodStart(p, d)
    THEN [e EXCEPT !.count = 0, !.start = CurrentPeriodStart(p, d), !.plan = p]
    ELSE e

ChargeFill(t) ==
  LET r == task[t]
      a == r.acct
      e == Rolled(cache[a], r.plan, r.now)
  IN /\ r.pc = "fill" /\ r.job = "charge"
     /\ IF AtLimit(e)
          THEN /\ cache' = [cache EXCEPT ![a] = e]
               /\ task' = [task EXCEPT ![t].pc = "denied"]
               /\ UNCHANGED spent
          ELSE /\ Spend(a, e)
               /\ task' = [task EXCEPT ![t].pc = "charged"]
     /\ drift' = [drift EXCEPT ![a] =
          IF e = cache[a] THEN @
          ELSE Overlap(a, r.plan, version[a])
                 \cup (IF cache[a] # None THEN @ ELSE IF version[a] = 0 THEN {} ELSE {"apikey"})]
     /\ UNCHANGED <<day, persistent, queue, minted, acked, drops>>

-----------------------------------------------------------------------------
(* Changes to the row: a password change or reset, and a second factor       *)
(* switched on or off, raise the version; a plan change sets the plan.  The  *)
(* handler awaits a slot in the channel, then the writer's reply, and clears *)
(* the entry only after the reply says Ok.                                   *)

\* Mutant of StartCredentialChange: the cached version is raised at once, before
\* the row is.
RaisesCacheFirst(t, a) ==
  /\ Starts(t, a, "credential")
  /\ version[a] < MaxVersion /\ drops[a] < MaxDrops
  /\ task' = [task EXCEPT ![t] = [Blank EXCEPT !.job = "credential", !.acct = a, !.pc = "send"]]
  /\ cache' = [cache EXCEPT ![a] = IF @ = None THEN @ ELSE [@ EXCEPT !.ver = version[a] + 1]]
  /\ UNCHANGED <<day, persistent, queue, history>>

StartCredentialChange(t, a) ==
  /\ Starts(t, a, "credential")
  /\ version[a] < MaxVersion /\ drops[a] < MaxDrops
  /\ task' = [task EXCEPT ![t] = [Blank EXCEPT !.job = "credential", !.acct = a, !.pc = "send"]]
  /\ UNCHANGED <<day, persistent, cache, queue, history>>

\* Only a raise needs the flag; anything else is refused without a state change.
MayMove(from, to) == SelfServe \/ Rank[to] <= Rank[from]

\* update_user_plan resolves the current plan from the entry or, if there is
\* none, from the row, read under the handler lock in a step of its own.
StartPlanChange(t, a, p) ==
  /\ Starts(t, a, "plan")
  /\ drops[a] < MaxDrops
  /\ cache[a] # None => MayMove(cache[a].plan, p)
  /\ task' = [task EXCEPT ![t] =
       [Blank EXCEPT !.job = "plan", !.acct = a, !.plan = p,
                     !.pc = IF cache[a] = None THEN "read" ELSE "send"]]
  /\ UNCHANGED <<day, persistent, cache, queue, history>>

PlanRead(t) ==
  LET r == task[t]
  IN /\ r.pc = "read" /\ r.job = "plan"
     /\ task' = [task EXCEPT ![t] =
                   IF MayMove(plan[r.acct], r.plan) THEN [r EXCEPT !.pc = "send"] ELSE Blank]
     /\ UNCHANGED <<day, persistent, cache, queue, history>>

\* send().await returns once the channel has a slot.
Enqueue(t) ==
  /\ task[t].pc = "send"
  /\ Len(queue) < QueueCap
  /\ queue' = Append(queue, [op |-> "change", task |-> t])
  /\ task' = [task EXCEPT ![t].pc = "sent"]
  /\ UNCHANGED <<day, persistent, cache, history>>

\* The writer applies a change in one statement and replies.  If the handler is
\* gone, nobody hears the reply and nobody will clear the entry.
Commit ==
  /\ queue # <<>> /\ Head(queue).op = "change"
  /\ LET t == Head(queue).task
         r == task[t]
         a == r.acct
     IN /\ IF r.job = "credential"
             THEN version' = [version EXCEPT ![a] = @ + 1] /\ UNCHANGED plan
             ELSE plan' = [plan EXCEPT ![a] = r.plan] /\ UNCHANGED version
        /\ task' = [task EXCEPT ![t] = IF r.pc = "gone" THEN Blank
                                       ELSE [r EXCEPT !.pc = "acked", !.ver = version'[a]]]
        /\ drift' = [drift EXCEPT ![a] =
                       IF r.pc = "gone" /\ cache[a] # None THEN @ \cup {"abandoned"} ELSE @]
  /\ queue' = Tail(queue)
  /\ UNCHANGED <<day, stored, cache, minted, acked, spent, drops>>

\* The statement fails: the row is as it was and the handler answers 500
\* without clearing anything.
CommitFails ==
  /\ "dberror" \in Faults
  /\ queue # <<>> /\ Head(queue).op = "change"
  /\ task' = [task EXCEPT ![Head(queue).task] = Blank]
  /\ queue' = Tail(queue)
  /\ UNCHANGED <<day, persistent, cache, history>>

\* Mutant of Clear: the handler answers and leaves the entry.
LeavesEntry(t) ==
  /\ task[t].pc = "acked"
  /\ task' = [task EXCEPT ![t] = Blank]
  /\ UNCHANGED <<day, persistent, cache, queue, history>>

Clear(t) ==
  LET r == task[t]
      a == r.acct
  IN /\ r.pc = "acked"
     /\ cache' = [cache EXCEPT ![a] = None]
     /\ task' = [task EXCEPT ![t] = Blank]
     /\ acked' = [acked EXCEPT ![a] = IF r.job = "credential" /\ r.ver > @ THEN r.ver ELSE @]
     /\ drops' = [drops EXCEPT ![a] = IF cache[a] = None THEN @ ELSE @ + 1]
     /\ drift' = [drift EXCEPT ![a] = {}]
     /\ UNCHANGED <<day, persistent, queue, minted, spent>>

-----------------------------------------------------------------------------
(* The flush, every minute: each entry's count is fired at the writer, which *)
(* overwrites the record.  A count of zero is written over an existing row   *)
(* and creates none, which is the same number either way.  With no slot in   *)
(* the channel the record is dropped.                                        *)

FlushUsage(a) ==
  /\ cache[a] # None
  /\ Len(queue) < QueueCap
  /\ queue' = Append(queue, [op |-> "flush", acct |-> a,
                             count |-> cache[a].count, start |-> cache[a].start])
  /\ UNCHANGED <<day, persistent, cache, task, history>>

UpsertUsage ==
  /\ queue # <<>> /\ Head(queue).op = "flush"
  /\ \/ stored' = [stored EXCEPT ![Head(queue).acct][Head(queue).start] = Head(queue).count]
     \/ "dberror" \in Faults /\ UNCHANGED stored
  /\ queue' = Tail(queue)
  /\ UNCHANGED <<day, version, plan, cache, task, history>>

\* What GET /api/usage reports for the period in progress: the live counter if
\* it counts that period, and otherwise the record.
ReportedUsage(a) ==
  LET start == CurrentPeriodStart(plan[a], day)
  IN IF cache[a] # None /\ cache[a].start = start THEN cache[a].count ELSE stored[a][start]

-----------------------------------------------------------------------------
\* The response is sent and the handler's task ends.
Finish(t) ==
  /\ task[t].pc \in {"accepted", "refused", "charged", "denied"}
  /\ task' = [task EXCEPT ![t] = Blank]
  /\ UNCHANGED <<day, persistent, cache, queue, history>>

\* The client goes away and the server drops the handler where it awaits.  A
\* command already in the channel stays there.
Disconnect(t) ==
  LET r == task[t]
      a == r.acct
  IN /\ "disconnect" \in Faults
     /\ r.pc \in {"read", "fill", "send", "sent", "acked"}
     /\ task' = [task EXCEPT ![t] = IF r.pc = "sent" THEN [r EXCEPT !.pc = "gone"] ELSE Blank]
     /\ drift' = [drift EXCEPT ![a] =
                    IF r.pc = "acked" /\ cache[a] # None THEN @ \cup {"abandoned"} ELSE @]
     /\ UNCHANGED <<day, persistent, cache, queue, minted, acked, spent, drops>>

\* The process restarts: what was in memory is gone, queued writes included.
Restart ==
  /\ "restart" \in Faults
  /\ \A a \in Accounts : drops[a] < MaxDrops
  /\ cache' = [a \in Accounts |-> None]
  /\ queue' = <<>>
  /\ task' = [t \in Tasks |-> Blank]
  /\ drops' = [a \in Accounts |-> IF cache[a] = None THEN drops[a] ELSE drops[a] + 1]
  /\ drift' = [a \in Accounts |-> {}]
  /\ UNCHANGED <<day, persistent, minted, acked, spent>>

Tick ==
  /\ day < MaxDay
  /\ day' = day + 1
  /\ UNCHANGED <<persistent, cache, queue, task, history>>

Next ==
  \/ \E t \in Tasks, a \in Accounts :
       \/ \E v \in minted[a] : SessionRequest(t, a, v)
       \/ Login(t, a)
       \/ StartCharge(t, a)
       \/ StartCredentialChange(t, a)
       \/ \E p \in Plans : StartPlanChange(t, a, p)
  \/ \E t \in Tasks :
       \/ ResolveRead(t) \/ ResolveFill(t)
       \/ ChargeRead(t) \/ ChargeFill(t)
       \/ PlanRead(t) \/ Enqueue(t) \/ Clear(t)
       \/ Finish(t) \/ Disconnect(t)
  \/ Commit \/ CommitFails \/ UpsertUsage
  \/ \E a \in Accounts : FlushUsage(a)
  \/ Tick \/ Restart

Spec == Init /\ [][Next]_vars

-----------------------------------------------------------------------------
(* Properties that hold.                                                     *)

\* No copy of a token version runs ahead of users.token_version: not the cached
\* one, not one a request has read and not yet used, not one in a token.  An
\* insert or a commit applied out of order would put a version in the cache that
\* no row has, and refuse every session of the account.
VersionNeverAhead ==
  \A a \in Accounts :
    /\ cache[a] # None => cache[a].ver <= version[a]
    /\ \A v \in minted[a] : v <= version[a]
    /\ acked[a] <= version[a]
    /\ \A t \in Tasks : task[t].acct = a => task[t].ver <= version[a]

\* The entry disagrees with its row only while a change that has committed waits
\* to clear it, or for one of three reasons: it was filled from a read the change
\* overtook, an API key request created it, or the handler that should have
\* cleared it was dropped.  Every other order of the handlers' steps is safe.
StaleOnlyForAKnownReason ==
  \A a \in Accounts :
    (/\ cache[a] # None
     /\ cache[a].ver # version[a] \/ cache[a].plan # plan[a]
     /\ drift[a] = {})
      => \E t \in Tasks : task[t].pc = "acked" /\ task[t].acct = a

\* However hot and cold paths interleave, no entry counts past its plan's quota.
EntryWithinLimit ==
  \A a \in Accounts :
    cache[a] # None /\ cache[a].plan \in LimitedPlans => cache[a].count <= Limit[cache[a].plan]

\* Neither the record of a period nor a count on its way to it, nor the usage
\* the API reports, exceeds the requests admitted in that period: a request is
\* never billed twice, and none of an earlier period is.
UsageNeverOverstated ==
  \A a \in Accounts :
    /\ \A d \in Days : stored[a][d] <= spent[a][d]
    /\ ReportedUsage(a) <= spent[a][CurrentPeriodStart(plan[a], day)]

\* A charge on the cold path leaves the entry in a period that was not over when
\* the request started, unless the plan changes about it: between its read of the
\* plan and its charge, between the read the entry is from and the entry, or with
\* the entry still to be cleared.
ChargedInCurrentPeriod ==
  [][\A t \in Tasks :
       LET r == task[t]
           e == cache'[r.acct]
       IN (/\ r.job = "charge" /\ r.pc = "fill" /\ task'[t].pc = "charged"
           /\ r.plan = plan[r.acct] /\ drift[r.acct] \subseteq {"apikey"}
           /\ ~\E u \in Tasks : task[u].pc = "acked" /\ task[u].acct = r.acct)
            => r.now < PeriodEnd(e.plan, e.start)]_vars

-----------------------------------------------------------------------------
(* What the code's comments and tests say, and the interleavings refute.     *)

\* auth.rs, AuthClaims.ver: once a credential change has been answered, a
\* session minted before it is refused.
RevokedStaysRevoked ==
  \A t \in Tasks : task[t].pc = "accepted" => task[t].tok >= task[t].floor
=============================================================================
