------------------------- MODULE AccountCacheProofs -------------------------
(***************************************************************************)
(* Invariants of AccountCache, for any accounts, tasks, plans and quotas.  *)
(***************************************************************************)
EXTENDS AccountCache, TLAPS

-----------------------------------------------------------------------------
(* Lemmas on the operators and on one change of a variable.                  *)

\* A period starts on a day that has come.
LEMMA PeriodStarts ==
  ASSUME NEW p, NEW d \in Days
  PROVE  CurrentPeriodStart(p, d) \in Days /\ CurrentPeriodStart(p, d) <= d
<1> USE AccountCacheAssumption
<1>1. d % DaysPerMonth \in 0..d
  BY DEF Days
<1>2. QED
  BY <1>1 DEF CurrentPeriodStart, Days

LEMMA FreshEntry ==
  ASSUME NEW p \in Plans, NEW d \in Days, NEW v \in Nat
  PROVE  /\ Fresh(p, d, v) \in Entry /\ Fresh(p, d, v) # None
         /\ Fresh(p, d, v).count = 0 /\ Fresh(p, d, v).ver = v /\ Fresh(p, d, v).plan = p
<1>1. Fresh(p, d, v) \in Entry
  BY PeriodStarts DEF Fresh, Entry
<1>2. QED
  BY <1>1, NoEntryAssumption DEF Fresh

\* What the cold path may do to an entry: count from zero, or leave it alone.
LEMMA RolledEntry ==
  ASSUME NEW e \in Entry \cup {None}, NEW p \in Plans, NEW d \in Days
  PROVE  /\ Rolled(e, p, d) \in Entry /\ Rolled(e, p, d) # None
         /\ e = None => Rolled(e, p, d) = Fresh(p, d, 0)
         /\ e # None => Rolled(e, p, d).ver = e.ver
         /\ e # None /\ Rolled(e, p, d) # e => Rolled(e, p, d).count = 0 /\ Rolled(e, p, d).plan = p
<1>1. CASE e = None
  BY <1>1, FreshEntry DEF Rolled
<1>2. CASE e # None
  <2>1. CurrentPeriodStart(p, d) \in Days
    BY PeriodStarts
  <2>2. [e EXCEPT !.count = 0, !.start = CurrentPeriodStart(p, d), !.plan = p] \in Entry
    BY <1>2, <2>1 DEF Entry
  <2>3. QED
    BY <1>2, <2>2, NoEntryAssumption DEF Rolled, Entry
<1>3. QED
  BY <1>1, <1>2

LEMMA SetRequest ==
  ASSUME RequestsOK, NEW t \in Tasks, NEW r, RequestOK(r), task' = [task EXCEPT ![t] = r]
  PROVE  RequestsOK'
BY DEF RequestsOK, RequestOK

LEMMA SetEntry ==
  ASSUME CacheOK, NEW a \in Accounts, NEW e \in Entry \cup {None},
         cache' = [cache EXCEPT ![a] = e]
  PROVE  CacheOK'
BY DEF CacheOK

LEMMA BlankOK == RequestOK(Blank)
BY AccountCacheAssumption DEF RequestOK, Blank, Request, Days

\* A queued change names a task.
LEMMA QueuedTasks ==
  ASSUME QueueOK
  PROVE  \A i \in 1..Len(queue) : queue[i].op = "change" => queue[i].task \in Tasks
<1>1. \A i \in 1..Len(queue) : queue[i] \in Command
  BY DEF QueueOK
<1>2. QED
  BY <1>1 DEF Command

\* A request that waits for no reply may change in any way.
LEMMA QueueKept ==
  ASSUME RequestsOK, QueueOK, NEW t \in Tasks, NEW r, task' = [task EXCEPT ![t] = r],
         r.pc \in {"sent", "gone"} \/ ~Waiting(t), queue' = queue
  PROVE  QueueOK'
<1>1. \A u \in Tasks : Waiting(u) => Waiting(u)'
  BY DEF Waiting, RequestsOK
<1>2. QED
  BY QueuedTasks, <1>1 DEF QueueOK

LEMMA HeadAndTail ==
  ASSUME QueueOK, queue # <<>>
  PROVE  /\ Head(queue) \in Command /\ Head(queue) = queue[1]
         /\ Tail(queue) \in Seq(Command)
         /\ Len(queue) \in Nat \ {0} /\ Len(Tail(queue)) = Len(queue) - 1
         /\ \A i \in 1..Len(Tail(queue)) : i + 1 \in 1..Len(queue) /\ Tail(queue)[i] = queue[i + 1]
BY DEF QueueOK

LEMMA CommandCases ==
  ASSUME NEW c \in Command
  PROVE  \/ c.op = "change" /\ c.task \in Tasks
         \/ c.op = "flush" /\ c.acct \in Accounts /\ c.count \in Nat /\ c.start \in Days
BY DEF Command

\* The change at the head of the queue and its request leave together.
LEMMA HeadDone ==
  ASSUME RequestsOK, QueueOK, queue # <<>>, Head(queue).op = "change", queue' = Tail(queue),
         NEW r, task' = [task EXCEPT ![Head(queue).task] = r]
  PROVE  QueueOK'
<1> DEFINE t == Head(queue).task
<1>1. \A u \in Tasks : u # t /\ Waiting(u) => Waiting(u)'
  BY DEF Waiting, RequestsOK
<1>2. \A i \in 1..Len(queue') : queue'[i].op = "change" => queue'[i].task \in Tasks \ {t}
  BY QueuedTasks, HeadAndTail DEF QueueOK
<1>3. QED
  BY <1>1, <1>2, HeadAndTail DEF QueueOK

LEMMA HeadFlushed ==
  ASSUME QueueOK, queue # <<>>, queue' = Tail(queue), task' = task
  PROVE  QueueOK'
<1>1. \A u : Waiting(u)' = Waiting(u)
  BY DEF Waiting
<1>2. QED
  BY <1>1, HeadAndTail DEF QueueOK

LEMMA Appended ==
  ASSUME QueueOK, NEW c \in Command, queue' = Append(queue, c)
  PROVE  /\ queue' \in Seq(Command) /\ Len(queue) \in Nat /\ Len(queue') = Len(queue) + 1
         /\ \A i \in 1..Len(queue) : queue'[i] = queue[i]
         /\ queue'[Len(queue) + 1] = c
BY DEF QueueOK

-----------------------------------------------------------------------------
(* Types, and who waits for what.                                            *)

\* Requests that start from an idle task, and steps that move only a request.
LEMMA RequestStep ==
  ASSUME TypeOK, NEW t \in Tasks, NEW r, RequestOK(r), ~Waiting(t),
         task' = [task EXCEPT ![t] = r],
         UNCHANGED <<day, persistent, cache, queue, history>>
  PROVE  TypeOK'
<1>1. RequestsOK'
  BY SetRequest DEF TypeOK
<1>2. QueueOK'
  BY QueueKept DEF TypeOK
<1>3. QED
  BY <1>1, <1>2 DEF TypeOK, RowsOK, CacheOK, HistoryOK, persistent, history

LEMMA SessionTypes ==
  ASSUME TypeOK, NEW t \in Tasks, NEW a \in Accounts, NEW v \in minted[a], SessionRequest(t, a, v)
  PROVE  TypeOK'
<1> DEFINE r == [Blank EXCEPT !.job = "session", !.acct = a, !.tok = v, !.floor = acked[a],
                              !.pc = IF cache[a] = None THEN "read" ELSE Verdict(v, cache[a].ver)]
<1>1. v \in Nat /\ acked[a] \in Nat
  BY DEF TypeOK, HistoryOK
<1>2. RequestOK(r)
  BY <1>1, BlankOK DEF RequestOK, Blank, Request, Verdict
<1>3. ~Waiting(t)
  BY DEF SessionRequest, Starts, Waiting
<1>4. /\ task' = [task EXCEPT ![t] = r]
      /\ UNCHANGED <<day, persistent, cache, queue, history>>
  BY DEF SessionRequest
<1> HIDE DEF r
<1>5. QED
  BY <1>2, <1>3, <1>4, RequestStep

LEMMA LoginTypes ==
  ASSUME TypeOK, NEW t \in Tasks, NEW a \in Accounts, Login(t, a)
  PROVE  TypeOK'
<1>1. CASE cache[a] = None
  <2> DEFINE r == [Blank EXCEPT !.job = "login", !.acct = a, !.pc = "read"]
  <2>1. RequestOK(r)
    BY BlankOK DEF RequestOK, Blank, Request
  <2>2. ~Waiting(t)
    BY DEF Login, Starts, Waiting
  <2>3. /\ task' = [task EXCEPT ![t] = r]
        /\ UNCHANGED <<day, persistent, cache, queue, history>>
    BY <1>1 DEF Login, history
  <2> HIDE DEF r
  <2>4. QED
    BY <2>1, <2>2, <2>3, RequestStep
<1>2. CASE cache[a] # None
  <2>1. cache[a].ver \in Nat
    BY <1>2 DEF TypeOK, CacheOK, Entry
  <2>2. HistoryOK'
    BY <1>2, <2>1 DEF TypeOK, HistoryOK, Login
  <2>3. QED
    BY <1>2, <2>2 DEF TypeOK, RowsOK, CacheOK, RequestsOK, QueueOK, Waiting, Login, persistent
<1>3. QED
  BY <1>1, <1>2

LEMMA ResolveReadTypes ==
  ASSUME TypeOK, NEW t \in Tasks, ResolveRead(t)
  PROVE  TypeOK'
<1> DEFINE r == [task[t] EXCEPT !.pc = "fill", !.ver = version[task[t].acct],
                                !.plan = plan[task[t].acct]]
<1>1. RequestOK(task[t]) /\ task[t].acct \in Accounts
  BY DEF TypeOK, RequestsOK, RequestOK, ResolveRead
<1>2. version[task[t].acct] \in Nat /\ plan[task[t].acct] \in Plans
  BY <1>1 DEF TypeOK, RowsOK
<1>3. RequestOK(r)
  BY <1>1, <1>2 DEF RequestOK, Request, ResolveRead
<1>4. ~Waiting(t)
  BY DEF ResolveRead, Waiting
<1>5. /\ task' = [task EXCEPT ![t] = r]
      /\ UNCHANGED <<day, persistent, cache, queue, history>>
  BY DEF ResolveRead, TypeOK, RequestsOK
<1> HIDE DEF r
<1>6. QED
  BY <1>3, <1>4, <1>5, RequestStep

LEMMA ChargeReadTypes ==
  ASSUME TypeOK, NEW t \in Tasks, ChargeRead(t)
  PROVE  TypeOK'
<1> DEFINE r == [task[t] EXCEPT !.pc = "fill", !.plan = plan[task[t].acct]]
<1>1. RequestOK(task[t]) /\ task[t].acct \in Accounts
  BY DEF TypeOK, RequestsOK, RequestOK, ChargeRead
<1>2. plan[task[t].acct] \in Plans
  BY <1>1 DEF TypeOK, RowsOK
<1>3. RequestOK(r)
  BY <1>1, <1>2 DEF RequestOK, Request, ChargeRead
<1>4. ~Waiting(t)
  BY DEF ChargeRead, Waiting
<1>5. /\ task' = [task EXCEPT ![t] = r]
      /\ UNCHANGED <<day, persistent, cache, queue, history>>
  BY DEF ChargeRead, TypeOK, RequestsOK
<1> HIDE DEF r
<1>6. QED
  BY <1>3, <1>4, <1>5, RequestStep

LEMMA ResolveFillTypes ==
  ASSUME TypeOK, NEW t \in Tasks, ResolveFill(t)
  PROVE  TypeOK'
<1> DEFINE r == task[t]
           a == r.acct
           s == IF r.job = "login" THEN Blank ELSE [r EXCEPT !.pc = Verdict(r.tok, r.ver)]
<1>1. RequestOK(r) /\ a \in Accounts /\ r.plan \in Plans /\ r.ver \in Nat
  BY DEF TypeOK, RequestsOK, RequestOK, Request, ResolveFill
<1>2. RequestOK(s)
  BY <1>1, BlankOK DEF RequestOK, Request, Verdict, ResolveFill
<1>3. ~Waiting(t)
  BY DEF ResolveFill, Waiting
<1>4. task' = [task EXCEPT ![t] = s]
  BY DEF ResolveFill, TypeOK, RequestsOK
<1>5. Fresh(r.plan, day, r.ver) \in Entry
  BY <1>1, FreshEntry DEF TypeOK, RowsOK
<1>6. CacheOK'
  BY <1>1, <1>5 DEF ResolveFill, TypeOK, CacheOK
<1>7. HistoryOK'
  BY <1>1 DEF ResolveFill, TypeOK, HistoryOK, Overlap
<1>8. RequestsOK' /\ QueueOK'
  <2> HIDE DEF s
  <2>1. queue' = queue
    BY DEF ResolveFill
  <2>2. QED
    BY <1>2, <1>3, <1>4, <2>1, SetRequest, QueueKept DEF TypeOK
<1>9. RowsOK'
  BY DEF TypeOK, RowsOK, ResolveFill, persistent
<1>10. QED
  BY <1>6, <1>7, <1>8, <1>9 DEF TypeOK

\* One more request on an entry and on what its period was charged.
LEMMA SpendTypes ==
  ASSUME CacheOK, HistoryOK, NEW a \in Accounts, NEW e \in Entry, Spend(a, e)
  PROVE  CacheOK' /\ spent' \in [Accounts -> [Days -> Nat]]
<1>1. e.count \in Nat /\ e.start \in Days
  BY DEF Entry
<1>2. [e EXCEPT !.count = @ + 1] \in Entry
  BY <1>1 DEF Entry
<1>3. spent[a] \in [Days -> Nat] /\ spent[a][e.start] \in Nat
  BY <1>1 DEF HistoryOK
<1>4. [spent[a] EXCEPT ![e.start] = @ + 1] \in [Days -> Nat]
  BY <1>1, <1>3
<1>5. CacheOK'
  BY <1>2 DEF Spend, CacheOK
<1>6. QED
  BY <1>3, <1>4, <1>5 DEF Spend, HistoryOK

LEMMA StartChargeTypes ==
  ASSUME TypeOK, NEW t \in Tasks, NEW a \in Accounts, StartCharge(t, a)
  PROVE  TypeOK'
<1> DEFINE q(pc) == [Blank EXCEPT !.job = "charge", !.acct = a, !.now = day, !.pc = pc]
<1>1. PICK pc \in {"read", "denied", "charged"} : task' = [task EXCEPT ![t] = q(pc)]
  BY DEF StartCharge
<1>2. RequestOK(q(pc))
  BY AccountCacheAssumption DEF RequestOK, Blank, Request, Days, TypeOK, RowsOK
<1>3. ~Waiting(t)
  BY DEF StartCharge, Starts, Waiting
<1>4. RequestsOK' /\ QueueOK'
  <2> DEFINE r == q(pc)
  <2>1. RequestOK(r) /\ task' = [task EXCEPT ![t] = r] /\ queue' = queue
    BY <1>1, <1>2 DEF StartCharge
  <2> HIDE DEF r
  <2>2. QED
    BY <1>3, <2>1, SetRequest, QueueKept DEF TypeOK
<1>5. cache[a] # None => cache[a] \in Entry
  BY DEF TypeOK, CacheOK
<1>6. CacheOK' /\ spent' \in [Accounts -> [Days -> Nat]]
  BY <1>5, SpendTypes DEF StartCharge, TypeOK, CacheOK, HistoryOK
<1>7. QED
  BY <1>4, <1>6 DEF StartCharge, TypeOK, RowsOK, HistoryOK, persistent

LEMMA ChargeFillTypes ==
  ASSUME TypeOK, NEW t \in Tasks, ChargeFill(t)
  PROVE  TypeOK'
<1> DEFINE r == task[t]
           a == r.acct
           e == Rolled(cache[a], r.plan, r.now)
<1>1. RequestOK(r) /\ a \in Accounts /\ r.plan \in Plans /\ r.now \in Days
  BY DEF TypeOK, RequestsOK, RequestOK, Request, ChargeFill
<1>2. e \in Entry
  BY <1>1, RolledEntry DEF TypeOK, CacheOK
<1>3. ~Waiting(t)
  BY DEF ChargeFill, Waiting
<1>4. PICK pc \in {"denied", "charged"} : task' = [task EXCEPT ![t] = [r EXCEPT !.pc = pc]]
  BY DEF ChargeFill, TypeOK, RequestsOK
<1>5. RequestOK([r EXCEPT !.pc = pc])
  BY <1>1 DEF RequestOK, Request
<1>6. RequestsOK' /\ QueueOK'
  <2> DEFINE s == [r EXCEPT !.pc = pc]
  <2>1. RequestOK(s) /\ task' = [task EXCEPT ![t] = s] /\ queue' = queue
    BY <1>4, <1>5 DEF ChargeFill
  <2> HIDE DEF s
  <2>2. QED
    BY <1>3, <2>1, SetRequest, QueueKept DEF TypeOK
<1>7. CacheOK' /\ spent' \in [Accounts -> [Days -> Nat]]
  <2> HIDE DEF e
  <2>1. Spend(a, e) \/ (cache' = [cache EXCEPT ![a] = e] /\ spent' = spent)
    BY DEF ChargeFill, e
  <2>2. QED
    BY <1>1, <1>2, <2>1, SpendTypes, SetEntry DEF TypeOK, HistoryOK
<1>8. drift' \in [Accounts -> SUBSET {"overlap", "apikey", "abandoned"}]
  BY <1>1 DEF ChargeFill, TypeOK, HistoryOK, Overlap
<1>9. QED
  BY <1>6, <1>7, <1>8 DEF ChargeFill, TypeOK, RowsOK, HistoryOK, persistent

LEMMA ChangeStartTypes ==
  ASSUME TypeOK, NEW t \in Tasks, NEW a \in Accounts,
         StartCredentialChange(t, a) \/ \E p \in Plans : StartPlanChange(t, a, p)
  PROVE  TypeOK'
<1>1. ~Waiting(t) /\ UNCHANGED <<day, persistent, cache, queue, history>>
  BY DEF StartCredentialChange, StartPlanChange, Starts, Waiting
<1>2. CASE StartCredentialChange(t, a)
  <2> DEFINE r == [Blank EXCEPT !.job = "credential", !.acct = a, !.pc = "send"]
  <2>1. RequestOK(r)
    BY BlankOK DEF RequestOK, Blank, Request, ChangeJobs
  <2>2. task' = [task EXCEPT ![t] = r]
    BY <1>2 DEF StartCredentialChange
  <2> HIDE DEF r
  <2>3. QED
    BY <1>1, <2>1, <2>2, RequestStep
<1>3. ASSUME NEW p \in Plans, StartPlanChange(t, a, p)
      PROVE  TypeOK'
  <2> DEFINE r == [Blank EXCEPT !.job = "plan", !.acct = a, !.plan = p,
                                !.pc = IF cache[a] = None THEN "read" ELSE "send"]
  <2>1. RequestOK(r)
    BY BlankOK DEF RequestOK, Blank, Request, ChangeJobs
  <2>2. task' = [task EXCEPT ![t] = r]
    BY <1>3 DEF StartPlanChange
  <2> HIDE DEF r
  <2>3. QED
    BY <1>1, <2>1, <2>2, RequestStep
<1>4. QED
  BY <1>2, <1>3

LEMMA PlanReadTypes ==
  ASSUME TypeOK, NEW t \in Tasks, PlanRead(t)
  PROVE  TypeOK'
<1> DEFINE r == task[t]
           s == IF MayMove(plan[r.acct], r.plan) THEN [r EXCEPT !.pc = "send"] ELSE Blank
<1>1. RequestOK(r)
  BY DEF TypeOK, RequestsOK
<1>2. RequestOK(s)
  BY <1>1, BlankOK DEF RequestOK, Request, PlanRead, ChangeJobs
<1>3. /\ task' = [task EXCEPT ![t] = s] /\ ~Waiting(t)
      /\ UNCHANGED <<day, persistent, cache, queue, history>>
  BY DEF PlanRead, Waiting
<1> HIDE DEF s
<1>4. QED
  BY <1>2, <1>3, RequestStep

LEMMA FinishTypes ==
  ASSUME TypeOK, NEW t \in Tasks, Finish(t)
  PROVE  TypeOK'
<1>1. /\ task' = [task EXCEPT ![t] = Blank] /\ ~Waiting(t)
      /\ UNCHANGED <<day, persistent, cache, queue, history>>
  BY DEF Finish, Waiting
<1>2. QED
  BY <1>1, BlankOK, RequestStep

LEMMA EnqueueTypes ==
  ASSUME TypeOK, NEW t \in Tasks, Enqueue(t)
  PROVE  TypeOK'
<1> DEFINE r == [task[t] EXCEPT !.pc = "sent"]
           c == [op |-> "change", task |-> t]
<1>1. RequestOK(task[t]) /\ task' = [task EXCEPT ![t] = r]
  BY DEF Enqueue, TypeOK, RequestsOK
<1>2. RequestOK(r)
  BY <1>1 DEF RequestOK, Request, Enqueue
<1>3. RequestsOK'
  <2> HIDE DEF r
  <2>1. QED
    BY <1>1, <1>2, SetRequest DEF TypeOK
<1>4. c \in Command /\ queue' = Append(queue, c)
  BY DEF Enqueue, Command
<1>5. \A u \in Tasks : Waiting(u) => task'[u].pc \in {"sent", "gone"} /\ u # t
  BY DEF Enqueue, Waiting, TypeOK, RequestsOK
<1>6. task'[t].pc = "sent"
  BY <1>1 DEF TypeOK, RequestsOK
<1>7. QueueOK'
  <2> HIDE DEF c
  <2>1. /\ queue' \in Seq(Command) /\ Len(queue) \in Nat /\ Len(queue') = Len(queue) + 1
        /\ \A i \in 1..Len(queue) : queue'[i] = queue[i]
        /\ queue'[Len(queue) + 1] = c
    BY <1>4, Appended DEF TypeOK
  <2>2. \A i \in 1..Len(queue) : queue[i].op = "change" =>
            queue[i].task \in Tasks /\ Waiting(queue[i].task)
    BY QueuedTasks DEF TypeOK, QueueOK
  <2>3. c.op = "change" /\ c.task = t
    BY DEF c
  <2>4. \A i \in 1..Len(queue') : i \in 1..Len(queue) \/ i = Len(queue) + 1
    BY <2>1
  <2>5. \A i \in 1..Len(queue') :
          queue'[i].op = "change" => task'[queue'[i].task].pc \in {"sent", "gone"}
    BY <1>5, <1>6, <2>1, <2>2, <2>3, <2>4
  <2>6. \A i, j \in 1..Len(queue') :
          queue'[i].op = "change" /\ queue'[j].op = "change" /\ queue'[i].task = queue'[j].task
            => i = j
    BY <1>5, <2>1, <2>2, <2>3, <2>4 DEF TypeOK, QueueOK
  <2>7. QED
    BY <2>1, <2>5, <2>6 DEF QueueOK, Waiting
<1>8. QED
  BY <1>3, <1>7 DEF Enqueue, TypeOK, RowsOK, CacheOK, HistoryOK, persistent, history

\* The head of the queue is a change of a request that waits for it.
LEMMA HeadChange ==
  ASSUME TypeOK, queue # <<>>, Head(queue).op = "change"
  PROVE  LET t == Head(queue).task
         IN /\ t \in Tasks /\ Waiting(t)
            /\ task[t].acct \in Accounts /\ task[t].job \in ChangeJobs
<1>1. Head(queue).task \in Tasks /\ Waiting(Head(queue).task)
  BY QueuedTasks, HeadAndTail DEF TypeOK, QueueOK
<1>2. QED
  BY <1>1 DEF TypeOK, RequestsOK, RequestOK, Waiting

LEMMA CommitTypes ==
  ASSUME TypeOK, Commit
  PROVE  TypeOK'
<1> DEFINE t == Head(queue).task
           r == task[t]
           a == r.acct
           s == IF r.pc = "gone" THEN Blank ELSE [r EXCEPT !.pc = "acked", !.ver = version'[a]]
<1>1. /\ t \in Tasks /\ Waiting(t) /\ a \in Accounts /\ r.job \in ChangeJobs
  BY HeadChange DEF Commit
<1>2. RequestOK(r)
  BY <1>1 DEF TypeOK, RequestsOK
<1>3. version' \in [Accounts -> Nat] /\ plan' \in [Accounts -> Plans]
  <2>1. r.job = "plan" => r.plan \in Plans
    BY <1>2 DEF RequestOK
  <2>2. CASE r.job = "credential"
    BY <1>1, <2>2 DEF Commit, TypeOK, RowsOK
  <2>3. CASE r.job = "plan"
    BY <1>1, <2>1, <2>3 DEF Commit, TypeOK, RowsOK
  <2>4. QED
    BY <1>1, <2>2, <2>3 DEF ChangeJobs
<1>4. RowsOK'
  BY <1>3 DEF Commit, TypeOK, RowsOK
<1>5. RequestOK(s)
  BY <1>1, <1>2, <1>3, BlankOK DEF RequestOK, Request
<1>6. task' = [task EXCEPT ![t] = s]
  BY DEF Commit
<1>7. RequestsOK' /\ QueueOK'
  <2> HIDE DEF s
  <2>1. QED
    BY <1>1, <1>5, <1>6, SetRequest, HeadDone DEF TypeOK, Commit
<1>8. HistoryOK'
  BY <1>1 DEF Commit, TypeOK, HistoryOK
<1>9. QED
  BY <1>4, <1>7, <1>8 DEF Commit, TypeOK, CacheOK

LEMMA CommitFailsTypes ==
  ASSUME TypeOK, CommitFails
  PROVE  TypeOK'
<1>1. Head(queue).task \in Tasks
  BY HeadChange DEF CommitFails
<1>2. RequestsOK' /\ QueueOK'
  BY <1>1, BlankOK, SetRequest, HeadDone DEF TypeOK, CommitFails
<1>3. QED
  BY <1>2 DEF CommitFails, TypeOK, RowsOK, CacheOK, HistoryOK, persistent, history

LEMMA ClearTypes ==
  ASSUME TypeOK, NEW t \in Tasks, Clear(t)
  PROVE  TypeOK'
<1>1. RequestOK(task[t]) /\ task[t].acct \in Accounts /\ task[t].ver \in Nat /\ ~Waiting(t)
  BY DEF Clear, TypeOK, RequestsOK, RequestOK, Request, Waiting
<1>2. RequestsOK' /\ QueueOK'
  BY <1>1, BlankOK, SetRequest, QueueKept DEF TypeOK, Clear
<1>3. CacheOK'
  BY <1>1 DEF Clear, TypeOK, CacheOK
<1>4. HistoryOK'
  BY <1>1 DEF Clear, TypeOK, HistoryOK
<1>5. QED
  BY <1>2, <1>3, <1>4 DEF Clear, TypeOK, RowsOK, persistent

LEMMA DisconnectTypes ==
  ASSUME TypeOK, NEW t \in Tasks, Disconnect(t)
  PROVE  TypeOK'
<1> DEFINE r == task[t]
           s == IF r.pc = "sent" THEN [r EXCEPT !.pc = "gone"] ELSE Blank
<1>1. RequestOK(r) /\ r.acct \in Accounts
  BY DEF Disconnect, TypeOK, RequestsOK, RequestOK
<1>2. RequestOK(s)
  BY <1>1, BlankOK DEF RequestOK, Request
<1>3. s.pc \in {"sent", "gone"} \/ ~Waiting(t)
  BY DEF Disconnect, Waiting, TypeOK, RequestsOK, Request
<1>4. task' = [task EXCEPT ![t] = s] /\ queue' = queue
  BY DEF Disconnect
<1>5. RequestsOK' /\ QueueOK'
  <2> HIDE DEF s
  <2>1. QED
    BY <1>2, <1>3, <1>4, SetRequest, QueueKept DEF TypeOK
<1>6. HistoryOK'
  BY <1>1 DEF Disconnect, TypeOK, HistoryOK
<1>7. QED
  BY <1>5, <1>6 DEF Disconnect, TypeOK, RowsOK, CacheOK, persistent

LEMMA FlushTypes ==
  ASSUME TypeOK, NEW a \in Accounts, FlushUsage(a)
  PROVE  TypeOK'
<1> DEFINE c == [op |-> "flush", acct |-> a, count |-> cache[a].count, start |-> cache[a].start]
<1>1. c \in Command /\ c.op = "flush" /\ queue' = Append(queue, c)
  BY DEF FlushUsage, TypeOK, CacheOK, Entry, Command
<1>2. \A u : Waiting(u)' = Waiting(u)
  BY DEF FlushUsage, Waiting
<1>3. QueueOK'
  <2> HIDE DEF c
  <2>1. /\ queue' \in Seq(Command) /\ Len(queue) \in Nat /\ Len(queue') = Len(queue) + 1
        /\ \A i \in 1..Len(queue) : queue'[i] = queue[i]
        /\ queue'[Len(queue) + 1] = c
    BY <1>1, Appended DEF TypeOK
  <2>2. \A i \in 1..Len(queue') : queue'[i].op = "change" =>
           i \in 1..Len(queue) /\ queue'[i] = queue[i]
    BY <1>1, <2>1
  <2>3. QED
    BY <1>2, <2>1, <2>2 DEF TypeOK, QueueOK
<1>4. QED
  BY <1>3 DEF FlushUsage, TypeOK, RowsOK, CacheOK, RequestsOK, HistoryOK, persistent, history

LEMMA UpsertTypes ==
  ASSUME TypeOK, UpsertUsage
  PROVE  TypeOK'
<1> DEFINE c == Head(queue)
<1>1. c.acct \in Accounts /\ c.count \in Nat /\ c.start \in Days
  BY HeadAndTail, CommandCases DEF UpsertUsage, TypeOK
<1>2. stored' \in [Accounts -> [Days -> Nat]]
  <2>1. [stored[c.acct] EXCEPT ![c.start] = c.count] \in [Days -> Nat]
    BY <1>1 DEF TypeOK, RowsOK
  <2>2. QED
    BY <1>1, <2>1 DEF UpsertUsage, TypeOK, RowsOK
<1>3. QueueOK'
  BY HeadFlushed DEF UpsertUsage, TypeOK
<1>4. QED
  BY <1>2, <1>3 DEF UpsertUsage, TypeOK, RowsOK, CacheOK, RequestsOK, HistoryOK, history

LEMMA RestartTypes ==
  ASSUME TypeOK, Restart
  PROVE  TypeOK'
<1>1. RequestsOK'
  BY BlankOK DEF Restart, RequestsOK, RequestOK
<1>2. QueueOK'
  BY DEF Restart, QueueOK
<1>3. HistoryOK'
  BY DEF Restart, TypeOK, HistoryOK
<1>4. QED
  BY <1>1, <1>2, <1>3 DEF Restart, TypeOK, RowsOK, CacheOK, persistent

LEMMA TickTypes ==
  ASSUME TypeOK, Tick
  PROVE  TypeOK'
<1>1. day + 1 \in Days
  BY AccountCacheAssumption DEF Tick, TypeOK, RowsOK, Days
<1>2. QED
  BY <1>1 DEF Tick, TypeOK, RowsOK, CacheOK, RequestsOK, HistoryOK, QueueOK, Waiting, persistent, history

LEMMA InitTypes == Init => TypeOK
<1> SUFFICES ASSUME Init PROVE TypeOK
  OBVIOUS
<1>1. RowsOK /\ HistoryOK
  BY AccountCacheAssumption DEF Init, RowsOK, HistoryOK, Days
<1>2. RequestsOK
  BY BlankOK DEF Init, RequestsOK, RequestOK
<1>3. QED
  BY <1>1, <1>2 DEF Init, TypeOK, CacheOK, QueueOK

LEMMA TypeStep ==
  ASSUME TypeOK, [Next]_vars
  PROVE  TypeOK'
<1>1. CASE UNCHANGED vars
  BY <1>1 DEF vars, persistent, history, TypeOK, RowsOK, CacheOK, RequestsOK, HistoryOK, QueueOK, Waiting
<1>2. CASE Next
  BY <1>2, SessionTypes, LoginTypes, StartChargeTypes, ChangeStartTypes, ResolveReadTypes,
     ResolveFillTypes, ChargeReadTypes, ChargeFillTypes, PlanReadTypes, EnqueueTypes, ClearTypes,
     FinishTypes, DisconnectTypes, CommitTypes, CommitFailsTypes, UpsertTypes, FlushTypes,
     TickTypes, RestartTypes
  DEF Next
<1>3. QED
  BY <1>1, <1>2

\* Every variable keeps its type, and every change in the channel belongs to one
\* request that waits for it: the writer's reply always finds its own handler.
THEOREM TypeCorrect == Spec => []TypeOK
<1>1. Init => TypeOK
  BY InitTypes
<1>2. TypeOK /\ [Next]_vars => TypeOK'
  BY TypeStep
<1>3. QED
  BY <1>1, <1>2, PTL DEF Spec

-----------------------------------------------------------------------------
(* Quotas.                                                                   *)

LEMMA CachedEntry ==
  ASSUME TypeOK, NEW a \in Accounts
  PROVE  /\ cache[a] \in Entry \cup {None}
         /\ cache[a] # None => cache[a].count \in Nat /\ cache[a].ver \in Nat
                               /\ cache[a].start \in Days /\ cache[a].plan \in Plans
BY DEF TypeOK, CacheOK, Entry

\* The steps that write the cache, and how: one entry, or all of them dropped.
LEMMA CacheWriters ==
  ASSUME TypeOK, [Next]_vars
  PROVE  \/ cache' = cache
         \/ \E t \in Tasks : ResolveFill(t) \/ ChargeFill(t) \/ Clear(t)
         \/ \E t \in Tasks, a \in Accounts : StartCharge(t, a)
         \/ Restart
<1>1. CASE UNCHANGED vars
  BY <1>1 DEF vars
<1>2. CASE Next
  BY <1>2 DEF Next, SessionRequest, Login, StartCredentialChange, StartPlanChange, ResolveRead,
     ChargeRead, PlanRead, Enqueue, Finish, Disconnect, Commit, CommitFails, UpsertUsage,
     FlushUsage, Tick
<1>3. QED
  BY <1>1, <1>2

WithinLimit(e) == e.plan \in LimitedPlans => e.count <= Limit[e.plan]

LEMMA SpendWithinLimit ==
  ASSUME TypeOK, EntryWithinLimit, NEW a \in Accounts, NEW e \in Entry, ~AtLimit(e), Spend(a, e)
  PROVE  EntryWithinLimit'
<1> DEFINE f == [e EXCEPT !.count = @ + 1]
<1>1. f.count = e.count + 1 /\ f.plan = e.plan /\ e.count \in Nat
  BY DEF Entry
<1>2. WithinLimit(f)
  BY <1>1, AccountCacheAssumption DEF WithinLimit, AtLimit
<1>3. cache' = [cache EXCEPT ![a] = f]
  BY DEF Spend
<1> HIDE DEF f
<1>4. QED
  BY <1>2, <1>3 DEF EntryWithinLimit, WithinLimit, TypeOK, CacheOK

LEMMA SetWithinLimit ==
  ASSUME TypeOK, EntryWithinLimit, NEW a \in Accounts, NEW e,
         e = None \/ e = cache[a] \/ (e.count = 0 /\ e.plan \in Plans),
         cache' = [cache EXCEPT ![a] = e]
  PROVE  EntryWithinLimit'
<1>1. e # None => WithinLimit(e)
  BY AccountCacheAssumption DEF EntryWithinLimit, WithinLimit
<1>2. QED
  BY <1>1 DEF EntryWithinLimit, WithinLimit, TypeOK, CacheOK

LEMMA LimitStep ==
  ASSUME TypeOK, EntryWithinLimit, [Next]_vars
  PROVE  EntryWithinLimit'
<1>1. CASE cache' = cache
  BY <1>1 DEF EntryWithinLimit
<1>2. ASSUME NEW t \in Tasks, ResolveFill(t) PROVE EntryWithinLimit'
  <2>1. task[t].acct \in Accounts /\ task[t].plan \in Plans /\ task[t].ver \in Nat /\ day \in Days
    BY <1>2 DEF ResolveFill, TypeOK, RowsOK, RequestsOK, RequestOK, Request
  <2>2. QED
    BY <1>1, <1>2, <2>1, FreshEntry, SetWithinLimit DEF ResolveFill
<1>3. ASSUME NEW t \in Tasks, ChargeFill(t) PROVE EntryWithinLimit'
  <2> DEFINE r == task[t]
             e == Rolled(cache[r.acct], r.plan, r.now)
  <2>1. r.acct \in Accounts /\ r.plan \in Plans /\ r.now \in Days
    BY <1>3 DEF ChargeFill, TypeOK, RequestsOK, RequestOK, Request
  <2>2. e \in Entry /\ (e = cache[r.acct] \/ (e.count = 0 /\ e.plan \in Plans))
    <3>1. cache[r.acct] \in Entry \cup {None}
      BY <2>1, CachedEntry
    <3>2. Fresh(r.plan, r.now, 0).count = 0 /\ Fresh(r.plan, r.now, 0).plan \in Plans
      BY <2>1, FreshEntry
    <3>3. /\ e \in Entry
          /\ cache[r.acct] = None => e = Fresh(r.plan, r.now, 0)
          /\ cache[r.acct] # None /\ e # cache[r.acct] => e.count = 0 /\ e.plan = r.plan
      BY <2>1, <3>1, RolledEntry
    <3> HIDE DEF e
    <3>4. QED
      BY <2>1, <3>2, <3>3
  <2>3. CASE AtLimit(e)
    <3>1. cache' = [cache EXCEPT ![r.acct] = e]
      BY <1>3, <2>3 DEF ChargeFill
    <3> HIDE DEF e
    <3>2. QED
      BY <2>1, <2>2, <3>1, SetWithinLimit
  <2>4. CASE ~AtLimit(e)
    <3>1. Spend(r.acct, e)
      BY <1>3, <2>4 DEF ChargeFill
    <3> HIDE DEF e
    <3>2. QED
      BY <2>1, <2>2, <2>4, <3>1, SpendWithinLimit
  <2>5. QED
    BY <2>3, <2>4
<1>4. ASSUME NEW t \in Tasks, NEW a \in Accounts, StartCharge(t, a) PROVE EntryWithinLimit'
  BY <1>1, <1>4, CachedEntry, SpendWithinLimit DEF StartCharge
<1>5. ASSUME NEW t \in Tasks, Clear(t) PROVE EntryWithinLimit'
  BY <1>5 DEF Clear, EntryWithinLimit, TypeOK, CacheOK
<1>6. CASE Restart
  BY <1>6 DEF Restart, EntryWithinLimit
<1>7. QED
  BY <1>1, <1>2, <1>3, <1>4, <1>5, <1>6, CacheWriters

\* Whatever the plans, quotas and number of concurrent requests, no entry counts
\* past its plan's quota: the check and the increment are one step of the entry.
THEOREM QuotaHolds == Spec => []EntryWithinLimit
<1>1. Init => EntryWithinLimit
  BY DEF Init, EntryWithinLimit
<1>2. TypeOK /\ EntryWithinLimit /\ [Next]_vars => EntryWithinLimit'
  BY LimitStep
<1>3. QED
  BY <1>1, <1>2, TypeCorrect, PTL DEF Spec

-----------------------------------------------------------------------------
(* Versions.                                                                 *)

\* A commit raises one version or sets one plan.
LEMMA CommitRow ==
  ASSUME TypeOK, Commit
  PROVE  LET t == Head(queue).task
             a == task[t].acct
         IN /\ t \in Tasks /\ Waiting(t) /\ a \in Accounts
            /\ \/ version' = [version EXCEPT ![a] = @ + 1] /\ plan' = plan
               \/ version' = version
            /\ task' = [task EXCEPT ![t] = IF task[t].pc = "gone" THEN Blank
                                   ELSE [task[t] EXCEPT !.pc = "acked", !.ver = version'[a]]]
            /\ drift' = [drift EXCEPT ![a] =
                 IF task[t].pc = "gone" /\ cache[a] # None THEN @ \cup {"abandoned"} ELSE @]
            /\ UNCHANGED <<day, stored, cache, minted, acked, spent, drops>>
<1>1. /\ Head(queue).task \in Tasks /\ Waiting(Head(queue).task)
      /\ task[Head(queue).task].acct \in Accounts
  BY HeadChange DEF Commit
<1>2. QED
  BY <1>1 DEF Commit

\* No row's version ever falls.
LEMMA VersionsRise ==
  ASSUME TypeOK, [Next]_vars
  PROVE  \A a \in Accounts : version[a] <= version'[a]
<1>1. version' = version \/ Commit
  BY DEF vars, persistent, Next, SessionRequest, Login, StartCharge, StartCredentialChange,
     StartPlanChange, ResolveRead, ResolveFill, ChargeRead, ChargeFill, PlanRead, Enqueue, Clear,
     Finish, Disconnect, CommitFails, UpsertUsage, FlushUsage, Tick, Restart
<1>2. CASE version' = version
  BY <1>2 DEF TypeOK, RowsOK
<1>3. CASE Commit
  <2>1. version \in [Accounts -> Nat]
    BY DEF TypeOK, RowsOK
  <2>2. QED
    BY <1>3, <2>1, CommitRow
<1>4. QED
  BY <1>1, <1>2, <1>3

\* Cached and held versions are at most the row's when they were at most the
\* row's before or are one the row has.
CacheBehind   == \A a \in Accounts : cache[a] # None => cache[a].ver <= version[a]
MintedBehind  == \A a \in Accounts : \A v \in minted[a] : v <= version[a]
AckedBehind   == \A a \in Accounts : acked[a] <= version[a]
RequestBehind == \A a \in Accounts, t \in Tasks : task[t].acct = a => task[t].ver <= version[a]

LEMMA VersionParts ==
  VersionNeverAhead <=> CacheBehind /\ MintedBehind /\ AckedBehind /\ RequestBehind
BY DEF VersionNeverAhead, CacheBehind, MintedBehind, AckedBehind, RequestBehind

LEMMA RequestVersion ==
  ASSUME TypeOK, VersionNeverAhead, NEW t \in Tasks, task[t].pc # "idle"
  PROVE  /\ task[t].acct \in Accounts /\ task[t].ver \in Nat
         /\ task[t].ver <= version[task[t].acct]
BY DEF TypeOK, RequestsOK, RequestOK, Request, VersionNeverAhead

\* What one step may do to the version a request holds.
LEMMA RequestVersions ==
  ASSUME TypeOK, [Next]_vars, NEW u \in Tasks
  PROVE  \/ task'[u].ver = 0
         \/ task'[u].acct = task[u].acct /\ task'[u].ver = task[u].ver
         \/ task'[u].ver = version'[task'[u].acct]
<1> DEFINE Goal == \/ task'[u].ver = 0
                   \/ task'[u].acct = task[u].acct /\ task'[u].ver = task[u].ver
                   \/ task'[u].ver = version'[task'[u].acct]
<1>1. task \in [Tasks -> Request]
  BY DEF TypeOK, RequestsOK
<1>2. ASSUME NEW t \in Tasks, NEW a \in Accounts,
             \/ \E v \in minted[a] : SessionRequest(t, a, v)
             \/ Login(t, a) \/ StartCharge(t, a) \/ StartCredentialChange(t, a)
             \/ \E p \in Plans : StartPlanChange(t, a, p)
      PROVE  Goal
  <2>1. CASE \E v \in minted[a] : SessionRequest(t, a, v)
    BY <1>1, <2>1 DEF SessionRequest, Blank
  <2>2. CASE Login(t, a)
    <3>1. \/ task' = task
          \/ task' = [task EXCEPT ![t] = [Blank EXCEPT !.job = "login", !.acct = a, !.pc = "read"]]
      BY <2>2 DEF Login
    <3>2. QED
      BY <1>1, <3>1 DEF Blank
  <2>3. CASE StartCharge(t, a)
    <3>1. \E pc : task' = [task EXCEPT ![t] =
            [Blank EXCEPT !.job = "charge", !.acct = a, !.now = day, !.pc = pc]]
      <4>1. \A pc : [[Blank EXCEPT !.job = "charge", !.acct = a, !.now = day] EXCEPT !.pc = pc]
                      = [Blank EXCEPT !.job = "charge", !.acct = a, !.now = day, !.pc = pc]
        BY DEF Blank
      <4>2. QED
        BY <2>3, <4>1 DEF StartCharge
    <3>2. QED
      BY <1>1, <3>1 DEF Blank
  <2>4. CASE StartCredentialChange(t, a) \/ \E p \in Plans : StartPlanChange(t, a, p)
    <3>1. CASE StartCredentialChange(t, a)
      BY <1>1, <3>1 DEF StartCredentialChange, Blank
    <3>2. ASSUME NEW p \in Plans, StartPlanChange(t, a, p) PROVE Goal
      BY <1>1, <3>2 DEF StartPlanChange, Blank
    <3>3. QED
      BY <2>4, <3>1, <3>2
  <2>5. QED
    BY <1>2, <2>1, <2>2, <2>3, <2>4
<1>3. ASSUME NEW t \in Tasks,
             \/ ResolveRead(t) \/ ResolveFill(t) \/ ChargeRead(t) \/ ChargeFill(t) \/ PlanRead(t)
             \/ Enqueue(t) \/ Clear(t) \/ Finish(t) \/ Disconnect(t),
             u # t
      PROVE  Goal
  BY <1>1, <1>3
  DEF ResolveRead, ResolveFill, ChargeRead, ChargeFill, PlanRead, Enqueue, Clear, Finish, Disconnect
<1>4. ASSUME \/ ResolveRead(u) \/ ResolveFill(u) \/ ChargeRead(u) \/ ChargeFill(u) \/ PlanRead(u)
             \/ Enqueue(u) \/ Clear(u) \/ Finish(u) \/ Disconnect(u)
      PROVE  Goal
  <2>1. ASSUME task'[u] = Blank PROVE Goal
    BY <2>1 DEF Blank
  <2>2. ASSUME NEW pc, task' = [task EXCEPT ![u].pc = pc] PROVE Goal
    BY <1>1, <2>2 DEF Request
  <2>3. CASE ResolveRead(u)
    <3>1. task'[u].ver = version[task[u].acct] /\ task'[u].acct = task[u].acct
      BY <1>1, <2>3 DEF ResolveRead, Request
    <3>2. version' = version
      BY <2>3 DEF ResolveRead, persistent
    <3>3. QED
      BY <3>1, <3>2
  <2>4. CASE ResolveFill(u)
    <3>1. task'[u] = Blank \/ task' = [task EXCEPT ![u].pc = Verdict(task[u].tok, task[u].ver)]
      BY <1>1, <2>4 DEF ResolveFill
    <3>2. QED
      BY <2>1, <2>2, <3>1
  <2>5. CASE ChargeRead(u)
    BY <1>1, <2>5 DEF ChargeRead, Request
  <2>6. CASE ChargeFill(u)
    BY <2>2, <2>6 DEF ChargeFill
  <2>7. CASE PlanRead(u)
    <3>1. task'[u] = Blank \/ task'[u] = [task[u] EXCEPT !.pc = "send"]
      BY <1>1, <2>7 DEF PlanRead
    <3>2. QED
      BY <1>1, <2>1, <3>1 DEF Request
  <2>8. CASE Enqueue(u)
    BY <2>2, <2>8 DEF Enqueue
  <2>9. CASE Clear(u) \/ Finish(u)
    BY <1>1, <2>1, <2>9 DEF Clear, Finish
  <2>10. CASE Disconnect(u)
    <3>1. task'[u] = Blank \/ task'[u] = [task[u] EXCEPT !.pc = "gone"]
      BY <1>1, <2>10 DEF Disconnect
    <3>2. QED
      BY <1>1, <2>1, <3>1 DEF Request
  <2>11. QED
    BY <1>4, <2>3, <2>4, <2>5, <2>6, <2>7, <2>8, <2>9, <2>10
<1>5. CASE Commit
  <2>1. CASE u = Head(queue).task /\ task[u].pc # "gone"
    <3>1. task'[u] = [task[u] EXCEPT !.pc = "acked", !.ver = version'[task[u].acct]]
      BY <1>1, <1>5, <2>1, CommitRow
    <3>2. task'[u].acct = task[u].acct /\ task'[u].ver = version'[task[u].acct]
      BY <1>1, <3>1 DEF Request
    <3>3. QED
      BY <3>2
  <2>2. CASE ~(u = Head(queue).task /\ task[u].pc # "gone")
    BY <1>1, <1>5, <2>2, CommitRow DEF Blank
  <2>3. QED
    BY <2>1, <2>2
<1>6. CASE CommitFails
  BY <1>1, <1>6 DEF CommitFails, Blank
<1>7. CASE Restart
  BY <1>7 DEF Restart, Blank
<1>8. CASE UNCHANGED task
  BY <1>8
<1>9. QED
  <2>1. \/ \E t \in Tasks, a \in Accounts :
             \/ \E v \in minted[a] : SessionRequest(t, a, v)
             \/ Login(t, a) \/ StartCharge(t, a) \/ StartCredentialChange(t, a)
             \/ \E p \in Plans : StartPlanChange(t, a, p)
        \/ \E t \in Tasks :
             \/ ResolveRead(t) \/ ResolveFill(t) \/ ChargeRead(t) \/ ChargeFill(t) \/ PlanRead(t)
             \/ Enqueue(t) \/ Clear(t) \/ Finish(t) \/ Disconnect(t)
        \/ Commit \/ CommitFails \/ Restart \/ UNCHANGED task
    BY DEF Next, vars, UpsertUsage, FlushUsage, Tick
  <2>2. QED
    BY <1>2, <1>3, <1>4, <1>5, <1>6, <1>7, <1>8, <2>1

LEMMA VersionStep ==
  ASSUME TypeOK, VersionNeverAhead, [Next]_vars
  PROVE  VersionNeverAhead'
<1>1. TypeOK'
  BY TypeStep
<1>2. \A a \in Accounts : version[a] \in Nat /\ version'[a] \in Nat /\ version[a] <= version'[a]
  BY <1>1, VersionsRise DEF TypeOK, RowsOK
<1>3. CacheBehind /\ MintedBehind /\ AckedBehind /\ RequestBehind
  BY VersionParts
<1>4. CacheBehind'
  <2>1. CASE cache' = cache
    BY <1>2, <1>3, <2>1, CachedEntry DEF CacheBehind
  <2>2. ASSUME NEW t \in Tasks, ResolveFill(t) PROVE CacheBehind'
    <3> DEFINE r == task[t]
    <3>1. /\ r.acct \in Accounts /\ r.plan \in Plans /\ r.ver \in Nat /\ day \in Days
          /\ r.ver <= version[r.acct] /\ version' = version
      BY <2>2, RequestVersion DEF ResolveFill, persistent, TypeOK, RowsOK, RequestsOK, RequestOK
    <3>2. Fresh(r.plan, day, r.ver).ver = r.ver
      BY <3>1, FreshEntry
    <3>3. CASE cache[r.acct] = None
      BY <1>3, <2>2, <3>1, <3>2, <3>3 DEF ResolveFill, CacheBehind, TypeOK, CacheOK
    <3>4. CASE cache[r.acct] # None
      BY <2>1, <2>2, <3>4 DEF ResolveFill
    <3>5. QED
      BY <3>3, <3>4
  <2>3. ASSUME NEW t \in Tasks, ChargeFill(t) PROVE CacheBehind'
    <3> DEFINE r == task[t]
               e == Rolled(cache[r.acct], r.plan, r.now)
    <3>1. r.acct \in Accounts /\ r.plan \in Plans /\ r.now \in Days /\ version' = version
      BY <2>3 DEF ChargeFill, persistent, TypeOK, RequestsOK, RequestOK, Request
    <3>2. cache[r.acct] \in Entry \cup {None}
      BY <3>1, CachedEntry
    <3>3. e \in Entry /\ (cache[r.acct] = None => e = Fresh(r.plan, r.now, 0))
            /\ (cache[r.acct] # None => e.ver = cache[r.acct].ver)
      BY <3>1, <3>2, RolledEntry
    <3>4. Fresh(r.plan, r.now, 0).ver = 0
      BY <3>1, FreshEntry
    <3>5. \/ cache' = [cache EXCEPT ![r.acct] = e]
          \/ cache' = [cache EXCEPT ![r.acct] = [e EXCEPT !.count = @ + 1]]
      BY <2>3 DEF ChargeFill, Spend
    <3> HIDE DEF e
    <3>6. cache'[r.acct].ver = e.ver /\ \A a \in Accounts \ {r.acct} : cache'[a] = cache[a]
      BY <3>1, <3>3, <3>5 DEF TypeOK, CacheOK, Entry
    <3>7. e.ver <= version[r.acct]
      BY <1>2, <1>3, <3>1, <3>3, <3>4 DEF CacheBehind
    <3>8. QED
      BY <1>3, <3>1, <3>6, <3>7 DEF CacheBehind
  <2>4. ASSUME NEW t \in Tasks, NEW a \in Accounts, StartCharge(t, a) PROVE CacheBehind'
    <3>1. CASE Spend(a, cache[a]) /\ cache[a] # None
      <4>1. cache'[a].ver = cache[a].ver /\ \A b \in Accounts \ {a} : cache'[b] = cache[b]
        BY <3>1 DEF Spend, TypeOK, CacheOK, Entry
      <4>2. version' = version
        BY <2>4 DEF StartCharge, persistent
      <4>3. QED
        BY <1>3, <3>1, <4>1, <4>2 DEF CacheBehind
    <3>2. QED
      BY <2>1, <2>4, <3>1 DEF StartCharge
  <2>5. ASSUME NEW t \in Tasks, Clear(t) PROVE CacheBehind'
    <3>1. \A a \in Accounts : cache'[a] # None => cache'[a] = cache[a]
      BY <2>5 DEF Clear, TypeOK, CacheOK
    <3>2. version' = version
      BY <2>5 DEF Clear, persistent
    <3>3. QED
      BY <1>3, <3>1, <3>2 DEF CacheBehind
  <2>6. CASE Restart
    BY <2>6 DEF Restart, CacheBehind
  <2>7. QED
    BY <2>1, <2>2, <2>3, <2>4, <2>5, <2>6, CacheWriters
<1>5. MintedBehind'
  <2>1. CASE minted' = minted
    BY <1>1, <1>2, <1>3, <2>1 DEF MintedBehind, TypeOK, HistoryOK
  <2>2. ASSUME NEW t \in Tasks, NEW a \in Accounts, Login(t, a) PROVE MintedBehind'
    BY <1>2, <1>3, <2>1, <2>2 DEF Login, MintedBehind, CacheBehind, TypeOK, HistoryOK, persistent
  <2>3. ASSUME NEW t \in Tasks, ResolveFill(t) PROVE MintedBehind'
    <3>1. task[t].acct \in Accounts /\ task[t].ver <= version[task[t].acct] /\ version' = version
      BY <2>3, RequestVersion DEF ResolveFill, persistent
    <3>2. QED
      BY <1>3, <2>1, <2>3, <3>1 DEF ResolveFill, MintedBehind, TypeOK, HistoryOK
  <2>4. minted' = minted \/ \E t \in Tasks : ResolveFill(t) \/ \E a \in Accounts : Login(t, a)
    BY DEF vars, history, Next, SessionRequest, StartCharge, StartCredentialChange, StartPlanChange,
       ResolveRead, ChargeRead, ChargeFill, PlanRead, Enqueue, Clear, Finish, Disconnect, Commit,
       CommitFails, UpsertUsage, FlushUsage, Tick, Restart
  <2>5. QED
    BY <2>1, <2>2, <2>3, <2>4
<1>6. AckedBehind'
  <2>1. CASE acked' = acked
    BY <1>1, <1>2, <1>3, <2>1 DEF AckedBehind, TypeOK, HistoryOK
  <2>2. ASSUME NEW t \in Tasks, Clear(t) PROVE AckedBehind'
    <3>1. task[t].acct \in Accounts /\ task[t].ver <= version[task[t].acct] /\ version' = version
      BY <2>2, RequestVersion DEF Clear, persistent
    <3>2. QED
      BY <1>3, <2>2, <3>1 DEF Clear, AckedBehind, TypeOK, HistoryOK
  <2>3. acked' = acked \/ \E t \in Tasks : Clear(t)
    BY DEF vars, history, Next, SessionRequest, Login, StartCharge, StartCredentialChange,
       StartPlanChange, ResolveRead, ResolveFill, ChargeRead, ChargeFill, PlanRead, Enqueue, Finish,
       Disconnect, Commit, CommitFails, UpsertUsage, FlushUsage, Tick, Restart
  <2>4. QED
    BY <2>1, <2>2, <2>3
<1>7. RequestBehind'
  <2> SUFFICES ASSUME NEW a \in Accounts, NEW u \in Tasks, task'[u].acct = a
               PROVE  task'[u].ver <= version'[a]
    BY DEF RequestBehind
  <2>1. task[u].ver \in Nat
    BY DEF TypeOK, RequestsOK, Request
  <2>2. QED
    BY <1>2, <1>3, <2>1, RequestVersions DEF RequestBehind
<1>8. (CacheBehind /\ MintedBehind /\ AckedBehind /\ RequestBehind)' => VersionNeverAhead'
  BY DEF VersionNeverAhead, CacheBehind, MintedBehind, AckedBehind, RequestBehind
<1>9. QED
  BY <1>4, <1>5, <1>6, <1>7, <1>8

\* No copy of a token version, cached, held by a request or minted into a token,
\* is ever ahead of the row, whatever is dropped, restarted or fails: a session
\* is never refused for want of a version that no row has had.
THEOREM VersionsFollowTheRow == Spec => []VersionNeverAhead
<1>1. Init => VersionNeverAhead
  BY NoEntryAssumption, AccountCacheAssumption DEF Init, VersionNeverAhead, Blank
<1>2. TypeOK /\ VersionNeverAhead /\ [Next]_vars => VersionNeverAhead'
  BY VersionStep
<1>3. QED
  BY <1>1, <1>2, TypeCorrect, PTL DEF Spec

-----------------------------------------------------------------------------
(* Usage.  What is cached, queued or recorded for a period is at most what   *)
(* was admitted in it.                                                       *)

CachedSpent == \A a \in Accounts : cache[a] # None => cache[a].count <= spent[a][cache[a].start]

QueuedSpent ==
  \A i \in 1..Len(queue) :
    queue[i].op = "flush" => queue[i].count <= spent[queue[i].acct][queue[i].start]

StoredSpent == \A a \in Accounts, d \in Days : stored[a][d] <= spent[a][d]

UsageInv == CachedSpent /\ QueuedSpent /\ StoredSpent

\* An admitted request is counted once in the entry and once in the history.
LEMMA SpendCounts ==
  ASSUME TypeOK, NEW a \in Accounts, NEW e \in Entry, Spend(a, e)
  PROVE  /\ spent'[a][e.start] = spent[a][e.start] + 1
         /\ \A b \in Accounts, d \in Days : spent[b][d] <= spent'[b][d]
         /\ \A b \in Accounts : b # a => spent'[b] = spent[b] /\ cache'[b] = cache[b]
         /\ cache'[a].count = e.count + 1 /\ cache'[a].start = e.start
         /\ cache'[a].ver = e.ver /\ cache'[a].plan = e.plan
<1> DEFINE f == [e EXCEPT !.count = @ + 1]
<1>1. spent \in [Accounts -> [Days -> Nat]] /\ cache \in [Accounts -> Entry \cup {None}]
  BY DEF TypeOK, HistoryOK, CacheOK
<1>2. /\ f.count = e.count + 1 /\ f.start = e.start /\ f.ver = e.ver /\ f.plan = e.plan
      /\ e.start \in Days
  BY DEF Entry
<1>3. cache' = [cache EXCEPT ![a] = f] /\ spent' = [spent EXCEPT ![a][e.start] = @ + 1]
  BY DEF Spend
<1> HIDE DEF f
<1>4. cache'[a] = f /\ \A b \in Accounts : b # a => cache'[b] = cache[b]
  BY <1>1, <1>3
<1>5. /\ spent'[a] = [spent[a] EXCEPT ![e.start] = @ + 1]
      /\ \A b \in Accounts : b # a => spent'[b] = spent[b]
  BY <1>1, <1>3
<1>6. /\ spent'[a][e.start] = spent[a][e.start] + 1
      /\ \A d \in Days : d # e.start => spent'[a][d] = spent[a][d]
  BY <1>1, <1>2, <1>5
<1>7. \A b \in Accounts, d \in Days : spent[b][d] \in Nat
  BY <1>1
<1>8. ASSUME NEW b \in Accounts, NEW d \in Days PROVE spent[b][d] <= spent'[b][d]
  <2>1. CASE b = a /\ d = e.start
    BY <1>6, <1>7, <2>1
  <2>2. CASE ~(b = a /\ d = e.start)
    <3>1. spent'[b][d] = spent[b][d]
      BY <1>5, <1>6, <2>2
    <3>2. QED
      BY <1>7, <3>1
  <2>3. QED
    BY <2>1, <2>2
<1>9. QED
  BY <1>2, <1>4, <1>5, <1>6, <1>8

\* What a charge on the cold path goes by, and what it leaves.
LEMMA ChargeFilled ==
  ASSUME TypeOK, NEW t \in Tasks, ChargeFill(t)
  PROVE  LET r == task[t]
             e == Rolled(cache[r.acct], r.plan, r.now)
         IN /\ r.acct \in Accounts /\ r.plan \in Plans /\ r.now \in Days
            /\ cache[r.acct] \in Entry \cup {None} /\ e \in Entry
            /\ \/ AtLimit(e) /\ cache' = [cache EXCEPT ![r.acct] = e] /\ spent' = spent
               \/ ~AtLimit(e) /\ Spend(r.acct, e)
<1> DEFINE r == task[t]
<1>1. r.acct \in Accounts /\ r.plan \in Plans /\ r.now \in Days
  BY DEF ChargeFill, TypeOK, RequestsOK, RequestOK, Request
<1>2. cache[r.acct] \in Entry \cup {None}
  BY <1>1, CachedEntry
<1>3. Rolled(cache[r.acct], r.plan, r.now) \in Entry
  BY <1>1, <1>2, RolledEntry
<1>4. QED
  BY <1>1, <1>2, <1>3 DEF ChargeFill

\* Admissions are only ever added.
LEMMA SpentRises ==
  ASSUME TypeOK, [Next]_vars
  PROVE  \A a \in Accounts, d \in Days :
           /\ spent[a][d] \in Nat /\ spent'[a][d] \in Nat /\ spent[a][d] <= spent'[a][d]
<1>1. TypeOK'
  BY TypeStep
<1>2. \A a \in Accounts, d \in Days : spent[a][d] \in Nat /\ spent'[a][d] \in Nat
  BY <1>1 DEF TypeOK, HistoryOK
<1>3. \/ spent' = spent
      \/ \E t \in Tasks : ChargeFill(t)
      \/ \E t \in Tasks, a \in Accounts : StartCharge(t, a)
  BY DEF vars, history, Next, SessionRequest, Login, StartCredentialChange, StartPlanChange,
     ResolveRead, ResolveFill, ChargeRead, PlanRead, Enqueue, Clear, Finish, Disconnect, Commit,
     CommitFails, UpsertUsage, FlushUsage, Tick, Restart
<1>4. CASE spent' = spent
  BY <1>2, <1>4
<1>5. ASSUME NEW t \in Tasks, ChargeFill(t)
      PROVE  \A a \in Accounts, d \in Days : spent[a][d] <= spent'[a][d]
  BY <1>4, <1>5, ChargeFilled, SpendCounts
<1>6. ASSUME NEW t \in Tasks, NEW a \in Accounts, StartCharge(t, a)
      PROVE  \A b \in Accounts, d \in Days : spent[b][d] <= spent'[b][d]
  <2>1. spent' = spent \/ (cache[a] # None /\ Spend(a, cache[a]))
    BY <1>6 DEF StartCharge
  <2>2. QED
    BY <1>4, <2>1, CachedEntry, SpendCounts
<1>7. QED
  BY <1>2, <1>3, <1>4, <1>5, <1>6

\* The flushes in the channel after a step: those from before, and one of an entry.
LEMMA QueuedFlushes ==
  ASSUME TypeOK, [Next]_vars, NEW i \in 1..Len(queue'), queue'[i].op = "flush"
  PROVE  \/ \E j \in 1..Len(queue) : queue'[i] = queue[j]
         \/ \E a \in Accounts :
              /\ cache[a] # None
              /\ queue'[i] = [op |-> "flush", acct |-> a,
                              count |-> cache[a].count, start |-> cache[a].start]
<1>1. \/ queue' = queue
      \/ \E t \in Tasks : Enqueue(t)
      \/ \E a \in Accounts : FlushUsage(a)
      \/ queue # <<>> /\ queue' = Tail(queue)
      \/ queue' = <<>>
  BY DEF vars, Next, SessionRequest, Login, StartCharge, StartCredentialChange, StartPlanChange,
     ResolveRead, ResolveFill, ChargeRead, ChargeFill, PlanRead, Clear, Finish, Disconnect, Commit,
     CommitFails, UpsertUsage, Tick, Restart
<1>2. CASE queue' = queue
  BY <1>2
<1>3. CASE queue # <<>> /\ queue' = Tail(queue)
  BY <1>3, HeadAndTail DEF TypeOK
<1>4. CASE queue' = <<>>
  BY <1>4
<1>5. ASSUME NEW c \in Command, queue' = Append(queue, c)
      PROVE  (\E j \in 1..Len(queue) : queue'[i] = queue[j]) \/ queue'[i] = c
  <2>1. /\ Len(queue) \in Nat /\ Len(queue') = Len(queue) + 1
        /\ \A j \in 1..Len(queue) : queue'[j] = queue[j]
        /\ queue'[Len(queue) + 1] = c
    BY <1>5, Appended DEF TypeOK
  <2>2. i \in 1..Len(queue) \/ i = Len(queue) + 1
    BY <2>1
  <2>3. QED
    BY <2>1, <2>2
<1>6. ASSUME NEW t \in Tasks, Enqueue(t) PROVE \E j \in 1..Len(queue) : queue'[i] = queue[j]
  <2> DEFINE c == [op |-> "change", task |-> t]
  <2>1. c \in Command /\ c.op = "change" /\ queue' = Append(queue, c)
    BY <1>6 DEF Enqueue, Command
  <2> HIDE DEF c
  <2>2. QED
    BY <1>5, <2>1
<1>7. ASSUME NEW a \in Accounts, FlushUsage(a)
      PROVE  \/ \E j \in 1..Len(queue) : queue'[i] = queue[j]
             \/ /\ cache[a] # None
                /\ queue'[i] = [op |-> "flush", acct |-> a,
                                count |-> cache[a].count, start |-> cache[a].start]
  <2> DEFINE c == [op |-> "flush", acct |-> a, count |-> cache[a].count, start |-> cache[a].start]
  <2>1. c \in Command /\ queue' = Append(queue, c) /\ cache[a] # None
    BY <1>7 DEF FlushUsage, TypeOK, CacheOK, Entry, Command
  <2> HIDE DEF c
  <2>2. (\E j \in 1..Len(queue) : queue'[i] = queue[j]) \/ queue'[i] = c
    BY <1>5, <2>1
  <2>3. QED
    BY <2>1, <2>2 DEF c
<1>8. QED
  BY <1>1, <1>2, <1>3, <1>4, <1>6, <1>7

LEMMA CachedSpentStep ==
  ASSUME TypeOK, CachedSpent, [Next]_vars
  PROVE  CachedSpent'
<1> DEFINE Covers(a, e) == e # None => e.count <= spent'[a][e.start]
<1>1. \A a \in Accounts : Covers(a, cache[a])
  <2> SUFFICES ASSUME NEW a \in Accounts, cache[a] # None
               PROVE  cache[a].count <= spent'[a][cache[a].start]
    OBVIOUS
  <2>1. cache[a].count \in Nat /\ cache[a].start \in Days
    BY CachedEntry
  <2>2. cache[a].count <= spent[a][cache[a].start]
    BY DEF CachedSpent
  <2>3. QED
    BY <2>1, <2>2, SpentRises
\* An entry that counts from zero is covered whatever its period.
<1>2. ASSUME NEW a \in Accounts, NEW e \in Entry, e.count = 0 PROVE Covers(a, e)
  <2>1. e.start \in Days
    BY DEF Entry
  <2>2. QED
    BY <1>2, <2>1, SpentRises
<1>3. ASSUME NEW a \in Accounts, NEW e, cache' = [cache EXCEPT ![a] = e], Covers(a, e)
      PROVE  CachedSpent'
  <2>1. \A b \in Accounts : cache'[b] = IF b = a THEN e ELSE cache[b]
    BY <1>3 DEF TypeOK, CacheOK
  <2>2. \A b \in Accounts : Covers(b, cache'[b])
    BY <1>1, <1>3, <2>1
  <2>3. QED
    BY <2>2 DEF CachedSpent
<1>4. ASSUME NEW a \in Accounts, NEW e \in Entry, Spend(a, e),
             e.count <= spent[a][e.start]
      PROVE  CachedSpent'
  <2>1. e.count \in Nat /\ e.start \in Days
    BY DEF Entry
  <2>2. /\ cache'[a].count = e.count + 1 /\ cache'[a].start = e.start
        /\ spent'[a][e.start] = spent[a][e.start] + 1
        /\ \A b \in Accounts : b # a => cache'[b] = cache[b]
    BY <1>4, SpendCounts
  <2>3. spent[a][e.start] \in Nat
    BY <2>1, SpentRises
  <2>4. Covers(a, cache'[a])
    BY <1>4, <2>1, <2>2, <2>3
  <2>5. \A b \in Accounts : Covers(b, cache'[b])
    BY <1>1, <2>2, <2>4
  <2>6. QED
    BY <2>5 DEF CachedSpent
<1>5. CASE cache' = cache
  BY <1>1, <1>5 DEF CachedSpent
<1>6. ASSUME NEW t \in Tasks, ResolveFill(t) PROVE CachedSpent'
  <2> DEFINE r == task[t]
             f == Fresh(r.plan, day, r.ver)
  <2>1. r.acct \in Accounts /\ r.plan \in Plans /\ r.ver \in Nat /\ day \in Days
    BY <1>6 DEF ResolveFill, TypeOK, RowsOK, RequestsOK, RequestOK, Request
  <2>2. f \in Entry /\ f.count = 0
    BY <2>1, FreshEntry
  <2>3. cache' = cache \/ cache' = [cache EXCEPT ![r.acct] = f]
    BY <1>6 DEF ResolveFill
  <2> HIDE DEF f
  <2>4. QED
    BY <1>2, <1>3, <1>5, <2>1, <2>2, <2>3
<1>7. ASSUME NEW t \in Tasks, ChargeFill(t) PROVE CachedSpent'
  <2> DEFINE r == task[t]
             a == r.acct
             e == Rolled(cache[a], r.plan, r.now)
  <2>1. /\ a \in Accounts /\ r.plan \in Plans /\ r.now \in Days
        /\ cache[a] \in Entry \cup {None} /\ e \in Entry
        /\ \/ AtLimit(e) /\ cache' = [cache EXCEPT ![a] = e] /\ spent' = spent
           \/ ~AtLimit(e) /\ Spend(a, e)
    BY <1>7, ChargeFilled
  <2>2. e = cache[a] \/ e.count = 0
    <3>1. cache[a] = None => e = Fresh(r.plan, r.now, 0)
      BY <2>1, RolledEntry
    <3>2. cache[a] # None /\ e # cache[a] => e.count = 0
      BY <2>1, RolledEntry
    <3>3. Fresh(r.plan, r.now, 0).count = 0
      BY <2>1, FreshEntry
    <3> HIDE DEF e
    <3>4. QED
      BY <3>1, <3>2, <3>3
  <2>3. e # None
    BY <2>1, NoEntryAssumption
  <2> HIDE DEF e
  <2>4. e.count <= spent[a][e.start]
    <3>1. CASE e = cache[a]
      BY <2>1, <2>3, <3>1 DEF CachedSpent
    <3>2. CASE e.count = 0
      <4>1. e.start \in Days
        BY <2>1 DEF Entry
      <4>2. QED
        BY <2>1, <3>2, <4>1, SpentRises
    <3>3. QED
      BY <2>2, <3>1, <3>2
  <2>5. QED
    BY <1>3, <1>4, <2>1, <2>4
<1>8. ASSUME NEW t \in Tasks, NEW a \in Accounts, StartCharge(t, a) PROVE CachedSpent'
  <2>1. cache' = cache \/ (cache[a] # None /\ Spend(a, cache[a]))
    BY <1>8 DEF StartCharge
  <2>2. QED
    BY <1>4, <1>5, <2>1, CachedEntry DEF CachedSpent
<1>9. ASSUME NEW t \in Tasks, Clear(t) PROVE CachedSpent'
  <2>1. task[t].acct \in Accounts
    BY <1>9 DEF Clear, TypeOK, RequestsOK, RequestOK
  <2>2. QED
    BY <1>3, <1>9, <2>1 DEF Clear
<1>10. CASE Restart
  BY <1>10 DEF Restart, CachedSpent
<1>11. QED
  BY <1>5, <1>6, <1>7, <1>8, <1>9, <1>10, CacheWriters

LEMMA UsageStep ==
  ASSUME TypeOK, UsageInv, [Next]_vars
  PROVE  UsageInv'
<1>1. CachedSpent'
  BY CachedSpentStep DEF UsageInv
<1>2. QueuedSpent'
  <2> SUFFICES ASSUME NEW i \in 1..Len(queue'), queue'[i].op = "flush"
               PROVE  queue'[i].count <= spent'[queue'[i].acct][queue'[i].start]
    BY DEF QueuedSpent
  <2>1. ASSUME NEW j \in 1..Len(queue), queue'[i] = queue[j]
        PROVE  queue'[i].count <= spent'[queue'[i].acct][queue'[i].start]
    <3>1. queue[j] \in Command
      BY DEF TypeOK, QueueOK
    <3>2. queue[j].acct \in Accounts /\ queue[j].count \in Nat /\ queue[j].start \in Days
      BY <2>1, <3>1, CommandCases
    <3>3. queue[j].count <= spent[queue[j].acct][queue[j].start]
      BY <2>1 DEF UsageInv, QueuedSpent
    <3>4. QED
      BY <2>1, <3>2, <3>3, SpentRises
  <2>2. ASSUME NEW a \in Accounts, cache[a] # None,
               queue'[i] = [op |-> "flush", acct |-> a,
                            count |-> cache[a].count, start |-> cache[a].start]
        PROVE  queue'[i].count <= spent'[queue'[i].acct][queue'[i].start]
    <3>1. cache[a].count \in Nat /\ cache[a].start \in Days
      BY <2>2, CachedEntry
    <3>2. cache[a].count <= spent[a][cache[a].start]
      BY <2>2 DEF UsageInv, CachedSpent
    <3>3. cache[a].count <= spent'[a][cache[a].start]
      BY <3>1, <3>2, SpentRises
    <3>4. QED
      BY <2>2, <3>3
  <2>3. QED
    BY <2>1, <2>2, QueuedFlushes
<1>3. StoredSpent'
  <2>1. stored' = stored \/ UpsertUsage
    BY DEF vars, persistent, Next, SessionRequest, Login, StartCharge, StartCredentialChange,
       StartPlanChange, ResolveRead, ResolveFill, ChargeRead, ChargeFill, PlanRead, Enqueue, Clear,
       Finish, Disconnect, Commit, CommitFails, FlushUsage, Tick, Restart
  <2>2. stored \in [Accounts -> [Days -> Nat]]
    BY DEF TypeOK, RowsOK
  <2>3. \A a \in Accounts, d \in Days : stored[a][d] <= spent'[a][d]
    BY <2>2, SpentRises DEF UsageInv, StoredSpent
  <2>4. CASE stored' = stored
    BY <2>3, <2>4 DEF StoredSpent
  <2>5. CASE UpsertUsage /\ stored' # stored
    <3> DEFINE c == Head(queue)
    <3>1. c.acct \in Accounts /\ c.count \in Nat /\ c.start \in Days
          /\ queue # <<>> /\ c.op = "flush"
      BY <2>5, HeadAndTail, CommandCases DEF UpsertUsage, TypeOK
    <3>2. c = queue[1] /\ 1 \in 1..Len(queue)
      BY <3>1, HeadAndTail DEF TypeOK
    <3>3. c.count <= spent[c.acct][c.start]
      BY <3>1, <3>2 DEF UsageInv, QueuedSpent
    <3>4. c.count <= spent'[c.acct][c.start]
      BY <3>1, <3>3, SpentRises
    <3>5. stored' = [stored EXCEPT ![c.acct][c.start] = c.count]
      BY <2>5 DEF UpsertUsage
    <3> HIDE DEF c
    <3>6. \A a \in Accounts, d \in Days :
            stored'[a][d] = IF a = c.acct /\ d = c.start THEN c.count ELSE stored[a][d]
      BY <2>2, <3>1, <3>5
    <3>7. QED
      BY <2>3, <3>1, <3>4, <3>6 DEF StoredSpent
  <2>6. QED
    BY <2>1, <2>4, <2>5
<1>4. QED
  BY <1>1, <1>2, <1>3 DEF UsageInv

LEMMA UsageInvariant == Spec => []UsageInv
<1>1. Init => UsageInv
  BY DEF Init, UsageInv, CachedSpent, QueuedSpent, StoredSpent
<1>2. TypeOK /\ UsageInv /\ [Next]_vars => UsageInv'
  BY UsageStep
<1>3. QED
  BY <1>1, <1>2, TypeCorrect, PTL DEF Spec

\* No request is billed twice and none of an earlier period is, for any quotas, any
\* length of the channel and any failures of the writer: the record of a period, the
\* counts on their way to it and the usage reported are never above what was admitted.
THEOREM UsageIsNeverOverstated == Spec => []UsageNeverOverstated
<1>1. TypeOK /\ UsageInv => UsageNeverOverstated
  <2> SUFFICES ASSUME TypeOK, UsageInv, NEW a \in Accounts
               PROVE  /\ \A d \in Days : stored[a][d] <= spent[a][d]
                      /\ ReportedUsage(a) <= spent[a][CurrentPeriodStart(plan[a], day)]
    BY DEF UsageNeverOverstated
  <2>1. CurrentPeriodStart(plan[a], day) \in Days
    BY PeriodStarts DEF TypeOK, RowsOK
  <2>2. QED
    BY <2>1 DEF UsageInv, StoredSpent, CachedSpent, ReportedUsage
<1>2. QED
  BY <1>1, UsageInvariant, TypeCorrect, PTL

-----------------------------------------------------------------------------
(* Staleness.  An entry of another plan or version than its row's is there   *)
(* only with a change about to clear it, or with a reason on record; and an  *)
(* entry that only an API key request made has at least the row's plan.      *)

Pending(a) == \E t \in Tasks : task[t].pc = "acked" /\ task[t].acct = a

\* An entry of plan p and version v beside a row and the reasons recorded for it.
Excused(e, p, v, reasons) ==
  /\ e.plan = p \/ ~(reasons \subseteq {"apikey"})
  /\ e.ver = v \/ reasons # {}

StaleInv ==
  \A a \in Accounts :
    cache[a] # None => Pending(a) \/ Excused(cache[a], plan[a], version[a], drift[a])

\* A handler that has its reply and has not cleared the entry yet goes on to clear
\* it, unless it is dropped.
LEMMA AckedStands ==
  ASSUME TypeOK, [Next]_vars, NEW u \in Tasks, task[u].pc = "acked",
         ~Clear(u), ~Disconnect(u), ~Restart
  PROVE  task'[u] = task[u]
<1>1. task \in [Tasks -> Request]
  BY DEF TypeOK, RequestsOK
<1>2. ASSUME NEW t \in Tasks, NEW r, task' = [task EXCEPT ![t] = r], t # u
      PROVE  task'[u] = task[u]
  BY <1>1, <1>2
<1>3. ASSUME NEW t \in Tasks, NEW a \in Accounts,
             \/ \E v \in minted[a] : SessionRequest(t, a, v)
             \/ Login(t, a) \/ StartCharge(t, a) \/ StartCredentialChange(t, a)
             \/ \E p \in Plans : StartPlanChange(t, a, p)
      PROVE  task'[u] = task[u]
  <2>1. t # u
    BY <1>3 DEF SessionRequest, Login, StartCharge, StartCredentialChange, StartPlanChange, Starts
  <2>2. \A x \in Tasks : x # t => task'[x] = task[x]
    BY <1>1, <1>3 DEF SessionRequest, Login, StartCharge, StartCredentialChange, StartPlanChange
  <2>3. QED
    BY <2>1, <2>2
<1>4. ASSUME NEW t \in Tasks, ResolveRead(t) \/ ResolveFill(t) PROVE task'[u] = task[u]
  BY <1>1, <1>4 DEF ResolveRead, ResolveFill
<1>5. ASSUME NEW t \in Tasks, ChargeRead(t) \/ ChargeFill(t) PROVE task'[u] = task[u]
  BY <1>1, <1>5 DEF ChargeRead, ChargeFill
<1>6. ASSUME NEW t \in Tasks, PlanRead(t) \/ Enqueue(t) \/ Finish(t) PROVE task'[u] = task[u]
  BY <1>1, <1>6 DEF PlanRead, Enqueue, Finish
<1>7. ASSUME NEW t \in Tasks, Clear(t) \/ Disconnect(t) PROVE task'[u] = task[u]
  BY <1>1, <1>7 DEF Clear, Disconnect
<1>8. CASE Commit
  <2>1. /\ Head(queue).task \in Tasks /\ Waiting(Head(queue).task)
        /\ \E r : task' = [task EXCEPT ![Head(queue).task] = r]
    BY <1>8, CommitRow
  <2>2. QED
    BY <1>2, <2>1 DEF Waiting
<1>9. CASE CommitFails
  BY <1>2, <1>9, HeadChange DEF CommitFails, Waiting
<1>10. CASE UNCHANGED vars
  BY <1>10 DEF vars
<1>11. CASE UpsertUsage \/ Tick \/ \E a \in Accounts : FlushUsage(a)
  BY <1>11 DEF UpsertUsage, Tick, FlushUsage
<1>12. QED
  BY <1>3, <1>4, <1>5, <1>6, <1>7, <1>8, <1>9, <1>10, <1>11 DEF Next

\* So a change stays about to clear an account's entry, unless this step clears it
\* or its handler is dropped.
LEMMA PendingStands ==
  ASSUME TypeOK, [Next]_vars, ~Restart, NEW a \in Accounts, Pending(a),
         \A t \in Tasks : task[t].acct = a => ~Clear(t) /\ ~(Disconnect(t) /\ task[t].pc = "acked")
  PROVE  Pending(a)'
BY AckedStands DEF Pending

\* What the clearing of an entry leaves, and what a dropped handler leaves.
LEMMA ClearedEntry ==
  ASSUME TypeOK, NEW t \in Tasks, Clear(t)
  PROVE  /\ task[t].acct \in Accounts /\ cache'[task[t].acct] = None
         /\ \A b \in Accounts : b # task[t].acct => cache'[b] = cache[b] /\ drift'[b] = drift[b]
         /\ plan' = plan /\ version' = version
<1>1. task[t].acct \in Accounts
  BY DEF Clear, TypeOK, RequestsOK, RequestOK
<1>2. QED
  BY <1>1 DEF Clear, TypeOK, CacheOK, HistoryOK, persistent

LEMMA DroppedHandler ==
  ASSUME TypeOK, NEW t \in Tasks, Disconnect(t)
  PROVE  LET a == task[t].acct
         IN /\ a \in Accounts /\ UNCHANGED <<cache, plan, version>>
            /\ task[t].pc = "acked" /\ cache[a] # None => "abandoned" \in drift'[a]
            /\ \A b \in Accounts :
                 drift'[b] = drift[b] \/ (b = a /\ task[t].pc = "acked" /\ cache[a] # None)
<1>1. task[t].acct \in Accounts /\ drift \in [Accounts -> SUBSET {"overlap", "apikey", "abandoned"}]
  BY DEF Disconnect, TypeOK, RequestsOK, RequestOK, HistoryOK
<1>2. QED
  BY <1>1 DEF Disconnect, persistent

\* What a fill leaves of the entry and the reasons.
LEMMA ResolveFilled ==
  ASSUME TypeOK, NEW t \in Tasks, ResolveFill(t)
  PROVE  LET r == task[t]
             a == r.acct
         IN /\ a \in Accounts /\ UNCHANGED <<plan, version>>
            /\ \/ UNCHANGED <<cache, drift>>
               \/ /\ cache'[a].plan = r.plan /\ cache'[a].ver = r.ver
                  /\ drift'[a] = Overlap(a, r.plan, r.ver)
                  /\ \A b \in Accounts : b # a => cache'[b] = cache[b] /\ drift'[b] = drift[b]
<1> DEFINE r == task[t]
           a == r.acct
           f == Fresh(r.plan, day, r.ver)
<1>1. a \in Accounts /\ r.plan \in Plans /\ r.ver \in Nat /\ day \in Days
  BY DEF ResolveFill, TypeOK, RowsOK, RequestsOK, RequestOK, Request
<1>2. f.plan = r.plan /\ f.ver = r.ver
  BY <1>1, FreshEntry
<1>3. /\ UNCHANGED <<plan, version>>
      /\ \/ UNCHANGED <<cache, drift>>
         \/ cache' = [cache EXCEPT ![a] = f] /\ drift' = [drift EXCEPT ![a] = Overlap(a, r.plan, r.ver)]
  BY DEF ResolveFill, persistent
<1> HIDE DEF f
<1>4. QED
  BY <1>1, <1>2, <1>3 DEF TypeOK, CacheOK, HistoryOK

\* What a charge on the cold path leaves of them.
LEMMA ChargeFillLeaves ==
  ASSUME TypeOK, NEW t \in Tasks, ChargeFill(t)
  PROVE  LET r == task[t]
             a == r.acct
             e == Rolled(cache[a], r.plan, r.now)
         IN /\ cache'[a].plan = e.plan /\ cache'[a].ver = e.ver /\ cache'[a].start = e.start
            /\ drift'[a] = IF e = cache[a] THEN drift[a]
                           ELSE Overlap(a, r.plan, version[a])
                                  \cup (IF cache[a] # None THEN drift[a]
                                        ELSE IF version[a] = 0 THEN {} ELSE {"apikey"})
            /\ \A b \in Accounts : b # a => cache'[b] = cache[b] /\ drift'[b] = drift[b]
            /\ UNCHANGED <<plan, version>>
<1> DEFINE r == task[t]
           a == r.acct
           e == Rolled(cache[a], r.plan, r.now)
           d == IF e = cache[a] THEN drift[a]
                ELSE Overlap(a, r.plan, version[a])
                       \cup (IF cache[a] # None THEN drift[a]
                             ELSE IF version[a] = 0 THEN {} ELSE {"apikey"})
<1>1. /\ a \in Accounts /\ e \in Entry
      /\ \/ AtLimit(e) /\ cache' = [cache EXCEPT ![a] = e] /\ spent' = spent
         \/ ~AtLimit(e) /\ Spend(a, e)
  BY ChargeFilled
<1>2. drift' = [drift EXCEPT ![a] = d] /\ UNCHANGED <<plan, version>>
  BY DEF ChargeFill, persistent
<1> HIDE DEF e, d
<1>3. drift'[a] = d /\ \A b \in Accounts : b # a => drift'[b] = drift[b]
  BY <1>1, <1>2 DEF TypeOK, HistoryOK
<1>4. /\ cache'[a].plan = e.plan /\ cache'[a].ver = e.ver /\ cache'[a].start = e.start
      /\ \A b \in Accounts : b # a => cache'[b] = cache[b]
  <2>1. CASE cache' = [cache EXCEPT ![a] = e]
    BY <1>1, <2>1 DEF TypeOK, CacheOK
  <2>2. CASE Spend(a, e)
    BY <1>1, <2>2, SpendCounts
  <2>3. QED
    BY <1>1, <2>1, <2>2
<1>5. QED
  BY <1>2, <1>3, <1>4 DEF e, d

LEMMA NewEntryExcused ==
  ASSUME TypeOK, NEW t \in Tasks, ChargeFill(t), Rolled(cache[task[t].acct], task[t].plan, task[t].now) # cache[task[t].acct],
         cache[task[t].acct] # None => Pending(task[t].acct) \/ cache[task[t].acct].ver = version[task[t].acct] \/ drift[task[t].acct] # {}
  PROVE  LET a == task[t].acct
         IN Pending(a) \/ Excused(cache'[a], plan[a], version[a], drift'[a])
<1> DEFINE r == task[t]
           a == r.acct
           e == Rolled(cache[a], r.plan, r.now)
<1>1. /\ a \in Accounts /\ r.plan \in Plans /\ r.now \in Days /\ cache[a] \in Entry \cup {None}
  BY ChargeFilled
<1>2. /\ cache[a] = None => e.plan = r.plan /\ e.ver = 0
      /\ cache[a] # None => e.plan = r.plan /\ e.ver = cache[a].ver
  BY <1>1, RolledEntry, FreshEntry
<1>3. /\ cache'[a].plan = e.plan /\ cache'[a].ver = e.ver
      /\ drift'[a] = Overlap(a, r.plan, version[a])
                       \cup (IF cache[a] # None THEN drift[a]
                             ELSE IF version[a] = 0 THEN {} ELSE {"apikey"})
  BY ChargeFillLeaves
<1> HIDE DEF e
<1>4. CASE r.plan # plan[a]
  <2>1. "overlap" \in drift'[a]
    BY <1>3, <1>4 DEF Overlap
  <2>2. QED
    BY <2>1 DEF Excused
<1>5. CASE r.plan = plan[a]
  BY <1>2, <1>3, <1>5 DEF Excused
<1>6. QED
  BY <1>4, <1>5

LEMMA StaleStep ==
  ASSUME TypeOK, StaleInv, [Next]_vars
  PROVE  StaleInv'
<1> SUFFICES ASSUME NEW a \in Accounts, cache'[a] # None
             PROVE  Pending(a)' \/ Excused(cache'[a], plan'[a], version'[a], drift'[a])
  BY DEF StaleInv
<1> DEFINE Goal == Pending(a)' \/ Excused(cache'[a], plan'[a], version'[a], drift'[a])
<1>1. cache[a] # None => Pending(a) \/ Excused(cache[a], plan[a], version[a], drift[a])
  BY DEF StaleInv
<1>2. ~Restart
  BY DEF Restart
\* A handler that clears the entry of this account leaves none.
<1>3. \A t \in Tasks : task[t].acct = a => ~Clear(t)
  BY ClearedEntry
<1>4. ASSUME NEW t \in Tasks, Disconnect(t), task[t].acct = a, task[t].pc = "acked" PROVE Goal
  <2>1. "abandoned" \in drift'[a]
    BY <1>4, DroppedHandler
  <2>2. QED
    BY <2>1 DEF Excused
<1>5. CASE \E t \in Tasks : task[t].acct = a /\ Disconnect(t) /\ task[t].pc = "acked"
  BY <1>4, <1>5
<1>6. CASE ~\E t \in Tasks : task[t].acct = a /\ Disconnect(t) /\ task[t].pc = "acked"
  <2>1. Pending(a) => Pending(a)'
    BY <1>2, <1>3, <1>6, PendingStands
  \* Steps that leave the account's entry, row and reasons as they are.
  <2>2. CASE /\ cache[a] # None /\ cache'[a].plan = cache[a].plan /\ cache'[a].ver = cache[a].ver
             /\ plan'[a] = plan[a] /\ version'[a] = version[a] /\ drift'[a] = drift[a]
    BY <1>1, <2>1, <2>2 DEF Excused
  <2>3. CASE UNCHANGED <<cache, plan, version, drift>>
    BY <2>2, <2>3
  <2>4. ASSUME NEW t \in Tasks, Clear(t) PROVE Goal
    BY <1>3, <2>2, <2>4, ClearedEntry
  <2>5. ASSUME NEW t \in Tasks, Disconnect(t) PROVE Goal
    BY <1>6, <2>2, <2>5, DroppedHandler
  <2>6. ASSUME NEW t \in Tasks, ResolveFill(t) PROVE Goal
    <3>1. CASE UNCHANGED <<cache, drift>>
      BY <2>3, <2>6, <3>1, ResolveFilled
    <3>2. CASE task[t].acct # a
      BY <2>2, <2>6, <3>2, ResolveFilled
    <3>3. CASE task[t].acct = a /\ ~UNCHANGED <<cache, drift>>
      <4>1. /\ cache'[a].plan = task[t].plan /\ cache'[a].ver = task[t].ver
            /\ drift'[a] = Overlap(a, task[t].plan, task[t].ver)
            /\ plan' = plan /\ version' = version
        BY <2>6, <3>3, ResolveFilled
      <4>2. QED
        BY <4>1 DEF Overlap, Excused
    <3>4. QED
      BY <3>1, <3>2, <3>3
  <2>7. ASSUME NEW t \in Tasks, ChargeFill(t) PROVE Goal
    <3> DEFINE r == task[t]
               e == Rolled(cache[r.acct], r.plan, r.now)
    <3>1. CASE r.acct # a
      BY <2>2, <2>7, <3>1, ChargeFillLeaves
    <3>2. CASE r.acct = a /\ e = cache[a]
      <4>1. e # None
        BY <2>7, NoEntryAssumption, ChargeFilled
      <4>2. /\ cache'[a].plan = e.plan /\ cache'[a].ver = e.ver /\ drift'[a] = drift[a]
            /\ plan' = plan /\ version' = version
        BY <2>7, <3>2, ChargeFillLeaves
      <4>3. QED
        BY <2>2, <3>2, <4>1, <4>2
    <3>3. CASE r.acct = a /\ e # cache[a]
      <4>1. Pending(a) \/ Excused(cache'[a], plan[a], version[a], drift'[a])
        BY <1>1, <2>7, <3>3, NewEntryExcused DEF Excused
      <4>2. plan' = plan /\ version' = version
        BY <2>7, ChargeFillLeaves
      <4>3. QED
        BY <2>1, <4>1, <4>2
    <3>4. QED
      BY <3>1, <3>2, <3>3
  <2>8. ASSUME NEW t \in Tasks, NEW b \in Accounts, StartCharge(t, b) PROVE Goal
    <3>1. UNCHANGED <<plan, version, drift>>
      BY <2>8 DEF StartCharge, persistent
    <3>2. cache' = cache \/ (cache[b] # None /\ Spend(b, cache[b]))
      BY <2>8 DEF StartCharge
    <3>3. cache[a] # None /\ cache'[a].plan = cache[a].plan /\ cache'[a].ver = cache[a].ver
      BY <3>2, CachedEntry, SpendCounts
    <3>4. QED
      BY <2>2, <3>1, <3>3
  <2>9. CASE Commit
    <3> DEFINE t == Head(queue).task
    <3>1. /\ t \in Tasks /\ Waiting(t) /\ task[t].acct \in Accounts /\ cache' = cache
          /\ task' = [task EXCEPT ![t] = IF task[t].pc = "gone" THEN Blank
                                 ELSE [task[t] EXCEPT !.pc = "acked", !.ver = version'[task[t].acct]]]
          /\ drift' = [drift EXCEPT ![task[t].acct] =
               IF task[t].pc = "gone" /\ cache[task[t].acct] # None THEN @ \cup {"abandoned"} ELSE @]
      BY <2>9, CommitRow
    <3>2. \A b \in Accounts : b # task[t].acct => plan'[b] = plan[b] /\ version'[b] = version[b]
      BY <2>9 DEF Commit, TypeOK, RowsOK
    <3> HIDE DEF t
    <3>3. CASE task[t].acct # a
      BY <2>2, <3>1, <3>2, <3>3 DEF TypeOK, HistoryOK
    <3>4. CASE task[t].acct = a /\ task[t].pc = "gone"
      <4>1. "abandoned" \in drift'[a]
        BY <3>1, <3>4 DEF TypeOK, HistoryOK
      <4>2. QED
        BY <4>1 DEF Excused
    <3>5. CASE task[t].acct = a /\ task[t].pc # "gone"
      <4>1. task'[t].pc = "acked" /\ task'[t].acct = a
        BY <3>1, <3>5 DEF TypeOK, RequestsOK, Request
      <4>2. QED
        BY <3>1, <4>1 DEF Pending
    <3>6. QED
      BY <3>3, <3>4, <3>5
  <2>10. \/ UNCHANGED <<cache, plan, version, drift>>
         \/ \E t \in Tasks : ResolveFill(t) \/ ChargeFill(t) \/ Clear(t) \/ Disconnect(t)
         \/ \E t \in Tasks, b \in Accounts : StartCharge(t, b)
         \/ Commit
    <3>1. CASE UNCHANGED vars
      BY <3>1 DEF vars, persistent, history
    <3>2. ASSUME NEW t \in Tasks, NEW b \in Accounts,
                 \/ \E v \in minted[b] : SessionRequest(t, b, v)
                 \/ Login(t, b) \/ StartCredentialChange(t, b)
                 \/ \E p \in Plans : StartPlanChange(t, b, p)
          PROVE  UNCHANGED <<cache, plan, version, drift>>
      BY <3>2 DEF persistent, history, SessionRequest, Login, StartCredentialChange, StartPlanChange
    <3>3. ASSUME NEW t \in Tasks,
                 ResolveRead(t) \/ ChargeRead(t) \/ PlanRead(t) \/ Enqueue(t) \/ Finish(t)
          PROVE  UNCHANGED <<cache, plan, version, drift>>
      BY <3>3 DEF persistent, history, ResolveRead, ChargeRead, PlanRead, Enqueue, Finish
    <3>4. CASE CommitFails \/ UpsertUsage \/ Tick \/ \E b \in Accounts : FlushUsage(b)
      BY <3>4 DEF persistent, history, CommitFails, UpsertUsage, Tick, FlushUsage
    <3>5. QED
      BY <1>2, <3>1, <3>2, <3>3, <3>4 DEF Next
  <2>11. QED
    BY <2>3, <2>4, <2>5, <2>6, <2>7, <2>8, <2>9, <2>10
<1>7. QED
  BY <1>5, <1>6

LEMMA StaleInvariant == Spec => []StaleInv
<1>1. Init => StaleInv
  BY DEF Init, StaleInv
<1>2. TypeOK /\ StaleInv /\ [Next]_vars => StaleInv'
  BY StaleStep
<1>3. QED
  BY <1>1, <1>2, TypeCorrect, PTL DEF Spec

\* However many requests, fills, charges and changes overlap, an entry disagrees with
\* its row only with a change about to clear it or one of three reasons on record: every
\* other order of the handlers' steps is safe.
THEOREM StalenessIsExplained == Spec => []StaleOnlyForAKnownReason
<1>1. StaleInv => StaleOnlyForAKnownReason
  BY DEF StaleInv, StaleOnlyForAKnownReason, Excused, Pending
<1>2. QED
  BY <1>1, StaleInvariant, PTL

-----------------------------------------------------------------------------
(* Periods.                                                                  *)

LEMMA Quotient ==
  ASSUME NEW x \in Int, NEW m \in Int, m > 0
  PROVE  x \div m \in Int /\ x % m \in 0..m - 1 /\ x % m = x - m * (x \div m)
<1>1. x % m \in 0..m - 1 /\ x \div m \in Int
  OBVIOUS
<1>2. x % m = x - m * (x \div m)
  OBVIOUS
<1>3. QED
  BY <1>1, <1>2

\* A number is in a block of m that begins no later than the block of another ends.
LEMMA Blocks ==
  ASSUME NEW m \in Int, m > 0, NEW q \in Int, NEW k \in Int,
         NEW i \in 0..m - 1, NEW j \in 0..m - 1, m * q <= m * k + j
  PROVE  m * q + i < m * k + m
<1>1. q <= k
  <2> SUFFICES ASSUME q - k - 1 >= 0 PROVE FALSE
    OBVIOUS
  <2>1. m * (q - k - 1) >= 0
    OBVIOUS
  <2>2. m * (q - k - 1) = m * q - m * k - m
    OBVIOUS
  <2>3. m * q \in Int /\ m * k \in Int
    OBVIOUS
  <2>4. QED
    BY <2>1, <2>2, <2>3
<1>2. m * (k - q) >= 0
  BY <1>1
<1>3. m * (k - q) = m * k - m * q
  OBVIOUS
<1>4. m * q \in Int /\ m * k \in Int
  OBVIOUS
<1>5. QED
  BY <1>2, <1>3, <1>4

\* A day lies in its period.
LEMMA PeriodHolds ==
  ASSUME NEW p, NEW d \in Days, NEW s \in Days, CurrentPeriodStart(p, d) <= s
  PROVE  d < PeriodEnd(p, s)
<1>1. DaysPerMonth \in Nat \ {0} /\ d \in Nat /\ s \in Nat
  BY AccountCacheAssumption DEF Days
<1>2. CASE p \in DailyPlans
  BY <1>1, <1>2 DEF CurrentPeriodStart, PeriodEnd
<1>3. CASE p \notin DailyPlans
  <2>1. DaysPerMonth \in Int /\ DaysPerMonth > 0 /\ d \in Int /\ s \in Int
    BY <1>1
  <2>2. PICK q \in Int, i \in 0..DaysPerMonth - 1 : d % DaysPerMonth = i /\ i = d - DaysPerMonth * q
    BY <2>1, Quotient
  <2>3. PICK k \in Int, j \in 0..DaysPerMonth - 1 : s % DaysPerMonth = j /\ j = s - DaysPerMonth * k
    BY <2>1, Quotient
  <2>4. d - i <= s
    BY <1>3, <2>1, <2>2 DEF CurrentPeriodStart
  <2>5. DaysPerMonth * q \in Int /\ DaysPerMonth * k \in Int
    BY <2>1
  <2>6. DaysPerMonth * q <= DaysPerMonth * k + j
    BY <2>1, <2>2, <2>3, <2>4, <2>5
  <2>7. DaysPerMonth * q + i < DaysPerMonth * k + DaysPerMonth
    BY <2>1, <2>6, Blocks
  <2>8. d < s - j + DaysPerMonth
    BY <2>1, <2>2, <2>3, <2>5, <2>7
  <2>9. QED
    BY <1>3, <2>1, <2>3, <2>8 DEF PeriodEnd
<1>4. QED
  BY <1>2, <1>3

\* An entry the cold path leaves, of the plan the request has read, is of a period the
\* request's clock is in or before.
LEMMA RolledInPeriod ==
  ASSUME NEW e \in Entry \cup {None}, NEW p \in Plans, NEW d \in Days,
         e # None => e.plan = p \/ Rolled(e, p, d) # e
  PROVE  d < PeriodEnd(Rolled(e, p, d).plan, Rolled(e, p, d).start)
<1> DEFINE f == Rolled(e, p, d)
<1>1. f \in Entry /\ CurrentPeriodStart(p, d) \in Days
  BY RolledEntry, PeriodStarts
<1>2. f.plan = p /\ CurrentPeriodStart(p, d) <= f.start
  <2>1. CASE e = None
    BY <1>1, <2>1 DEF Rolled, Fresh, Days
  <2>2. CASE e # None /\ e.start < CurrentPeriodStart(p, d)
    BY <1>1, <2>2 DEF Rolled, Entry, Days
  <2>3. CASE e # None /\ ~(e.start < CurrentPeriodStart(p, d))
    BY <1>1, <2>3 DEF Rolled, Entry, Days
  <2>4. QED
    BY <2>1, <2>2, <2>3
<1>3. f.start \in Days
  BY <1>1 DEF Entry
<1> HIDE DEF f
<1>4. d < PeriodEnd(p, f.start)
  BY <1>2, <1>3, PeriodHolds
<1>5. QED
  BY <1>2, <1>4 DEF f

\* Only the cold path turns a request that has read its plan into a charged one.
LEMMA ChargedBy ==
  ASSUME TypeOK, [Next]_vars, NEW t \in Tasks, task[t].job = "charge", task[t].pc = "fill",
         task'[t].pc = "charged"
  PROVE  ChargeFill(t)
<1>1. task \in [Tasks -> Request]
  BY DEF TypeOK, RequestsOK
<1>2. ASSUME NEW u \in Tasks, NEW a \in Accounts,
             \/ \E v \in minted[a] : SessionRequest(u, a, v)
             \/ Login(u, a) \/ StartCharge(u, a) \/ StartCredentialChange(u, a)
             \/ \E p \in Plans : StartPlanChange(u, a, p)
      PROVE  FALSE
  <2>1. u # t
    BY <1>2 DEF SessionRequest, Login, StartCharge, StartCredentialChange, StartPlanChange, Starts
  <2>2. \A x \in Tasks : x # u => task'[x] = task[x]
    BY <1>1, <1>2 DEF SessionRequest, Login, StartCharge, StartCredentialChange, StartPlanChange
  <2>3. QED
    BY <2>1, <2>2
<1>3. ASSUME NEW u \in Tasks, ResolveRead(u) \/ ResolveFill(u) PROVE FALSE
  BY <1>1, <1>3 DEF ResolveRead, ResolveFill
<1>4. ASSUME NEW u \in Tasks, u # t, ChargeRead(u) \/ ChargeFill(u) PROVE FALSE
  BY <1>1, <1>4 DEF ChargeRead, ChargeFill
<1>5. ~ChargeRead(t)
  BY DEF ChargeRead
<1>6. ASSUME NEW u \in Tasks, PlanRead(u) \/ Enqueue(u) \/ Finish(u) \/ Clear(u) PROVE FALSE
  BY <1>1, <1>6 DEF PlanRead, Enqueue, Finish, Clear
<1>7. ASSUME NEW u \in Tasks, Disconnect(u) PROVE FALSE
  BY <1>1, <1>7 DEF Disconnect, Blank
<1>8. CASE Commit
  <2>1. /\ Head(queue).task \in Tasks /\ Waiting(Head(queue).task)
        /\ \E r : task' = [task EXCEPT ![Head(queue).task] = r]
    BY <1>8, CommitRow
  <2>2. QED
    BY <1>1, <2>1 DEF Waiting
<1>9. CASE CommitFails
  BY <1>1, <1>9, HeadChange DEF CommitFails, Waiting
<1>10. CASE UNCHANGED vars
  BY <1>10 DEF vars
<1>11. CASE UpsertUsage \/ Tick \/ \E a \in Accounts : FlushUsage(a)
  BY <1>11 DEF UpsertUsage, Tick, FlushUsage
<1>12. CASE Restart
  BY <1>12 DEF Restart, Blank
<1>13. QED
  BY <1>2, <1>3, <1>4, <1>5, <1>6, <1>7, <1>8, <1>9, <1>10, <1>11, <1>12 DEF Next

\* A charge on the cold path is of a period that was not over when the request started,
\* for any plans, months and number of requests, as long as no change of plan is about.
THEOREM ChargesAreCurrent == Spec => ChargedInCurrentPeriod
<1> DEFINE Charged(t) ==
             LET r == task[t]
                 e == cache'[r.acct]
             IN (/\ r.job = "charge" /\ r.pc = "fill" /\ task'[t].pc = "charged"
                 /\ r.plan = plan[r.acct] /\ drift[r.acct] \subseteq {"apikey"}
                 /\ ~\E u \in Tasks : task[u].pc = "acked" /\ task[u].acct = r.acct)
                  => r.now < PeriodEnd(e.plan, e.start)
<1>1. ASSUME TypeOK, StaleInv, [Next]_vars, NEW t \in Tasks PROVE Charged(t)
  <2> DEFINE r == task[t]
             a == r.acct
             e == Rolled(cache[a], r.plan, r.now)
  <2> SUFFICES ASSUME r.job = "charge", r.pc = "fill", task'[t].pc = "charged",
                      r.plan = plan[a], drift[a] \subseteq {"apikey"}, ~Pending(a)
               PROVE  r.now < PeriodEnd(cache'[a].plan, cache'[a].start)
    BY DEF Pending
  <2>1. ChargeFill(t)
    BY <1>1, ChargedBy
  <2>2. /\ a \in Accounts /\ r.plan \in Plans /\ r.now \in Days /\ cache[a] \in Entry \cup {None}
        /\ cache'[a].plan = e.plan /\ cache'[a].start = e.start
    BY <1>1, <2>1, ChargeFilled, ChargeFillLeaves
  <2>3. cache[a] # None => cache[a].plan = r.plan
    BY <1>1, <2>2 DEF StaleInv, Excused
  <2>4. r.now < PeriodEnd(e.plan, e.start)
    BY <2>2, <2>3, RolledInPeriod
  <2>5. QED
    BY <2>2, <2>4
<1>2. TypeOK /\ StaleInv /\ [Next]_vars
       => [\A t \in Tasks : Charged(t)]_vars
  BY <1>1
<1>3. QED
  BY <1>2, TypeCorrect, StaleInvariant, PTL DEF Spec, ChargedInCurrentPeriod
=============================================================================
