------------------------------ MODULE DbWriter ------------------------------
(***************************************************************************)
(* The database writer (db_writer.rs): one task that owns the writing       *)
(* connection, fed through a bounded channel in two ways.  A handler sends  *)
(* a command with a oneshot sender and awaits the reply; a poller fires a   *)
(* command, which is dropped if the channel has no room.                    *)
(*                                                                         *)
(* A send takes a permit first and a place in the channel second.  tokio's  *)
(* semaphore hands a returned permit to the handler that has waited longest *)
(* and makes it available to others only if nobody waits.                   *)
(***************************************************************************)
EXTENDS Integers, Sequences, FiniteSets

CONSTANTS
  Handlers,   \* those who await a reply
  Firers,     \* those who do not: pollers, the flush, webhook senders
  None,
  QueueCap,   \* places in the channel
  Faults,     \* "dberror", "disconnect", "panic", "restart"
  MaxWrites   \* bound: writes by each

ASSUME DbWriterAssumption ==
  /\ Handlers \cap Firers = {} /\ IsFiniteSet(Handlers)
  /\ QueueCap \in Nat \ {0}
  /\ Faults \subseteq {"dberror", "disconnect", "panic", "restart"}
  /\ MaxWrites \in Nat

VARIABLES
  issued,    \* how many writes each has asked for
  pc,        \* what each handler's call waits for
  reply,     \* what is in the handler's oneshot channel
  told,      \* history: what each handler's latest call was answered
  permits,   \* permits nobody holds
  waiters,   \* handlers in line for a permit
  queue,     \* the channel
  current,   \* the command the writer has taken
  stage,     \* how far it has come with it
  alive,     \* is there a writer task
  effects    \* the writes committed, in order

callers == <<issued, pc, reply, told>>
channel == <<permits, waiters, queue>>
writer  == <<current, stage, alive>>
vars == <<callers, channel, writer, effects>>

Actors == Handlers \cup Firers
Write  == [by: Actors, n: Nat]

ASSUME NoWriteAssumption == None \notin Write

Granted == {h \in Handlers : pc[h] = "granted"}

\* The handler whose call w is, if its oneshot receiver is still there.
Awaits(h, w) == pc[h] = "replying" /\ w = [by |-> h, n |-> issued[h]]

TypeOK ==
  /\ issued \in [Actors -> Nat]
  /\ pc \in [Handlers -> {"idle", "waiting", "granted", "replying", "answered"}]
  /\ reply \in [Handlers -> {"nothing", "ok", "error"}]
  /\ told \in [Handlers -> {"nothing", "ok", "error", "closed"}]
  /\ permits \in 0..QueueCap
  /\ waiters \in Seq(Handlers)
  /\ queue \in Seq(Write)
  /\ current \in Write \cup {None}
  /\ stage \in {"taken", "ok", "error"}
  /\ alive \in BOOLEAN
  /\ effects \in Seq(Write)

Init ==
  /\ issued = [a \in Actors |-> 0]
  /\ pc = [h \in Handlers |-> "idle"]
  /\ reply = [h \in Handlers |-> "nothing"]
  /\ told = [h \in Handlers |-> "nothing"]
  /\ permits = QueueCap /\ waiters = <<>> /\ queue = <<>>
  /\ current = None /\ stage = "taken" /\ alive = TRUE
  /\ effects = <<>>

-----------------------------------------------------------------------------
\* A sequence without its i-th element.
Without(s, i) == [k \in 1..(Len(s) - 1) |-> IF k < i THEN s[k] ELSE s[k + 1]]

Issues(a) == issued[a] < MaxWrites /\ issued' = [issued EXCEPT ![a] = @ + 1]

\* A returned permit goes to the first in line; p is pc as the step leaves it
\* otherwise, and line the handlers still in line.
ReturnPermit(p, line) ==
  IF line = <<>>
    THEN permits' = permits + 1 /\ waiters' = line /\ pc' = p
    ELSE permits' = permits /\ waiters' = Tail(line) /\ pc' = [p EXCEPT ![Head(line)] = "granted"]

\* A handler calls create_user, update_password, or another awaited method.
Call(h) ==
  /\ alive /\ pc[h] = "idle"
  /\ Issues(h)
  /\ told' = [told EXCEPT ![h] = "nothing"]
  /\ IF permits > 0
       THEN permits' = permits - 1 /\ pc' = [pc EXCEPT ![h] = "granted"] /\ UNCHANGED waiters
       ELSE waiters' = Append(waiters, h) /\ pc' = [pc EXCEPT ![h] = "waiting"] /\ UNCHANGED permits
  /\ UNCHANGED <<reply, queue, writer, effects>>

\* The channel is closed: WriterClosed.
CallClosed(h) ==
  /\ ~alive /\ pc[h] = "idle"
  /\ Issues(h)
  /\ told' = [told EXCEPT ![h] = "closed"]
  /\ UNCHANGED <<pc, reply, channel, writer, effects>>

\* With its permit, the handler puts the command in the channel and awaits the
\* reply.
Push(h) ==
  /\ pc[h] = "granted"
  /\ queue' = Append(queue, [by |-> h, n |-> issued[h]])
  /\ pc' = [pc EXCEPT ![h] = "replying"]
  /\ UNCHANGED <<issued, reply, told, permits, waiters, writer, effects>>

\* Mutant of Fire: the channel has no bound.
FiresUnbounded(p) ==
  /\ Issues(p)
  /\ IF alive THEN queue' = Append(queue, [by |-> p, n |-> issued[p] + 1]) ELSE UNCHANGED queue
  /\ UNCHANGED <<permits, pc, reply, told, waiters, writer, effects>>

\* try_send: a permit is there at once, or the command is dropped.
Fire(p) ==
  /\ Issues(p)
  /\ IF alive /\ permits > 0
       THEN permits' = permits - 1 /\ queue' = Append(queue, [by |-> p, n |-> issued[p] + 1])
       ELSE UNCHANGED <<permits, queue>>
  /\ UNCHANGED <<pc, reply, told, waiters, writer, effects>>

-----------------------------------------------------------------------------
\* recv gives the permit back before the command is processed.
Take ==
  /\ alive /\ current = None /\ queue # <<>>
  /\ current' = Head(queue) /\ stage' = "taken"
  /\ queue' = Tail(queue)
  /\ ReturnPermit(pc, waiters)
  /\ UNCHANGED <<issued, reply, told, alive, effects>>

\* Mutant of Process: a command that failed goes to the back of the channel.
RequeuesOnError ==
  /\ current # None /\ stage = "taken"
  /\ \/ effects' = Append(effects, current) /\ stage' = "ok" /\ UNCHANGED <<queue, current>>
     \/ /\ "dberror" \in Faults
        /\ queue' = Append(queue, current) /\ current' = None
        /\ UNCHANGED <<stage, effects>>
  /\ UNCHANGED <<callers, permits, waiters, alive>>

\* Mutant of Process: it puts a command of its own into the channel, and awaits a
\* place for it.
AwaitsOwnChannel ==
  /\ current # None /\ stage = "taken"
  /\ permits > 0
  /\ effects' = Append(effects, current) /\ stage' = "ok"
  /\ UNCHANGED <<callers, channel, current, alive>>

\* The command's statement, or its transaction, commits, or fails and changes
\* nothing.
Process ==
  /\ current # None /\ stage = "taken"
  /\ \/ effects' = Append(effects, current) /\ stage' = "ok"
     \/ "dberror" \in Faults /\ stage' = "error" /\ UNCHANGED effects
  /\ UNCHANGED <<callers, channel, current, alive>>

\* Mutant of Reply: one reply channel for each handler, not for each call.
AnswersWhoeverWaits ==
  /\ current # None /\ stage # "taken"
  /\ LET hears == {h \in Handlers : pc[h] = "replying" /\ current.by = h}
     IN /\ pc' = [h \in Handlers |-> IF h \in hears THEN "answered" ELSE pc[h]]
        /\ reply' = [h \in Handlers |-> IF h \in hears THEN stage ELSE reply[h]]
  /\ current' = None /\ stage' = "taken"
  /\ UNCHANGED <<issued, told, channel, alive, effects>>

\* The result goes into the oneshot channel of the call, if its other end is
\* still held; for a fired command a failure is logged.
Reply ==
  /\ current # None /\ stage # "taken"
  /\ LET hears == {h \in Handlers : Awaits(h, current)}
     IN /\ pc' = [h \in Handlers |-> IF h \in hears THEN "answered" ELSE pc[h]]
        /\ reply' = [h \in Handlers |-> IF h \in hears THEN stage ELSE reply[h]]
  /\ current' = None /\ stage' = "taken"
  /\ UNCHANGED <<issued, told, channel, alive, effects>>

Return(h) ==
  /\ pc[h] = "answered"
  /\ told' = [told EXCEPT ![h] = reply[h]]
  /\ pc' = [pc EXCEPT ![h] = "idle"]
  /\ reply' = [reply EXCEPT ![h] = "nothing"]
  /\ UNCHANGED <<issued, channel, writer, effects>>

-----------------------------------------------------------------------------
\* The client goes away and the handler is dropped where it awaits: it leaves the
\* line, returns its permit, or drops its end of the oneshot channel.
Disconnect(h) ==
  /\ "disconnect" \in Faults
  /\ pc[h] # "idle"
  /\ told' = [told EXCEPT ![h] = "closed"]
  /\ reply' = [reply EXCEPT ![h] = "nothing"]
  /\ IF pc[h] = "granted"
       THEN ReturnPermit([pc EXCEPT ![h] = "idle"], waiters)
       ELSE /\ pc' = [pc EXCEPT ![h] = "idle"]
            /\ IF pc[h] = "waiting"
                 THEN \E i \in 1..Len(waiters) : waiters[i] = h /\ waiters' = Without(waiters, i)
                 ELSE UNCHANGED waiters
            /\ UNCHANGED permits
  /\ UNCHANGED <<issued, queue, writer, effects>>

\* A call that the death of the writer, or of its channel, puts an end to.
CutOff(h) == pc[h] \in {"waiting", "granted", "replying"}

\* process panics and takes the writer task, and the receiving end, with it.
\* Every call under way ends in WriterClosed and no write is accepted again.
WriterDies ==
  /\ "panic" \in Faults
  /\ alive /\ current # None
  /\ alive' = FALSE /\ current' = None /\ stage' = "taken"
  /\ queue' = <<>> /\ waiters' = <<>> /\ permits' = QueueCap
  /\ pc' = [h \in Handlers |-> IF CutOff(h) THEN "idle" ELSE pc[h]]
  /\ told' = [h \in Handlers |-> IF CutOff(h) THEN "closed" ELSE told[h]]
  /\ UNCHANGED <<issued, reply, effects>>

\* What is committed survives, and nothing else.
Restart ==
  /\ "restart" \in Faults
  /\ alive' = TRUE /\ current' = None /\ stage' = "taken"
  /\ queue' = <<>> /\ waiters' = <<>> /\ permits' = QueueCap
  /\ pc' = [h \in Handlers |-> "idle"]
  /\ reply' = [h \in Handlers |-> "nothing"]
  /\ told' = [h \in Handlers |-> IF pc[h] = "idle" THEN told[h] ELSE "closed"]
  /\ UNCHANGED <<issued, effects>>

Next ==
  \/ \E h \in Handlers : Call(h) \/ CallClosed(h) \/ Push(h) \/ Return(h) \/ Disconnect(h)
  \/ \E p \in Firers : Fire(p)
  \/ Take \/ Process \/ Reply \/ WriterDies \/ Restart

Spec == Init /\ [][Next]_vars

\* The writer task and a handler that can go on are scheduled in the end.
Fairness ==
  /\ WF_vars(Take) /\ WF_vars(Process) /\ WF_vars(Reply)
  /\ \A h \in Handlers : WF_vars(Push(h)) /\ WF_vars(Return(h))

FairSpec == Spec /\ Fairness

-----------------------------------------------------------------------------
\* What one actor asks for takes effect in the order it asked, each write at most
\* once: not twice, and not after a later one that overtook it while its caller
\* gave up and asked again.
ProgramOrder ==
  \A i, j \in 1..Len(effects) :
    i < j /\ effects[i].by = effects[j].by => effects[i].n < effects[j].n

\* Every place in the channel is accounted for, by a free permit, a handler that
\* holds one or a command, whichever handlers were dropped while they waited; and
\* a fired write never takes a permit past a handler in line for it.
NoPermitLost ==
  /\ permits + Cardinality(Granted) + Len(queue) = QueueCap
  /\ permits > 0 => waiters = <<>>

\* Every call ends, whatever else is written, and even if the writer dies.
Answered == \A h \in Handlers : pc[h] # "idle" ~> pc[h] = "idle"

-----------------------------------------------------------------------------
(* The abstract state of AtomicWrites.                                       *)

Progress(h) ==
  CASE pc[h] = "idle" -> "idle"
    [] pc[h] = "answered" -> IF reply[h] = "ok" THEN "applied" ELSE "failed"
    [] pc[h] = "replying" /\ current = [by |-> h, n |-> issued[h]] /\ stage # "taken" ->
         IF stage = "ok" THEN "applied" ELSE "failed"
    [] OTHER -> "pending"

InTransit == {queue[i] : i \in 1..Len(queue)}
               \cup (IF current # None /\ stage = "taken" THEN {current} ELSE {})

Calls == [h \in Handlers |-> Progress(h)]
Loose == {w \in InTransit : \A h \in Handlers : ~Awaits(h, w)}

Promised == INSTANCE AtomicWrites WITH call <- Calls, loose <- Loose

\* The channel and the writer task keep the promise of AtomicWrites: an answer of
\* Ok means the write took effect once, an error that it never will, and a write
\* whose caller is gone takes effect at most once.
KeepsPromise == Promised!Spec
=============================================================================
