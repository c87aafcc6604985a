--------------------------- MODULE DbWriterProofs ---------------------------
(***************************************************************************)
(* Proofs about DbWriter, for any handlers and firers, any channel size and *)
(* any faults.  Channel accounts for permits, places and the line; Pipeline *)
(* orders the writes in the database, with the writer and in the channel.   *)
(***************************************************************************)
EXTENDS DbWriter, FiniteSetTheorems, TLAPS

States == {"idle", "waiting", "granted", "replying", "answered"}

\* The line holds exactly handlers that wait, each once.
LineOK ==
  /\ \A i \in 1..Len(waiters) : pc[waiters[i]] = "waiting"
  /\ \A i, j \in 1..Len(waiters) : waiters[i] = waiters[j] => i = j

\* An answer that waits for its handler says something.
ReplyOK == \A h \in Handlers : pc[h] = "answered" => reply[h] # "nothing"

Channel == TypeOK /\ NoPermitLost /\ LineOK /\ ReplyOK

HoldersOf(p) == {h \in Handlers : p[h] = "granted"}

-----------------------------------------------------------------------------
\* What is left of a sequence without one of its elements.
LEMMA WithoutOne ==
  ASSUME NEW S, NEW s \in Seq(S), NEW i \in 1..Len(s)
  PROVE  /\ Without(s, i) \in Seq(S)
         /\ Len(Without(s, i)) = Len(s) - 1
         /\ \A k \in 1..(Len(s) - 1) : Without(s, i)[k] = IF k < i THEN s[k] ELSE s[k + 1]
<1> DEFINE n == Len(s) - 1
           w == [k \in 1..n |-> IF k < i THEN s[k] ELSE s[k + 1]]
<1>1. n \in Nat
  OBVIOUS
<1>2. \A k \in 1..n : (IF k < i THEN s[k] ELSE s[k + 1]) \in S
  OBVIOUS
<1>3. w \in [1..n -> S]
  BY <1>2
<1>4. w \in Seq(S)
  BY <1>1, <1>3
<1>5. Len(w) = n
  BY <1>1, <1>3
<1> QED
  BY <1>4, <1>5 DEF Without

\* Those who hold a permit are finitely many, and change one at a time.
LEMMA Holders ==
  ASSUME NEW p \in [Handlers -> States]
  PROVE  /\ IsFiniteSet(HoldersOf(p)) /\ Cardinality(HoldersOf(p)) \in Nat
         /\ \A h \in Handlers : p[h] # "granted" =>
              Cardinality(HoldersOf([p EXCEPT ![h] = "granted"])) = Cardinality(HoldersOf(p)) + 1
         /\ \A h \in Handlers, x \in States : p[h] = "granted" /\ x # "granted" =>
              Cardinality(HoldersOf([p EXCEPT ![h] = x])) = Cardinality(HoldersOf(p)) - 1
         /\ \A h \in Handlers, x \in States : p[h] # "granted" /\ x # "granted" =>
              HoldersOf([p EXCEPT ![h] = x]) = HoldersOf(p)
<1>1. IsFiniteSet(HoldersOf(p))
  BY FS_Subset, DbWriterAssumption DEF HoldersOf, DbWriterAssumption
<1>2. Cardinality(HoldersOf(p)) \in Nat
  BY <1>1, FS_CardinalityType
<1>3. ASSUME NEW h \in Handlers, p[h] # "granted"
      PROVE  Cardinality(HoldersOf([p EXCEPT ![h] = "granted"])) = Cardinality(HoldersOf(p)) + 1
  <2>1. HoldersOf([p EXCEPT ![h] = "granted"]) = HoldersOf(p) \cup {h} /\ h \notin HoldersOf(p)
    BY <1>3 DEF HoldersOf
  <2> QED
    BY <2>1, <1>1, FS_AddElement
<1>4. ASSUME NEW h \in Handlers, NEW x \in States, p[h] = "granted", x # "granted"
      PROVE  Cardinality(HoldersOf([p EXCEPT ![h] = x])) = Cardinality(HoldersOf(p)) - 1
  <2>1. HoldersOf([p EXCEPT ![h] = x]) = HoldersOf(p) \ {h} /\ h \in HoldersOf(p)
    BY <1>4 DEF HoldersOf
  <2> QED
    BY <2>1, <1>1, FS_RemoveElement
<1>5. ASSUME NEW h \in Handlers, NEW x \in States, p[h] # "granted", x # "granted"
      PROVE  HoldersOf([p EXCEPT ![h] = x]) = HoldersOf(p)
  BY <1>5 DEF HoldersOf
<1> QED
  BY <1>1, <1>2, <1>3, <1>4, <1>5

LEMMA GrantedHolders == Granted = HoldersOf(pc)
  BY DEF Granted, HoldersOf

\* A returned permit goes to the head of the line or to nobody.
LEMMA PermitReturned ==
  ASSUME permits \in Nat, NEW p \in [Handlers -> States], NEW line \in Seq(Handlers),
         \A i \in 1..Len(line) : p[line[i]] = "waiting",
         \A i, j \in 1..Len(line) : line[i] = line[j] => i = j,
         permits > 0 => line = <<>>,
         ReturnPermit(p, line)
  PROVE  /\ permits' \in Nat /\ pc' \in [Handlers -> States] /\ waiters' \in Seq(Handlers)
         /\ permits' + Cardinality(HoldersOf(pc)') = permits + Cardinality(HoldersOf(p)) + 1
         /\ permits' > 0 => waiters' = <<>>
         /\ LineOK'
         /\ \A h \in Handlers : pc'[h] = p[h] \/ (p[h] = "waiting" /\ pc'[h] = "granted")
<1>1. CASE line = <<>>
  <2>1. permits' = permits + 1 /\ waiters' = <<>> /\ pc' = p
    BY <1>1 DEF ReturnPermit
  <2>2. HoldersOf(pc)' = HoldersOf(p)
    BY <2>1 DEF HoldersOf
  <2>3. Cardinality(HoldersOf(p)) \in Nat
    BY Holders
  <2>4. LineOK'
    BY <2>1 DEF LineOK
  <2> QED
    BY <1>1, <2>1, <2>2, <2>3, <2>4
<1>2. CASE line # <<>>
  <2>1. permits' = permits /\ waiters' = Tail(line) /\ pc' = [p EXCEPT ![Head(line)] = "granted"]
    BY <1>2 DEF ReturnPermit
  <2>2. Head(line) \in Handlers /\ Head(line) = line[1] /\ 1 \in 1..Len(line)
    BY <1>2
  <2>3. p[Head(line)] = "waiting"
    BY <2>2
  <2>4. HoldersOf(pc)' = HoldersOf([p EXCEPT ![Head(line)] = "granted"])
    BY <2>1 DEF HoldersOf
  <2>5. Cardinality(HoldersOf(pc)') = Cardinality(HoldersOf(p)) + 1 /\ Cardinality(HoldersOf(p)) \in Nat
    BY <2>2, <2>3, <2>4, Holders
  <2>6. /\ waiters' \in Seq(Handlers) /\ Len(waiters') = Len(line) - 1
        /\ \A i \in 1..Len(waiters') : waiters'[i] = line[i + 1] /\ i + 1 \in 1..Len(line)
    BY <1>2, <2>1
  <2>7. ASSUME NEW i \in 1..Len(waiters')  PROVE  pc'[waiters'[i]] = "waiting"
    <3>1. waiters'[i] # Head(line) /\ waiters'[i] \in Handlers /\ p[waiters'[i]] = "waiting"
      BY <2>2, <2>6, <2>7
    <3> QED
      BY <3>1, <2>1
  <2>8. ASSUME NEW i \in 1..Len(waiters'), NEW j \in 1..Len(waiters'), waiters'[i] = waiters'[j]
        PROVE  i = j
    BY <2>6, <2>8
  <2>9. LineOK'
    BY <2>7, <2>8 DEF LineOK
  <2>10. permits = 0
    BY <1>2
  <2>11. pc' \in [Handlers -> States]
    BY <2>1, <2>2 DEF States
  <2>12. \A h \in Handlers : pc'[h] = p[h] \/ (p[h] = "waiting" /\ pc'[h] = "granted")
    BY <2>1, <2>3
  <2> QED
    BY <2>1, <2>5, <2>6, <2>9, <2>10, <2>11, <2>12
<1> QED
  BY <1>1, <1>2

\* Without one of its elements, a sequence of distinct elements is still one.
LEMMA StillDistinct ==
  ASSUME NEW S, NEW s \in Seq(S), NEW i \in 1..Len(s),
         \A k, m \in 1..Len(s) : s[k] = s[m] => k = m
  PROVE  \A k, m \in 1..Len(Without(s, i)) : Without(s, i)[k] = Without(s, i)[m] => k = m
<1> DEFINE w == Without(s, i)
           at(k) == IF k < i THEN k ELSE k + 1
<1>1. /\ Len(w) = Len(s) - 1 /\ Len(s) \in Nat
      /\ \A k \in 1..(Len(s) - 1) : w[k] = IF k < i THEN s[k] ELSE s[k + 1]
  BY WithoutOne
<1>2. \A k \in 1..(Len(s) - 1) : w[k] = s[at(k)] /\ at(k) \in 1..Len(s)
  BY <1>1
<1>3. \A k, m \in 1..(Len(s) - 1) : at(k) = at(m) => k = m
  OBVIOUS
<1> HIDE DEF w, at
<1>4. ASSUME NEW k \in 1..Len(w), NEW m \in 1..Len(w), w[k] = w[m]
      PROVE  k = m
  <2>1. s[at(k)] = s[at(m)] /\ at(k) \in 1..Len(s) /\ at(m) \in 1..Len(s)
    BY <1>1, <1>2, <1>4
  <2>2. at(k) = at(m)
    BY <2>1
  <2> QED
    BY <1>1, <1>3, <2>2
<1> QED
  BY <1>4 DEF w

-----------------------------------------------------------------------------
(* The channel: types, permits and the line, one lemma per action.           *)

\* What the lemmas below use of the state before the step.
LEMMA ChannelFacts ==
  ASSUME Channel
  PROVE  /\ pc \in [Handlers -> States] /\ permits \in Nat /\ permits <= QueueCap
         /\ queue \in Seq(Write) /\ Len(queue) \in Nat /\ Cardinality(HoldersOf(pc)) \in Nat
         /\ permits + Cardinality(HoldersOf(pc)) + Len(queue) = QueueCap
         /\ waiters \in Seq(Handlers) /\ QueueCap \in Nat
<1>1. /\ pc \in [Handlers -> States] /\ permits \in 0..QueueCap
      /\ queue \in Seq(Write) /\ waiters \in Seq(Handlers)
  BY DEF Channel, TypeOK, States
<1>2. QueueCap \in Nat
  BY DbWriterAssumption DEF DbWriterAssumption
<1>3. permits + Cardinality(HoldersOf(pc)) + Len(queue) = QueueCap
  BY GrantedHolders DEF Channel, NoPermitLost
<1>4. Cardinality(HoldersOf(pc)) \in Nat
  BY <1>1, Holders
<1> QED
  BY <1>1, <1>2, <1>3, <1>4

\* The permits after a step stay within the channel's size as long as they add up.
LEMMA Accounted ==
  ASSUME permits' \in Nat, pc' \in [Handlers -> States], queue' \in Seq(Write),
         permits' + Cardinality(HoldersOf(pc)') + Len(queue') = QueueCap,
         permits' > 0 => waiters' = <<>>
  PROVE  permits' \in 0..QueueCap /\ NoPermitLost'
<1>1. Cardinality(HoldersOf(pc')) \in Nat
  BY Holders
<1>2. HoldersOf(pc)' = HoldersOf(pc') /\ Granted' = HoldersOf(pc)'
  BY DEF HoldersOf, Granted
<1>3. Len(queue') \in Nat /\ QueueCap \in Nat
  BY DbWriterAssumption DEF DbWriterAssumption
<1> QED
  BY <1>1, <1>2, <1>3 DEF NoPermitLost

LEMMA NewWrite ==
  ASSUME NEW a \in Actors, issued \in [Actors -> Nat], NEW n \in Nat
  PROVE  [by |-> a, n |-> n] \in Write /\ [issued EXCEPT ![a] = @ + 1] \in [Actors -> Nat]
  BY DEF Write

LEMMA CallChannel ==
  ASSUME Channel, NEW h \in Handlers, Call(h)
  PROVE  Channel'
<1>1. /\ pc \in [Handlers -> States] /\ permits \in Nat /\ permits <= QueueCap
      /\ queue \in Seq(Write) /\ Len(queue) \in Nat /\ Cardinality(HoldersOf(pc)) \in Nat
      /\ permits + Cardinality(HoldersOf(pc)) + Len(queue) = QueueCap
      /\ waiters \in Seq(Handlers) /\ QueueCap \in Nat
  BY ChannelFacts
<1> USE <1>1
<1>2. /\ pc[h] = "idle" /\ issued' = [issued EXCEPT ![h] = @ + 1]
      /\ told' = [told EXCEPT ![h] = "nothing"]
      /\ UNCHANGED <<reply, queue, current, stage, alive, effects>>
  BY DEF Call, Issues, writer
<1>3. issued' \in [Actors -> Nat]
  BY <1>2, NewWrite DEF Channel, TypeOK, Actors
<1>4. ReplyOK' /\ (\A x \in Handlers : x # h => pc'[x] = pc[x]) /\ pc' \in [Handlers -> States]
      /\ pc'[h] \in {"granted", "waiting"}
  BY <1>2 DEF Call, Channel, ReplyOK, States
<1>5. \A i \in 1..Len(waiters) : waiters[i] \in Handlers /\ waiters[i] # h
  BY <1>2 DEF Channel, LineOK
<1>6. CASE permits > 0
  <2>1. permits' = permits - 1 /\ pc' = [pc EXCEPT ![h] = "granted"] /\ waiters' = waiters
    BY <1>6 DEF Call
  <2>2. HoldersOf(pc)' = HoldersOf([pc EXCEPT ![h] = "granted"])
    BY <2>1 DEF HoldersOf
  <2>3. Cardinality(HoldersOf(pc)') = Cardinality(HoldersOf(pc)) + 1
    BY <1>2, <2>2, Holders
  <2>4. waiters = <<>>
    BY <1>6 DEF Channel, NoPermitLost
  <2>5. permits' \in 0..QueueCap /\ NoPermitLost'
    <3>1. permits' \in Nat /\ permits' + Cardinality(HoldersOf(pc)') + Len(queue') = QueueCap
      BY <1>2, <1>6, <2>1, <2>3
    <3>2. waiters' = <<>> /\ queue' \in Seq(Write) /\ pc' \in [Handlers -> States]
      BY <1>2, <1>4, <2>1, <2>4
    <3> QED
      BY <3>1, <3>2, Accounted
  <2>6. LineOK'
    BY <2>1, <2>4 DEF LineOK
  <2>7. TypeOK'
    BY <1>2, <1>3, <1>4, <2>1, <2>5 DEF Channel, TypeOK, States
  <2> QED
    BY <1>4, <2>5, <2>6, <2>7 DEF Channel
<1>7. CASE ~(permits > 0)
  <2>1. permits' = permits /\ pc' = [pc EXCEPT ![h] = "waiting"] /\ waiters' = Append(waiters, h)
    BY <1>7 DEF Call
  <2>2. HoldersOf(pc)' = HoldersOf([pc EXCEPT ![h] = "waiting"])
    BY <2>1 DEF HoldersOf
  <2>3. HoldersOf(pc)' = HoldersOf(pc)
    BY <1>2, <2>2, Holders DEF States
  <2>4. permits' \in 0..QueueCap /\ NoPermitLost'
    BY <1>2, <1>4, <1>7, <2>1, <2>3, Accounted
  <2>5. /\ waiters' \in Seq(Handlers) /\ Len(waiters') = Len(waiters) + 1
        /\ waiters'[Len(waiters) + 1] = h
        /\ \A i \in 1..Len(waiters) : waiters'[i] = waiters[i]
    BY <2>1
  <2>6. \A i \in 1..Len(waiters') : pc'[waiters'[i]] = "waiting"
    BY <1>4, <1>5, <2>1, <2>5 DEF Channel, LineOK
  <2>7. ASSUME NEW i \in 1..Len(waiters'), NEW j \in 1..Len(waiters'), waiters'[i] = waiters'[j]
        PROVE  i = j
    <3>1. CASE i \in 1..Len(waiters) /\ j \in 1..Len(waiters)
      BY <2>5, <2>7, <3>1 DEF Channel, LineOK
    <3>2. CASE i = Len(waiters) + 1 /\ j \in 1..Len(waiters)
      BY <1>5, <2>5, <2>7, <3>2
    <3>3. CASE j = Len(waiters) + 1 /\ i \in 1..Len(waiters)
      BY <1>5, <2>5, <2>7, <3>3
    <3> QED
      BY <2>5, <3>1, <3>2, <3>3
  <2>8. LineOK'
    BY <2>6, <2>7 DEF LineOK
  <2>9. TypeOK'
    BY <1>2, <1>3, <1>4, <2>4, <2>5 DEF Channel, TypeOK, States
  <2> QED
    BY <1>4, <2>4, <2>8, <2>9 DEF Channel
<1> QED
  BY <1>6, <1>7

LEMMA ClosedChannel ==
  ASSUME Channel, NEW h \in Handlers, CallClosed(h)
  PROVE  Channel'
<1>1. /\ issued' = [issued EXCEPT ![h] = @ + 1] /\ told' = [told EXCEPT ![h] = "closed"]
      /\ UNCHANGED <<pc, reply, permits, waiters, queue, current, stage, alive, effects>>
  BY DEF CallClosed, Issues, writer, channel
<1>2. issued' \in [Actors -> Nat]
  BY <1>1, NewWrite DEF Channel, TypeOK, Actors
<1> QED
  BY <1>1, <1>2 DEF Channel, TypeOK, NoPermitLost, Granted, LineOK, ReplyOK

LEMMA PushChannel ==
  ASSUME Channel, NEW h \in Handlers, Push(h)
  PROVE  Channel'
<1>1. /\ pc \in [Handlers -> States] /\ permits \in Nat /\ permits <= QueueCap
      /\ queue \in Seq(Write) /\ Len(queue) \in Nat /\ Cardinality(HoldersOf(pc)) \in Nat
      /\ permits + Cardinality(HoldersOf(pc)) + Len(queue) = QueueCap
      /\ waiters \in Seq(Handlers) /\ QueueCap \in Nat
  BY ChannelFacts
<1> USE <1>1
<1>2. /\ pc[h] = "granted" /\ queue' = Append(queue, [by |-> h, n |-> issued[h]])
      /\ pc' = [pc EXCEPT ![h] = "replying"]
      /\ UNCHANGED <<issued, reply, told, permits, waiters, current, stage, alive, effects>>
  BY DEF Push, writer
<1>3. [by |-> h, n |-> issued[h]] \in Write
  BY NewWrite DEF Channel, TypeOK, Actors
<1>4. queue' \in Seq(Write) /\ Len(queue') = Len(queue) + 1
  BY <1>2, <1>3
<1>5. HoldersOf(pc)' = HoldersOf([pc EXCEPT ![h] = "replying"])
  BY <1>2 DEF HoldersOf
<1>6. Cardinality(HoldersOf(pc)') = Cardinality(HoldersOf(pc)) - 1
  BY <1>2, <1>5, Holders DEF States
<1>7. pc' \in [Handlers -> States]
  BY <1>2 DEF States
<1>8. permits' \in 0..QueueCap /\ NoPermitLost'
  BY <1>2, <1>4, <1>6, <1>7, Accounted DEF Channel, NoPermitLost
<1>9. LineOK' /\ ReplyOK'
  BY <1>2 DEF Channel, LineOK, ReplyOK
<1> QED
  BY <1>2, <1>4, <1>7, <1>8, <1>9 DEF Channel, TypeOK, States

LEMMA FireChannel ==
  ASSUME Channel, NEW p \in Firers, Fire(p)
  PROVE  Channel'
<1>1. /\ pc \in [Handlers -> States] /\ permits \in Nat /\ permits <= QueueCap
      /\ queue \in Seq(Write) /\ Len(queue) \in Nat /\ Cardinality(HoldersOf(pc)) \in Nat
      /\ permits + Cardinality(HoldersOf(pc)) + Len(queue) = QueueCap
      /\ waiters \in Seq(Handlers) /\ QueueCap \in Nat
  BY ChannelFacts
<1> USE <1>1
<1>2. /\ issued' = [issued EXCEPT ![p] = @ + 1]
      /\ UNCHANGED <<pc, reply, told, waiters, current, stage, alive, effects>>
  BY DEF Fire, Issues, writer
<1>3. issued' \in [Actors -> Nat] /\ issued[p] + 1 \in Nat
  BY <1>2, NewWrite DEF Channel, TypeOK, Actors
<1>4. HoldersOf(pc)' = HoldersOf(pc) /\ LineOK' /\ ReplyOK'
  BY <1>2 DEF HoldersOf, Channel, LineOK, ReplyOK
<1>5. CASE alive /\ permits > 0
  <2>1. permits' = permits - 1 /\ queue' = Append(queue, [by |-> p, n |-> issued[p] + 1])
    BY <1>5 DEF Fire
  <2>2. [by |-> p, n |-> issued[p] + 1] \in Write
    BY <1>3, NewWrite DEF Channel, TypeOK, Actors
  <2>3. queue' \in Seq(Write) /\ Len(queue') = Len(queue) + 1
    BY <2>1, <2>2
  <2>4. permits' \in 0..QueueCap /\ NoPermitLost'
    <3>1. permits' \in Nat /\ permits' + Cardinality(HoldersOf(pc)') + Len(queue') = QueueCap
      BY <1>4, <1>5, <2>1, <2>3
    <3>2. waiters' = <<>> /\ pc' \in [Handlers -> States]
      BY <1>2, <1>5 DEF Channel, NoPermitLost
    <3> QED
      BY <2>3, <3>1, <3>2, Accounted
  <2> QED
    BY <1>2, <1>3, <1>4, <2>3, <2>4 DEF Channel, TypeOK
<1>6. CASE ~(alive /\ permits > 0)
  <2>1. UNCHANGED <<permits, queue>>
    BY <1>6 DEF Fire
  <2> QED
    BY <1>2, <1>3, <1>4, <2>1 DEF Channel, TypeOK, NoPermitLost, Granted
<1> QED
  BY <1>5, <1>6

LEMMA TakeChannel ==
  ASSUME Channel, Take
  PROVE  Channel'
<1>1. /\ pc \in [Handlers -> States] /\ permits \in Nat /\ permits <= QueueCap
      /\ queue \in Seq(Write) /\ Len(queue) \in Nat /\ Cardinality(HoldersOf(pc)) \in Nat
      /\ permits + Cardinality(HoldersOf(pc)) + Len(queue) = QueueCap
      /\ waiters \in Seq(Handlers) /\ QueueCap \in Nat
  BY ChannelFacts
<1> USE <1>1
<1>2. /\ queue # <<>> /\ current' = Head(queue) /\ stage' = "taken" /\ queue' = Tail(queue)
      /\ ReturnPermit(pc, waiters)
      /\ UNCHANGED <<issued, reply, told, alive, effects>>
  BY DEF Take
<1>3. queue' \in Seq(Write) /\ Len(queue') = Len(queue) - 1 /\ current' \in Write
  BY <1>2
<1>4. /\ \A i \in 1..Len(waiters) : pc[waiters[i]] = "waiting"
      /\ \A i, j \in 1..Len(waiters) : waiters[i] = waiters[j] => i = j
      /\ permits > 0 => waiters = <<>>
  BY DEF Channel, LineOK, NoPermitLost
<1>5. /\ permits' \in Nat /\ pc' \in [Handlers -> States] /\ waiters' \in Seq(Handlers)
      /\ permits' + Cardinality(HoldersOf(pc)') = permits + Cardinality(HoldersOf(pc)) + 1
      /\ permits' > 0 => waiters' = <<>>
      /\ LineOK'
      /\ \A h \in Handlers : pc'[h] = pc[h] \/ (pc[h] = "waiting" /\ pc'[h] = "granted")
  BY <1>2, <1>4, PermitReturned
<1>6. permits' + Cardinality(HoldersOf(pc)') + Len(queue') = QueueCap
  <2>1. Cardinality(HoldersOf(pc')) \in Nat
    BY <1>5, Holders
  <2>2. HoldersOf(pc)' = HoldersOf(pc')
    BY DEF HoldersOf
  <2> QED
    BY <1>3, <1>5, <2>1, <2>2
<1>7. permits' \in 0..QueueCap /\ NoPermitLost'
  BY <1>3, <1>5, <1>6, Accounted
<1>8. ReplyOK'
  BY <1>2, <1>5 DEF Channel, ReplyOK
<1> QED
  BY <1>2, <1>3, <1>5, <1>7, <1>8 DEF Channel, TypeOK, States

LEMMA ProcessChannel ==
  ASSUME Channel, Process
  PROVE  Channel'
<1>1. /\ current \in Write /\ stage' \in {"ok", "error"}
      /\ effects' = Append(effects, current) \/ effects' = effects
      /\ UNCHANGED <<issued, pc, reply, told, permits, waiters, queue, current, alive>>
  BY DEF Process, Channel, TypeOK, callers, channel
<1>2. effects' \in Seq(Write)
  <2>1. effects \in Seq(Write)
    BY DEF Channel, TypeOK
  <2>2. Append(effects, current) \in Seq(Write)
    BY <1>1, <2>1
  <2> QED
    BY <1>1, <2>1, <2>2
<1> QED
  BY <1>1, <1>2 DEF Channel, TypeOK, NoPermitLost, Granted, LineOK, ReplyOK

\* Steps after which no handler has come to hold a permit or ceased to, and which
\* leave the rest of the channel alone.
LEMMA SameHolders ==
  ASSUME Channel, UNCHANGED <<permits, waiters, queue>>, pc' \in [Handlers -> States],
         \A h \in Handlers : pc'[h] = "granted" <=> pc[h] = "granted",
         \A h \in Handlers : pc[h] = "waiting" => pc'[h] = "waiting"
  PROVE  NoPermitLost' /\ LineOK'
<1>1. Granted' = Granted
  BY DEF Granted
<1>2. waiters \in Seq(Handlers)
  BY DEF Channel, TypeOK
<1> QED
  BY <1>1, <1>2 DEF Channel, NoPermitLost, LineOK

LEMMA ReplyChannel ==
  ASSUME Channel, Reply
  PROVE  Channel'
<1>1. PICK hears \in SUBSET Handlers :
        /\ \A h \in hears : pc[h] = "replying"
        /\ pc' = [h \in Handlers |-> IF h \in hears THEN "answered" ELSE pc[h]]
        /\ reply' = [h \in Handlers |-> IF h \in hears THEN stage ELSE reply[h]]
  <2>1. {h \in Handlers : Awaits(h, current)} \in SUBSET Handlers
    OBVIOUS
  <2> QED
    BY <2>1 DEF Reply, Awaits
<1>2. /\ stage # "taken" /\ current' = None /\ stage' = "taken"
      /\ UNCHANGED <<issued, told, permits, waiters, queue, alive, effects>>
  BY DEF Reply, channel
<1>3. stage \in {"ok", "error"}
  BY <1>2 DEF Channel, TypeOK
<1>4. pc' \in [Handlers -> States] /\ reply' \in [Handlers -> {"nothing", "ok", "error"}]
  BY <1>1, <1>3 DEF Channel, TypeOK, States
<1>5. NoPermitLost' /\ LineOK'
  BY <1>1, <1>2, <1>4, SameHolders
<1>6. ReplyOK'
  BY <1>1, <1>3 DEF Channel, ReplyOK
<1> QED
  BY <1>2, <1>4, <1>5, <1>6 DEF Channel, TypeOK, States

LEMMA ReturnChannel ==
  ASSUME Channel, NEW h \in Handlers, Return(h)
  PROVE  Channel'
<1>1. /\ pc[h] = "answered" /\ told' = [told EXCEPT ![h] = reply[h]]
      /\ pc' = [pc EXCEPT ![h] = "idle"] /\ reply' = [reply EXCEPT ![h] = "nothing"]
      /\ UNCHANGED <<issued, permits, waiters, queue, current, stage, alive, effects>>
  BY DEF Return, channel, writer
<1>2. /\ pc' \in [Handlers -> States] /\ reply' \in [Handlers -> {"nothing", "ok", "error"}]
      /\ told' \in [Handlers -> {"nothing", "ok", "error", "closed"}]
  BY <1>1 DEF Channel, TypeOK, States
<1>3. NoPermitLost' /\ LineOK'
  <2>1. \A x \in Handlers : (pc'[x] = "granted" <=> pc[x] = "granted") /\ (pc[x] = "waiting" => pc'[x] = "waiting")
    BY <1>1 DEF Channel, TypeOK
  <2> QED
    BY <1>1, <1>2, <2>1, SameHolders
<1>4. ReplyOK'
  BY <1>1 DEF Channel, ReplyOK, TypeOK
<1> QED
  BY <1>1, <1>2, <1>3, <1>4 DEF Channel, TypeOK, States

LEMMA DisconnectChannel ==
  ASSUME Channel, NEW h \in Handlers, Disconnect(h)
  PROVE  Channel'
<1>1. /\ pc \in [Handlers -> States] /\ permits \in Nat /\ permits <= QueueCap
      /\ queue \in Seq(Write) /\ Len(queue) \in Nat /\ Cardinality(HoldersOf(pc)) \in Nat
      /\ permits + Cardinality(HoldersOf(pc)) + Len(queue) = QueueCap
      /\ waiters \in Seq(Handlers) /\ QueueCap \in Nat
  BY ChannelFacts
<1> USE <1>1
<1> DEFINE freed == [pc EXCEPT ![h] = "idle"]
<1>2. /\ told' = [told EXCEPT ![h] = "closed"] /\ reply' = [reply EXCEPT ![h] = "nothing"]
      /\ UNCHANGED <<issued, queue, current, stage, alive, effects>>
  BY DEF Disconnect, writer
<1>3. /\ told' \in [Handlers -> {"nothing", "ok", "error", "closed"}]
      /\ reply' \in [Handlers -> {"nothing", "ok", "error"}]
      /\ freed \in [Handlers -> States]
  BY <1>2 DEF Channel, TypeOK, States
<1>4. ASSUME pc' \in [Handlers -> States], waiters' \in Seq(Handlers), permits' \in Nat,
             permits' + Cardinality(HoldersOf(pc)') + Len(queue) = QueueCap,
             permits' > 0 => waiters' = <<>>, LineOK',
             \A x \in Handlers : pc'[x] = "answered" => freed[x] = "answered"
      PROVE  Channel'
  <2>1. permits' + Cardinality(HoldersOf(pc)') + Len(queue') = QueueCap /\ queue' \in Seq(Write)
    BY <1>2, <1>4
  <2>2. permits' \in 0..QueueCap /\ NoPermitLost'
    BY <1>4, <2>1, Accounted
  <2>3. ReplyOK'
    BY <1>2, <1>4 DEF Channel, ReplyOK, TypeOK
  <2> QED
    BY <1>2, <1>3, <1>4, <2>2, <2>3 DEF Channel, TypeOK, States
<1>5. CASE pc[h] = "granted"
  <2>1. ReturnPermit(freed, waiters)
    BY <1>5 DEF Disconnect
  <2>2. \A i \in 1..Len(waiters) : freed[waiters[i]] = "waiting"
    BY <1>5 DEF Channel, LineOK
  <2>3. /\ \A i, j \in 1..Len(waiters) : waiters[i] = waiters[j] => i = j
        /\ permits > 0 => waiters = <<>>
    BY DEF Channel, LineOK, NoPermitLost
  <2>4. /\ permits' \in Nat /\ pc' \in [Handlers -> States] /\ waiters' \in Seq(Handlers)
        /\ permits' + Cardinality(HoldersOf(pc)') = permits + Cardinality(HoldersOf(freed)) + 1
        /\ permits' > 0 => waiters' = <<>>
        /\ LineOK'
        /\ \A x \in Handlers : pc'[x] = freed[x] \/ (freed[x] = "waiting" /\ pc'[x] = "granted")
    <3> HIDE DEF freed
    <3> QED
      BY <1>3, <2>1, <2>2, <2>3, PermitReturned
  <2>5. Cardinality(HoldersOf(freed)) = Cardinality(HoldersOf(pc)) - 1
    BY <1>5, Holders DEF States
  <2>6. permits' + Cardinality(HoldersOf(pc)') + Len(queue) = QueueCap
    <3>1. Cardinality(HoldersOf(pc')) \in Nat /\ HoldersOf(pc)' = HoldersOf(pc')
      BY <2>4, Holders DEF HoldersOf
    <3> HIDE DEF freed
    <3> QED
      BY <2>4, <2>5, <3>1
  <2>7. \A x \in Handlers : pc'[x] = "answered" => freed[x] = "answered"
    BY <2>4
  <2> QED
    BY <1>4, <2>4, <2>6, <2>7
<1>6. CASE pc[h] # "granted"
  <2>1. /\ pc' = freed /\ permits' = permits
        /\ IF pc[h] = "waiting"
             THEN \E i \in 1..Len(waiters) : waiters[i] = h /\ waiters' = Without(waiters, i)
             ELSE waiters' = waiters
    BY <1>6 DEF Disconnect
  <2>2. HoldersOf(pc)' = HoldersOf(pc)
    BY <1>6, <2>1 DEF HoldersOf
  <2>3. permits' + Cardinality(HoldersOf(pc)') + Len(queue) = QueueCap
    BY <2>1, <2>2
  <2>4. CASE pc[h] = "waiting"
    <3>1. PICK i \in 1..Len(waiters) : waiters[i] = h /\ waiters' = Without(waiters, i)
      BY <2>1, <2>4
    <3>2. /\ waiters' \in Seq(Handlers) /\ Len(waiters') = Len(waiters) - 1
          /\ \A k \in 1..(Len(waiters) - 1) : waiters'[k] = IF k < i THEN waiters[k] ELSE waiters[k + 1]
      BY <3>1, WithoutOne
    <3>3. permits = 0
      <4>1. waiters # <<>>
        BY <3>1
      <4> QED
        BY <4>1 DEF Channel, NoPermitLost
    <3>4. ASSUME NEW k \in 1..Len(waiters')
          PROVE  pc'[waiters'[k]] = "waiting"
      <4>1. /\ k \in 1..(Len(waiters) - 1) /\ k \in 1..Len(waiters)
            /\ k + 1 \in 1..Len(waiters) /\ (k < i => k # i) /\ (~(k < i) => k + 1 # i)
        BY <3>2, <3>4
      <4>2. PICK m \in 1..Len(waiters) : m # i /\ waiters'[k] = waiters[m]
        BY <3>2, <4>1
      <4>3. waiters[m] # h /\ pc[waiters[m]] = "waiting" /\ waiters[m] \in Handlers
        BY <3>1, <4>2 DEF Channel, LineOK
      <4> QED
        BY <2>1, <4>2, <4>3
    <3>5. \A k, m \in 1..Len(waiters') : waiters'[k] = waiters'[m] => k = m
      <4>1. \A k, m \in 1..Len(waiters) : waiters[k] = waiters[m] => k = m
        BY DEF Channel, LineOK
      <4> QED
        BY <3>1, <4>1, StillDistinct
    <3>6. LineOK'
      BY <3>4, <3>5 DEF LineOK
    <3> QED
      BY <1>3, <1>4, <2>1, <2>3, <3>2, <3>3, <3>6
  <2>5. CASE pc[h] # "waiting"
    <3>1. waiters' = waiters
      BY <2>1, <2>5
    <3>2. LineOK' /\ (permits' > 0 => waiters' = <<>>)
      BY <2>1, <2>5, <3>1 DEF Channel, LineOK, NoPermitLost
    <3> QED
      BY <1>3, <1>4, <2>1, <2>3, <3>1, <3>2
  <2> QED
    BY <2>4, <2>5
<1> QED
  BY <1>5, <1>6

\* Nothing in the channel, nobody in line, nobody with a permit.
LEMMA EmptyChannel ==
  ASSUME queue' = <<>>, waiters' = <<>>, permits' = QueueCap, pc' \in [Handlers -> States],
         \A h \in Handlers : pc'[h] # "granted"
  PROVE  permits' \in 0..QueueCap /\ NoPermitLost' /\ LineOK'
<1>1. HoldersOf(pc)' = {} /\ QueueCap \in Nat
  BY DbWriterAssumption DEF HoldersOf, DbWriterAssumption
<1>2. Cardinality(HoldersOf(pc)') = 0
  BY <1>1, FS_EmptySet
<1>3. permits' + Cardinality(HoldersOf(pc)') + Len(queue') = QueueCap /\ permits' \in Nat
  BY <1>1, <1>2
<1>4. queue' \in Seq(Write)
  OBVIOUS
<1>5. permits' \in 0..QueueCap /\ NoPermitLost'
  BY <1>3, <1>4, Accounted
<1> QED
  BY <1>5 DEF LineOK

LEMMA CrashChannel ==
  ASSUME Channel, WriterDies \/ Restart
  PROVE  Channel'
<1>1. /\ current' = None /\ stage' = "taken" /\ alive' \in BOOLEAN
      /\ queue' = <<>> /\ waiters' = <<>> /\ permits' = QueueCap
      /\ UNCHANGED <<issued, effects>>
  BY DEF WriterDies, Restart
<1>2. /\ pc' \in [Handlers -> {"idle", "answered"}]
      /\ \A h \in Handlers : pc'[h] = "answered" => pc[h] = "answered" /\ reply'[h] = reply[h]
      /\ reply' \in [Handlers -> {"nothing", "ok", "error"}]
      /\ told' \in [Handlers -> {"nothing", "ok", "error", "closed"}]
  BY DEF WriterDies, Restart, CutOff, Channel, TypeOK
<1>3. permits' \in 0..QueueCap /\ NoPermitLost' /\ LineOK'
  BY <1>1, <1>2, EmptyChannel DEF States
<1>4. ReplyOK'
  BY <1>2 DEF Channel, ReplyOK
<1> QED
  BY <1>1, <1>2, <1>3, <1>4 DEF Channel, TypeOK

LEMMA InitChannel == Init => Channel
<1> SUFFICES ASSUME Init PROVE Channel
  OBVIOUS
<1>1. QueueCap \in Nat
  BY DbWriterAssumption DEF DbWriterAssumption
<1>2. TypeOK
  BY <1>1 DEF Init, TypeOK
<1>3. Granted = {}
  BY DEF Init, Granted
<1>4. Cardinality(Granted) = 0
  BY <1>3, FS_EmptySet
<1>5. NoPermitLost
  BY <1>1, <1>4 DEF Init, NoPermitLost
<1> QED
  BY <1>2, <1>5 DEF Init, Channel, LineOK, ReplyOK

LEMMA ChannelStep == Channel /\ [Next]_vars => Channel'
<1> SUFFICES ASSUME Channel, [Next]_vars PROVE Channel'
  OBVIOUS
<1>1. ASSUME NEW h \in Handlers, Call(h) \/ CallClosed(h) \/ Push(h) \/ Return(h) \/ Disconnect(h)
      PROVE  Channel'
  BY <1>1, CallChannel, ClosedChannel, PushChannel, ReturnChannel, DisconnectChannel
<1>2. ASSUME NEW p \in Firers, Fire(p)
      PROVE  Channel'
  BY <1>2, FireChannel
<1>3. CASE Take \/ Process \/ Reply \/ WriterDies \/ Restart
  BY <1>3, TakeChannel, ProcessChannel, ReplyChannel, CrashChannel
<1>4. CASE UNCHANGED vars
  BY <1>4 DEF vars, callers, channel, writer, Channel, TypeOK, NoPermitLost, Granted, LineOK, ReplyOK
<1> QED
  BY <1>1, <1>2, <1>3, <1>4 DEF Next

LEMMA ChannelInvariant == Spec => []Channel
  BY InitChannel, ChannelStep, PTL DEF Spec

\* Every reachable state of the channel and of its users is well typed: in
\* particular no more permits are out than there are places.
THEOREM WriterTypes == Spec => []TypeOK
<1>1. Channel => TypeOK
  BY DEF Channel
<1> QED
  BY <1>1, ChannelInvariant, PTL

\* However many handlers are dropped, and wherever they were waiting, each place in
\* the channel is free, promised to one handler, or taken; and no fired write takes
\* a place while a handler is in line.
THEOREM PermitsAddUp == Spec => []NoPermitLost
<1>1. Channel => NoPermitLost
  BY DEF Channel
<1> QED
  BY <1>1, ChannelInvariant, PTL

\* A permit that comes free moves at most the head of the line; nobody else.
LEMMA LineMoves ==
  ASSUME Channel, NEW p \in [Handlers -> States],
         \A h \in Handlers : pc[h] = "waiting" => p[h] = "waiting",
         ReturnPermit(p, waiters)
  PROVE  \A h \in Handlers : pc'[h] = p[h] \/ (p[h] = "waiting" /\ pc'[h] = "granted")
<1>1. waiters \in Seq(Handlers) /\ permits \in Nat
  BY ChannelFacts
<1>2. /\ \A i \in 1..Len(waiters) : p[waiters[i]] = "waiting"
      /\ \A i, j \in 1..Len(waiters) : waiters[i] = waiters[j] => i = j
      /\ permits > 0 => waiters = <<>>
  BY <1>1 DEF Channel, LineOK, NoPermitLost
<1> QED
  BY <1>1, <1>2, PermitReturned

LEMMA TakeMoves ==
  ASSUME Channel, Take
  PROVE  \A h \in Handlers : pc'[h] = pc[h] \/ (pc[h] = "waiting" /\ pc'[h] = "granted")
<1>1. pc \in [Handlers -> States] /\ ReturnPermit(pc, waiters)
  BY ChannelFacts DEF Take
<1> QED
  BY <1>1, LineMoves

LEMMA PermitMoves ==
  ASSUME Channel, NEW h \in Handlers, Disconnect(h)
  PROVE  /\ pc[h] # "idle" /\ pc'[h] = "idle"
         /\ \A x \in Handlers : x # h => pc'[x] = pc[x] \/ (pc[x] = "waiting" /\ pc'[x] = "granted")
<1> DEFINE freed == [pc EXCEPT ![h] = "idle"]
<1>1. pc \in [Handlers -> States] /\ freed \in [Handlers -> States] /\ pc[h] # "idle"
  BY ChannelFacts DEF Disconnect, States
<1>2. CASE pc[h] = "granted"
  <2>1. ReturnPermit(freed, waiters) /\ \A x \in Handlers : pc[x] = "waiting" => freed[x] = "waiting"
    BY <1>2 DEF Disconnect
  <2>2. \A x \in Handlers : pc'[x] = freed[x] \/ (freed[x] = "waiting" /\ pc'[x] = "granted")
    <3> HIDE DEF freed
    <3> QED
      BY <1>1, <2>1, LineMoves
  <2> QED
    BY <1>1, <2>2
<1>3. CASE pc[h] # "granted"
  <2>1. pc' = freed
    BY <1>3 DEF Disconnect
  <2> QED
    BY <1>1, <2>1
<1> QED
  BY <1>2, <1>3
-----------------------------------------------------------------------------
(* The pipeline: database, writer, channel.                                  *)

\* The newest write of an actor that can be anywhere in it: the call of a handler
\* that has not got its place in the channel yet is not.
Bound(a) == IF a \in Handlers /\ pc[a] \in {"waiting", "granted"} THEN issued[a] - 1 ELSE issued[a]

Bounds == [a \in Actors |-> Bound(a)]

Before(v, w) == v.by = w.by => v.n < w.n

\* e is the database, c the command with the writer and st its stage, q the
\* channel; b bounds the numbers of each actor's writes.
InOrder(e, c, st, q, b) ==
  /\ \A i \in 1..Len(e) : e[i].n <= b[e[i].by]
  /\ \A i, j \in 1..Len(e) : i < j => Before(e[i], e[j])
  /\ c # None => c.n <= b[c.by] /\ \A j \in 1..Len(q) : Before(c, q[j])
  /\ c # None /\ st = "taken" => \A i \in 1..Len(e) : Before(e[i], c)
  /\ \A j \in 1..Len(q) : q[j].n <= b[q[j].by] /\ \A i \in 1..Len(e) : Before(e[i], q[j])
  /\ \A i, j \in 1..Len(q) : i < j => Before(q[i], q[j])

Pipeline == InOrder(effects, current, stage, queue, Bounds)

\* What InOrder is about.
Shapes(e, c, q, b) ==
  /\ e \in Seq(Write) /\ q \in Seq(Write) /\ c \in Write \cup {None} /\ b \in [Actors -> Int]

LEMMA WriteParts ==
  /\ \A w \in Write : w.n \in Nat /\ w.by \in Actors
  /\ \A q \in Seq(Write) : Len(q) \in Nat /\ \A i \in 1..Len(q) : q[i] \in Write
<1>1. \A w \in Write : w.n \in Nat /\ w.by \in Actors
  BY DEF Write
<1>2. \A q \in Seq(Write) : Len(q) \in Nat /\ \A i \in 1..Len(q) : q[i] \in Write
  OBVIOUS
<1> QED
  BY <1>1, <1>2

\* Bounds may rise.
LEMMA OrderRises ==
  ASSUME NEW e, NEW c, NEW st, NEW q, NEW b, NEW b2, Shapes(e, c, q, b), Shapes(e, c, q, b2),
         InOrder(e, c, st, q, b), \A a \in Actors : b2[a] >= b[a]
  PROVE  InOrder(e, c, st, q, b2)
<1> DEFINE ok(w) == w \in Write /\ w.n <= b[w.by] => w.n <= b2[w.by]
<1>1. \A w : ok(w)
  <2> SUFFICES ASSUME NEW w \in Write, w.n <= b[w.by] PROVE w.n <= b2[w.by]
    OBVIOUS
  <2>1. w.n \in Nat /\ w.by \in Actors /\ b[w.by] \in Int /\ b2[w.by] \in Int
    BY WriteParts DEF Shapes
  <2> QED
    BY <2>1
<1>2. \A i \in 1..Len(e) : e[i].n <= b2[e[i].by]
  BY <1>1, WriteParts DEF Shapes, InOrder
<1>3. \A i \in 1..Len(q) : q[i].n <= b2[q[i].by]
  BY <1>1, WriteParts DEF Shapes, InOrder
<1>4. c # None => c.n <= b2[c.by]
  BY <1>1 DEF Shapes, InOrder
<1> QED
  BY <1>2, <1>3, <1>4 DEF InOrder

\* A write newer than all of its actor's others enters the channel.
LEMMA OrderPushed ==
  ASSUME NEW e, NEW c, NEW st, NEW q, NEW b, NEW b2, Shapes(e, c, q, b), Shapes(e, c, q, b2),
         InOrder(e, c, st, q, b), \A a \in Actors : b2[a] >= b[a],
         NEW w \in Write, b[w.by] < w.n, w.n <= b2[w.by]
  PROVE  InOrder(e, c, st, Append(q, w), b2)
<1>1. InOrder(e, c, st, q, b2)
  BY OrderRises
<1>2. \A v \in Write : v.n <= b[v.by] => Before(v, w)
  <2> SUFFICES ASSUME NEW v \in Write, v.n <= b[v.by], v.by = w.by PROVE v.n < w.n
    BY DEF Before
  <2>1. v.n \in Nat /\ w.n \in Nat /\ w.by \in Actors /\ b[w.by] \in Int
    BY WriteParts DEF Shapes
  <2> QED
    BY <2>1
<1>3. /\ \A i \in 1..Len(e) : Before(e[i], w)
      /\ c # None => Before(c, w)
      /\ \A i \in 1..Len(q) : Before(q[i], w)
  BY <1>2, WriteParts DEF InOrder, Shapes
<1> DEFINE r == Append(q, w)
<1>4. /\ Len(r) = Len(q) + 1 /\ Len(q) \in Nat /\ r[Len(q) + 1] = w
      /\ \A i \in 1..Len(q) : r[i] = q[i]
  BY WriteParts DEF Shapes
<1>5. \A j \in 1..Len(r) : j \in 1..Len(q) \/ j = Len(q) + 1
  BY <1>4
<1> HIDE DEF r
<1>6. \A j \in 1..Len(r) : r[j].n <= b2[r[j].by] /\ \A i \in 1..Len(e) : Before(e[i], r[j])
  BY <1>1, <1>3, <1>4, <1>5 DEF InOrder
<1>7. c # None => \A j \in 1..Len(r) : Before(c, r[j])
  BY <1>1, <1>3, <1>4, <1>5 DEF InOrder
<1>8. ASSUME NEW i \in 1..Len(r), NEW j \in 1..Len(r), i < j
      PROVE  Before(r[i], r[j])
  <2>1. i \in 1..Len(q)
    BY <1>4, <1>8
  <2>2. CASE j \in 1..Len(q)
    BY <1>1, <1>4, <1>8, <2>1, <2>2 DEF InOrder
  <2>3. CASE j = Len(q) + 1
    BY <1>3, <1>4, <2>1, <2>3
  <2> QED
    BY <1>5, <2>2, <2>3
<1>9. InOrder(e, c, st, r, b2)
  BY <1>1, <1>6, <1>7, <1>8 DEF InOrder
<1> QED
  BY <1>9 DEF r

\* The writer takes the oldest.
LEMMA OrderTaken ==
  ASSUME NEW e, NEW st, NEW q, NEW b, Shapes(e, None, q, b), q # <<>>, InOrder(e, None, st, q, b)
  PROVE  InOrder(e, Head(q), "taken", Tail(q), b)
<1> DEFINE r == Tail(q)
<1>1. /\ Head(q) = q[1] /\ 1 \in 1..Len(q) /\ Len(r) = Len(q) - 1 /\ Len(q) \in Nat
      /\ \A i \in 1..Len(r) : r[i] = q[i + 1] /\ i + 1 \in 1..Len(q) /\ 1 < i + 1
  BY DEF Shapes
<1> HIDE DEF r
<1>2. \A j \in 1..Len(r) : Before(Head(q), r[j])
  BY <1>1 DEF InOrder
<1>3. \A i \in 1..Len(e) : Before(e[i], Head(q))
  BY <1>1 DEF InOrder
<1>4. \A j \in 1..Len(r) : r[j].n <= b[r[j].by] /\ \A i \in 1..Len(e) : Before(e[i], r[j])
  BY <1>1 DEF InOrder
<1>5. \A i, j \in 1..Len(r) : i < j => i + 1 < j + 1 /\ Before(r[i], r[j])
  BY <1>1 DEF InOrder
<1>6. Head(q).n <= b[Head(q).by]
  BY <1>1 DEF InOrder
<1>7. InOrder(e, Head(q), "taken", r, b)
  BY <1>2, <1>3, <1>4, <1>5, <1>6 DEF InOrder
<1> QED
  BY <1>7 DEF r

\* The writer commits what it has taken.
LEMMA OrderCommitted ==
  ASSUME NEW e, NEW c \in Write, NEW q, NEW b, Shapes(e, c, q, b), InOrder(e, c, "taken", q, b)
  PROVE  InOrder(Append(e, c), c, "ok", q, b)
<1> DEFINE f == Append(e, c)
<1>1. c # None
  BY NoWriteAssumption DEF NoWriteAssumption
<1>2. /\ Len(f) = Len(e) + 1 /\ Len(e) \in Nat /\ f[Len(e) + 1] = c
      /\ \A i \in 1..Len(e) : f[i] = e[i]
  BY WriteParts DEF Shapes
<1>3. \A j \in 1..Len(f) : j \in 1..Len(e) \/ j = Len(e) + 1
  BY <1>2
<1> HIDE DEF f
<1>4. \A i \in 1..Len(f) : f[i].n <= b[f[i].by]
  BY <1>1, <1>2, <1>3 DEF InOrder
<1>5. ASSUME NEW i \in 1..Len(f), NEW j \in 1..Len(f), i < j
      PROVE  Before(f[i], f[j])
  <2>1. i \in 1..Len(e)
    BY <1>2, <1>5
  <2>2. CASE j \in 1..Len(e)
    BY <1>2, <1>5, <2>1, <2>2 DEF InOrder
  <2>3. CASE j = Len(e) + 1
    BY <1>1, <1>2, <2>1, <2>3 DEF InOrder
  <2> QED
    BY <1>3, <2>2, <2>3
<1>6. \A j \in 1..Len(q) : \A i \in 1..Len(f) : Before(f[i], q[j])
  BY <1>1, <1>2, <1>3 DEF InOrder
<1>7. InOrder(f, c, "ok", q, b)
  BY <1>4, <1>5, <1>6 DEF InOrder
<1> QED
  BY <1>7 DEF f

\* No step takes a bound back.
LEMMA BoundsRise ==
  ASSUME Channel, [Next]_vars
  PROVE  \A a \in Actors : Bound(a)' >= Bound(a)
<1> SUFFICES ASSUME NEW a \in Actors PROVE Bound(a)' >= Bound(a)
  OBVIOUS
<1>1. issued \in [Actors -> Nat] /\ pc \in [Handlers -> States] /\ issued[a] \in Nat
  BY DEF Channel, TypeOK, States
<1>2. ASSUME issued' = issued,
             \A h \in Handlers : pc'[h] \in {"waiting", "granted"} => pc[h] \in {"waiting", "granted"}
      PROVE  Bound(a)' >= Bound(a)
  BY <1>1, <1>2 DEF Bound
<1>3. ASSUME NEW h \in Handlers, Call(h)
      PROVE  Bound(a)' >= Bound(a)
  <2>1. /\ pc[h] = "idle" /\ issued' = [issued EXCEPT ![h] = @ + 1]
        /\ \A x \in Handlers : x # h => pc'[x] = pc[x]
    BY <1>1, <1>3 DEF Call, Issues
  <2> QED
    BY <1>1, <2>1 DEF Bound, Actors
<1>4. ASSUME NEW h \in Handlers, CallClosed(h)
      PROVE  Bound(a)' >= Bound(a)
  BY <1>1, <1>4 DEF CallClosed, Issues, Bound, Actors
<1>5. ASSUME NEW h \in Handlers, Push(h)
      PROVE  Bound(a)' >= Bound(a)
  BY <1>1, <1>2, <1>5 DEF Push
<1>6. ASSUME NEW h \in Handlers, Return(h)
      PROVE  Bound(a)' >= Bound(a)
  BY <1>1, <1>2, <1>6 DEF Return
<1>7. ASSUME NEW h \in Handlers, Disconnect(h)
      PROVE  Bound(a)' >= Bound(a)
  <2>1. issued' = issued
    BY <1>7 DEF Disconnect
  <2>2. \A x \in Handlers : pc'[x] \in {"waiting", "granted"} => pc[x] \in {"waiting", "granted"}
    BY <1>1, <1>7, PermitMoves
  <2> QED
    BY <1>2, <2>1, <2>2
<1>8. ASSUME NEW p \in Firers, Fire(p)
      PROVE  Bound(a)' >= Bound(a)
  <2>1. pc' = pc /\ issued' = [issued EXCEPT ![p] = @ + 1]
    BY <1>8 DEF Fire, Issues
  <2> QED
    BY <1>1, <2>1 DEF Bound, Actors
<1>9. CASE Take
  <2>1. issued' = issued
    BY <1>9 DEF Take
  <2>2. \A x \in Handlers : pc'[x] \in {"waiting", "granted"} => pc[x] \in {"waiting", "granted"}
    BY <1>1, <1>9, TakeMoves
  <2> QED
    BY <1>2, <2>1, <2>2
<1>10. CASE Process
  BY <1>2, <1>10 DEF Process, callers
<1>11. CASE Reply
  BY <1>2, <1>11 DEF Reply
<1>12. CASE WriterDies \/ Restart
  BY <1>2, <1>12 DEF WriterDies, Restart, CutOff
<1>13. CASE UNCHANGED vars
  BY <1>2, <1>13 DEF vars, callers
<1> QED
  BY <1>3, <1>4, <1>5, <1>6, <1>7, <1>8, <1>9, <1>10, <1>11, <1>12, <1>13 DEF Next

LEMMA BoundsType ==
  ASSUME Channel, Channel', [Next]_vars
  PROVE  /\ Bounds \in [Actors -> Int] /\ Bounds' \in [Actors -> Int]
         /\ \A a \in Actors : Bounds'[a] >= Bounds[a]
         /\ Shapes(effects, current, queue, Bounds)
         /\ Shapes(effects, current, queue, Bounds')
<1>1. issued \in [Actors -> Nat] /\ issued' \in [Actors -> Nat]
  BY DEF Channel, TypeOK
<1>2. Bounds \in [Actors -> Int]
  BY <1>1 DEF Bounds, Bound
<1>3. Bounds' \in [Actors -> Int]
  BY <1>1 DEF Bounds, Bound
<1>4. \A a \in Actors : Bounds'[a] >= Bounds[a]
  BY BoundsRise DEF Bounds
<1>5. effects \in Seq(Write) /\ queue \in Seq(Write) /\ current \in Write \cup {None}
  BY DEF Channel, TypeOK
<1> QED
  BY <1>2, <1>3, <1>4, <1>5 DEF Shapes

LEMMA PipelineStep ==
  ASSUME Channel, Channel', Pipeline, [Next]_vars
  PROVE  Pipeline'
<1>1. /\ \A a \in Actors : Bounds'[a] >= Bounds[a]
      /\ Bounds \in [Actors -> Int] /\ Bounds' \in [Actors -> Int]
      /\ Shapes(effects, current, queue, Bounds)
      /\ Shapes(effects, current, queue, Bounds')
      /\ InOrder(effects, current, stage, queue, Bounds)
  BY BoundsType DEF Pipeline
<1>r. InOrder(effects, current, stage, queue, Bounds')
  BY <1>1, OrderRises
<1>2. ASSUME UNCHANGED <<effects, current, stage, queue>>
      PROVE  Pipeline'
  BY <1>r, <1>2 DEF Pipeline
<1>3. ASSUME NEW h \in Handlers, Call(h) \/ CallClosed(h) \/ Return(h) \/ Disconnect(h)
      PROVE  Pipeline'
  BY <1>2, <1>3 DEF Call, CallClosed, Return, Disconnect, writer, channel
<1>4. ASSUME NEW h \in Handlers, Push(h)
      PROVE  Pipeline'
  <2> DEFINE w == [by |-> h, n |-> issued[h]]
  <2>1. /\ pc[h] = "granted" /\ queue' = Append(queue, w) /\ issued' = issued
        /\ pc'[h] = "replying" /\ UNCHANGED <<effects, current, stage>>
    BY <1>4 DEF Push, writer, Channel, TypeOK
  <2>2. w \in Write /\ issued[h] \in Nat /\ w.by = h /\ w.n = issued[h] /\ h \in Actors
    BY NewWrite DEF Channel, TypeOK, Actors
  <2>3. Bounds[h] = issued[h] - 1 /\ Bounds'[h] = issued[h]
    BY <2>1, <2>2 DEF Bounds, Bound
  <2>4. Bounds[w.by] < w.n /\ w.n <= Bounds'[w.by]
    BY <2>2, <2>3
  <2>5. InOrder(effects, current, stage, Append(queue, w), Bounds')
    <3> HIDE DEF w
    <3> QED
      BY <1>1, <2>2, <2>4, OrderPushed
  <2> QED
    BY <2>1, <2>5 DEF Pipeline
<1>5. ASSUME NEW p \in Firers, Fire(p)
      PROVE  Pipeline'
  <2> DEFINE w == [by |-> p, n |-> issued[p] + 1]
  <2>1. /\ issued' = [issued EXCEPT ![p] = @ + 1] /\ UNCHANGED <<pc, effects, current, stage>>
        /\ queue' = Append(queue, w) \/ queue' = queue
    BY <1>5 DEF Fire, Issues, writer
  <2>2. w \in Write /\ issued[p] \in Nat /\ w.by = p /\ w.n = issued[p] + 1 /\ p \in Actors
    BY NewWrite DEF Channel, TypeOK, Actors
  <2>3. p \notin Handlers /\ issued'[p] = issued[p] + 1
    BY <2>1, <2>2, DbWriterAssumption DEF DbWriterAssumption, Channel, TypeOK
  <2>4. Bounds[p] = issued[p] /\ Bounds'[p] = issued[p] + 1
    BY <2>2, <2>3 DEF Bounds, Bound
  <2>5. Bounds[w.by] < w.n /\ w.n <= Bounds'[w.by]
    BY <2>2, <2>4
  <2>6. InOrder(effects, current, stage, Append(queue, w), Bounds')
    <3> HIDE DEF w
    <3> QED
      BY <1>1, <2>2, <2>5, OrderPushed
  <2> QED
    BY <1>r, <2>1, <2>6 DEF Pipeline
<1>6. CASE Take
  <2>1. /\ current = None /\ queue # <<>> /\ current' = Head(queue) /\ stage' = "taken"
        /\ queue' = Tail(queue) /\ effects' = effects
    BY <1>6 DEF Take
  <2>2. InOrder(effects, Head(queue), "taken", Tail(queue), Bounds')
    BY <1>1, <1>r, <2>1, OrderTaken
  <2> QED
    BY <2>1, <2>2 DEF Pipeline
<1>7. CASE Process
  <2>1. /\ current \in Write /\ stage = "taken" /\ UNCHANGED <<queue, current>>
        /\ \/ effects' = Append(effects, current) /\ stage' = "ok"
           \/ effects' = effects /\ stage' = "error"
    BY <1>7 DEF Process, channel, Channel, TypeOK
  <2>2. InOrder(effects, current, "taken", queue, Bounds')
    BY <1>r, <2>1
  <2>3. InOrder(Append(effects, current), current, "ok", queue, Bounds')
    BY <1>1, <2>1, <2>2, OrderCommitted
  <2>4. InOrder(effects, current, "error", queue, Bounds')
    BY <2>2 DEF InOrder
  <2> QED
    BY <2>1, <2>3, <2>4 DEF Pipeline
<1>8. CASE Reply
  <2>1. current' = None /\ stage' = "taken" /\ UNCHANGED <<queue, effects>>
    BY <1>8 DEF Reply, channel
  <2>2. InOrder(effects, None, "taken", queue, Bounds')
    BY <1>r DEF InOrder
  <2> QED
    BY <2>1, <2>2 DEF Pipeline
<1>9. CASE WriterDies \/ Restart
  <2>1. current' = None /\ stage' = "taken" /\ queue' = <<>> /\ effects' = effects
    BY <1>9 DEF WriterDies, Restart
  <2>2. InOrder(effects, None, "taken", <<>>, Bounds')
    BY <1>r DEF InOrder
  <2> QED
    BY <2>1, <2>2 DEF Pipeline
<1>10. CASE UNCHANGED vars
  BY <1>2, <1>10 DEF vars, writer, channel
<1> QED
  BY <1>3, <1>4, <1>5, <1>6, <1>7, <1>8, <1>9, <1>10 DEF Next

LEMMA InitPipeline == Init => Pipeline
  BY DEF Init, Pipeline, InOrder

LEMMA PipelineInvariant == Spec => [](Channel /\ Pipeline)
<1>1. Init => Channel /\ Pipeline
  BY InitChannel, InitPipeline
<1>2. Channel /\ Pipeline /\ [Next]_vars => (Channel /\ Pipeline)'
  BY ChannelStep, PipelineStep
<1> QED
  BY <1>1, <1>2, PTL DEF Spec

\* What an actor writes takes effect in the order it asked and never twice, for any
\* number of actors, any channel, and any drops, failures, panics and restarts.
THEOREM WritesInProgramOrder == Spec => []ProgramOrder
<1>1. Pipeline => ProgramOrder
  BY DEF Pipeline, InOrder, Before, ProgramOrder
<1> QED
  BY <1>1, PipelineInvariant, PTL

-----------------------------------------------------------------------------
(* DbWriter implements AtomicWrites, step by step.                           *)

Own(h) == [by |-> h, n |-> issued[h]]

\* A write is in one place only, and the write of a handler that has no place in
\* the channel yet is in none.
LEMMA Places ==
  ASSUME Channel, Pipeline
  PROVE  /\ \A h \in Handlers : pc[h] \in {"waiting", "granted"} =>
              current # Own(h) /\ \A i \in 1..Len(queue) : queue[i] # Own(h)
         /\ current # None => current \in Write /\ \A i \in 1..Len(queue) : queue[i] # current
<1>1. /\ issued \in [Actors -> Nat] /\ queue \in Seq(Write) /\ current \in Write \cup {None}
      /\ InOrder(effects, current, stage, queue, Bounds)
  BY DEF Channel, TypeOK, Pipeline
<1>2. ASSUME NEW h \in Handlers, pc[h] \in {"waiting", "granted"}, NEW w \in Write, w.n <= Bounds[w.by]
      PROVE  w # Own(h)
  <2>1. h \in Actors /\ issued[h] \in Nat /\ Bounds[h] = issued[h] - 1
    BY <1>1, <1>2 DEF Actors, Bounds, Bound
  <2>2. SUFFICES ASSUME w = Own(h) PROVE FALSE
    OBVIOUS
  <2>3. w.by = h /\ w.n = issued[h]
    BY <2>2 DEF Own
  <2> QED
    BY <1>2, <2>1, <2>3
<1>3. \A i \in 1..Len(queue) : queue[i] \in Write /\ queue[i].n <= Bounds[queue[i].by]
  BY <1>1, WriteParts DEF InOrder
<1>4. current # None => current \in Write /\ current.n <= Bounds[current.by]
  BY <1>1 DEF InOrder
<1>5. ASSUME NEW h \in Handlers, pc[h] \in {"waiting", "granted"}
      PROVE  current # Own(h) /\ \A i \in 1..Len(queue) : queue[i] # Own(h)
  <2>1. Own(h) \in Write
    BY <1>1 DEF Own, Write, Actors
  <2>2. Own(h) # None
    BY <2>1, NoWriteAssumption DEF NoWriteAssumption
  <2> QED
    BY <1>2, <1>3, <1>4, <1>5, <2>2
<1>6. ASSUME current # None, NEW i \in 1..Len(queue), queue[i] = current
      PROVE  FALSE
  <2>1. Before(current, queue[i]) /\ current.n \in Nat
    BY <1>1, <1>6, WriteParts DEF InOrder
  <2> QED
    BY <1>6, <2>1 DEF Before
<1> QED
  BY <1>4, <1>5, <1>6

\* What decides how a call stands: its handler's pc, its reply and, while it waits
\* for the reply, the stage of its write.
LEMMA SameStanding ==
  ASSUME \A h \in Handlers : Progress(h)' = Progress(h)
  PROVE  Calls' = Calls
BY DEF Calls

\* One call changes its standing.
LEMMA OneStanding ==
  ASSUME NEW h \in Handlers, NEW x, Progress(h)' = x,
         \A g \in Handlers : g # h => Progress(g)' = Progress(g)
  PROVE  Calls' = [Calls EXCEPT ![h] = x]
BY DEF Calls

\* A step that leaves the pipeline alone, and who awaits what, leaves Loose alone.
LEMMA SameLoose ==
  ASSUME UNCHANGED <<queue, current, stage>>,
         \A h \in Handlers, w \in InTransit : Awaits(h, w)' <=> Awaits(h, w)
  PROVE  Loose' = Loose
<1>1. InTransit' = InTransit
  BY DEF InTransit
<1> QED
  BY <1>1 DEF Loose

LEMMA CallPromised ==
  ASSUME Channel, NEW h \in Handlers, Call(h)
  PROVE  Promised!Call(h)
<1>1. /\ pc[h] = "idle" /\ pc'[h] \in {"waiting", "granted"} /\ pc \in [Handlers -> States]
      /\ issued' = [issued EXCEPT ![h] = @ + 1] /\ issued \in [Actors -> Nat]
      /\ \A g \in Handlers : g # h => pc'[g] = pc[g] /\ issued'[g] = issued[g]
      /\ UNCHANGED <<reply, queue, current, stage, effects>>
      /\ told' = [told EXCEPT ![h] = "nothing"]
  BY ChannelFacts DEF Call, Issues, writer, Channel, TypeOK, Actors
<1>2. Progress(h) = "idle" /\ Progress(h)' = "pending"
  BY <1>1 DEF Progress
<1>3. \A g \in Handlers : g # h => Progress(g)' = Progress(g)
  BY <1>1 DEF Progress
<1>4. Calls' = [Calls EXCEPT ![h] = "pending"] /\ Calls[h] = "idle"
  BY <1>2, <1>3, OneStanding DEF Calls
<1>5. Loose' = Loose
  BY <1>1, SameLoose DEF Awaits
<1> QED
  BY <1>1, <1>4, <1>5 DEF Promised!Call, Promised!Issue

LEMMA ClosedPromised ==
  ASSUME Channel, NEW h \in Handlers, CallClosed(h)
  PROVE  Promised!Rejected(h)
<1>1. /\ pc[h] = "idle" /\ issued' = [issued EXCEPT ![h] = @ + 1] /\ issued \in [Actors -> Nat]
      /\ \A g \in Handlers : g # h => issued'[g] = issued[g]
      /\ UNCHANGED <<pc, reply, queue, current, stage, effects>>
      /\ told' = [told EXCEPT ![h] = "closed"]
  BY DEF CallClosed, Issues, writer, channel, Channel, TypeOK, Actors
<1>2. \A g \in Handlers : Progress(g)' = Progress(g)
  BY <1>1 DEF Progress
<1>3. Calls' = Calls /\ Calls[h] = "idle"
  BY <1>1, <1>2, SameStanding DEF Calls, Progress
<1>4. Loose' = Loose
  BY <1>1, SameLoose DEF Awaits
<1> QED
  BY <1>1, <1>3, <1>4 DEF Promised!Rejected, Promised!Issue

LEMMA PushPromised ==
  ASSUME Channel, Pipeline, NEW h \in Handlers, Push(h)
  PROVE  UNCHANGED Promised!vars
<1>1. /\ pc[h] = "granted" /\ queue' = Append(queue, Own(h)) /\ pc'[h] = "replying"
      /\ \A g \in Handlers : g # h => pc'[g] = pc[g]
      /\ UNCHANGED <<issued, reply, told, current, stage, effects>> /\ queue \in Seq(Write)
  BY DEF Push, Own, writer, Channel, TypeOK
<1>2. current # Own(h) /\ \A i \in 1..Len(queue) : queue[i] # Own(h)
  BY <1>1, Places
<1>3. \A g \in Handlers : Progress(g)' = Progress(g)
  BY <1>1, <1>2 DEF Progress, Own
<1>4. /\ Len(queue') = Len(queue) + 1 /\ Len(queue) \in Nat /\ queue'[Len(queue) + 1] = Own(h)
      /\ \A i \in 1..Len(queue) : queue'[i] = queue[i]
  BY <1>1
<1>5. InTransit' = InTransit \cup {Own(h)} /\ Own(h) \notin InTransit
  BY <1>1, <1>2, <1>4 DEF InTransit
<1>6. /\ \A w \in InTransit : \A g \in Handlers : Awaits(g, w)' <=> Awaits(g, w)
      /\ \A w : w = Own(h) => Awaits(h, w)'
  BY <1>1, <1>5 DEF Awaits, Own
<1>7. \A w : w \in Loose' <=> w \in Loose
  BY <1>5, <1>6 DEF Loose
<1> QED
  BY <1>1, <1>3, <1>7, SameStanding DEF Promised!vars

LEMMA FirePromised ==
  ASSUME Channel, NEW p \in Firers, Fire(p)
  PROVE  Promised!Fire(p)
<1> DEFINE w == [by |-> p, n |-> issued[p] + 1]
<1>1. /\ issued' = [issued EXCEPT ![p] = @ + 1] /\ issued \in [Actors -> Nat]
      /\ UNCHANGED <<pc, reply, told, current, stage, effects>> /\ queue \in Seq(Write)
      /\ queue' = Append(queue, w) \/ queue' = queue
  BY DEF Fire, Issues, writer, Channel, TypeOK
<1>2. p \notin Handlers /\ \A h \in Handlers : issued'[h] = issued[h]
  BY <1>1, DbWriterAssumption DEF DbWriterAssumption, Actors
<1>3. \A g \in Handlers : Progress(g)' = Progress(g)
  BY <1>1, <1>2 DEF Progress
<1>4. Calls' = Calls
  BY <1>3, SameStanding
<1>5. \A v : \A g \in Handlers : Awaits(g, v)' <=> Awaits(g, v)
  BY <1>1, <1>2 DEF Awaits
<1>6. \A v : v = w => \A g \in Handlers : ~Awaits(g, v)'
  BY <1>2 DEF Awaits
<1>7. CASE queue' = queue
  BY <1>1, <1>4, <1>5, <1>7, SameLoose DEF Promised!Fire, Promised!Issue
<1>8. CASE queue' = Append(queue, w)
  <2>1. /\ Len(queue') = Len(queue) + 1 /\ Len(queue) \in Nat /\ queue'[Len(queue) + 1] = w
        /\ \A i \in 1..Len(queue) : queue'[i] = queue[i]
    BY <1>1, <1>8
  <2>2. InTransit' = InTransit \cup {w}
    <3> HIDE DEF w
    <3> QED
      BY <1>1, <2>1 DEF InTransit
  <2>3. \A v : v \in Loose' <=> v \in Loose \cup {w}
    <3> HIDE DEF w
    <3> QED
      BY <2>2, <1>5, <1>6 DEF Loose
  <2>4. Loose' = Loose \cup {w}
    BY <2>3
  <2> QED
    BY <1>1, <1>4, <2>4 DEF Promised!Fire, Promised!Issue
<1> QED
  BY <1>1, <1>7, <1>8

LEMMA TakePromised ==
  ASSUME Channel, Take
  PROVE  UNCHANGED Promised!vars
<1>1. /\ current = None /\ queue # <<>> /\ queue \in Seq(Write)
      /\ current' = Head(queue) /\ stage' = "taken" /\ queue' = Tail(queue)
      /\ UNCHANGED <<issued, reply, told, effects>>
  BY DEF Take, Channel, TypeOK
<1>2. \A h \in Handlers : pc'[h] = pc[h] \/ (pc[h] = "waiting" /\ pc'[h] = "granted")
  BY TakeMoves
<1>3. \A h \in Handlers : Own(h) # None
  <2>1. \A h \in Handlers : Own(h) \in Write
    BY DEF Own, Write, Actors, Channel, TypeOK
  <2> QED
    BY <2>1, NoWriteAssumption DEF NoWriteAssumption
<1>4. \A h \in Handlers : Progress(h)' = Progress(h)
  BY <1>1, <1>2, <1>3 DEF Progress, Own
<1>5. \A w : \A h \in Handlers : Awaits(h, w)' <=> Awaits(h, w)
  BY <1>1, <1>2 DEF Awaits
<1>6. /\ Len(queue') = Len(queue) - 1 /\ Len(queue) \in Nat /\ 1 \in 1..Len(queue)
      /\ current' = queue[1]
      /\ \A i \in 1..Len(queue') : queue'[i] = queue[i + 1] /\ i + 1 \in 1..Len(queue)
      /\ \A i \in 1..Len(queue) : i = 1 \/ (i - 1 \in 1..Len(queue') /\ queue[i] = queue'[i - 1])
  BY <1>1
<1>7. current' \in Write /\ current' # None
  BY <1>1, NoWriteAssumption DEF NoWriteAssumption
<1>8. InTransit' = InTransit
  <2>1. InTransit = {queue[i] : i \in 1..Len(queue)}
    BY <1>1 DEF InTransit
  <2>2. InTransit' = {queue'[i] : i \in 1..Len(queue')} \cup {current'}
    BY <1>1, <1>7 DEF InTransit
  <2>3. \A w : w \in InTransit => w \in InTransit'
    BY <1>6, <2>1, <2>2
  <2>4. \A w : w \in InTransit' => w \in InTransit
    BY <1>6, <2>1, <2>2
  <2> QED
    BY <2>3, <2>4
<1>9. Loose' = Loose
  BY <1>5, <1>8 DEF Loose
<1> QED
  BY <1>1, <1>4, <1>9, SameStanding DEF Promised!vars

\* What the pipeline holds besides the command that the writer is at.
LEMMA AtCurrent ==
  ASSUME Channel, Pipeline, current # None
  PROVE  /\ current \in Write
         /\ stage = "taken" => InTransit = {queue[i] : i \in 1..Len(queue)} \cup {current}
         /\ stage # "taken" => InTransit = {queue[i] : i \in 1..Len(queue)}
         /\ current \notin {queue[i] : i \in 1..Len(queue)}
BY Places DEF InTransit

LEMMA ProcessPromised ==
  ASSUME Channel, Pipeline, Process
  PROVE  Promised!Next
<1>1. /\ current # None /\ stage = "taken" /\ UNCHANGED <<callers, channel, current>>
      /\ \/ effects' = Append(effects, current) /\ stage' = "ok"
         \/ effects' = effects /\ stage' = "error"
  BY DEF Process
<1>2. UNCHANGED <<issued, pc, reply, told, queue>>
  BY <1>1 DEF callers, channel
<1> DEFINE held == {queue[i] : i \in 1..Len(queue)}
<1>3. current \in Write /\ InTransit = held \cup {current} /\ current \notin held
  BY <1>1, AtCurrent
<1>4. InTransit' = held
  BY <1>1, <1>2 DEF InTransit
<1>5. \A w : \A h \in Handlers : Awaits(h, w)' <=> Awaits(h, w)
  BY <1>2 DEF Awaits
<1> HIDE DEF held
<1>6. ASSUME NEW h \in Handlers, Awaits(h, current)
      PROVE  Promised!TakesEffect(h) \/ Promised!Fails(h)
  <2>1. pc[h] = "replying" /\ current = Own(h) /\ current.by = h
    BY <1>6 DEF Awaits, Own
  <2>2. Progress(h) = "pending"
    BY <1>1, <2>1 DEF Progress, Own
  <2>3. Progress(h)' = IF stage' = "ok" THEN "applied" ELSE "failed"
    BY <1>1, <1>2, <2>1 DEF Progress, Own
  <2>4. \A g \in Handlers : g # h => Progress(g)' = Progress(g)
    <3>1. \A g \in Handlers : g # h => current # [by |-> g, n |-> issued[g]]
      BY <2>1
    <3> QED
      BY <1>1, <1>2, <3>1 DEF Progress
  <2>5. Calls' = [Calls EXCEPT ![h] = IF stage' = "ok" THEN "applied" ELSE "failed"]
    BY <2>3, <2>4, OneStanding
  <2>6. Calls[h] = "pending"
    BY <2>2 DEF Calls
  <2>7. Loose' = Loose
    BY <1>3, <1>4, <1>5, <1>6 DEF Loose
  <2>8. CASE effects' = Append(effects, current) /\ stage' = "ok"
    BY <1>2, <2>1, <2>5, <2>6, <2>7, <2>8 DEF Promised!TakesEffect, Promised!Newest, Own
  <2>9. CASE effects' = effects /\ stage' = "error"
    BY <1>2, <2>5, <2>6, <2>7, <2>9 DEF Promised!Fails
  <2> QED
    BY <1>1, <2>8, <2>9
<1>7. ASSUME \A h \in Handlers : ~Awaits(h, current)
      PROVE  current \in Loose /\ (Promised!LooseTakesEffect(current) \/ Promised!LooseFails(current))
  <2>1. \A h \in Handlers : Progress(h)' = Progress(h)
    BY <1>1, <1>2, <1>7 DEF Progress, Awaits
  <2>2. Calls' = Calls
    BY <2>1, SameStanding
  <2>3. current \in Loose /\ Loose' = Loose \ {current}
    BY <1>3, <1>4, <1>5, <1>7 DEF Loose
  <2> QED
    BY <1>1, <1>2, <2>2, <2>3 DEF Promised!LooseTakesEffect, Promised!LooseFails
<1> QED
  BY <1>6, <1>7 DEF Promised!Next

LEMMA ReplyPromised ==
  ASSUME Channel, Pipeline, Reply
  PROVE  UNCHANGED Promised!vars
<1> DEFINE hears == {h \in Handlers : Awaits(h, current)}
<1>1. /\ current # None /\ stage # "taken" /\ current' = None /\ stage' = "taken"
      /\ pc' = [h \in Handlers |-> IF h \in hears THEN "answered" ELSE pc[h]]
      /\ reply' = [h \in Handlers |-> IF h \in hears THEN stage ELSE reply[h]]
      /\ UNCHANGED <<issued, told, queue, effects>>
  BY DEF Reply, channel
<1>2. stage \in {"ok", "error"}
  BY <1>1 DEF Channel, TypeOK
<1>3. \A h \in Handlers : Own(h) # None
  <2>1. \A h \in Handlers : Own(h) \in Write
    BY DEF Own, Write, Actors, Channel, TypeOK
  <2> QED
    BY <2>1, NoWriteAssumption DEF NoWriteAssumption
<1>4. ASSUME NEW h \in Handlers
      PROVE  Progress(h)' = Progress(h)
  <2>1. CASE h \in hears
    BY <1>1, <1>2, <2>1 DEF Progress, Awaits
  <2>2. CASE h \notin hears
    <3>1. pc'[h] = pc[h] /\ reply'[h] = reply[h] /\ ~(pc[h] = "replying" /\ current = Own(h))
      BY <1>1, <2>2 DEF Awaits, Own
    <3> QED
      BY <1>1, <1>3, <3>1 DEF Progress, Own
  <2> QED
    BY <2>1, <2>2
<1>5. InTransit' = InTransit /\ current \notin InTransit
  <2>1. InTransit = {queue[i] : i \in 1..Len(queue)} /\ current \notin InTransit
    BY <1>1, AtCurrent
  <2>2. InTransit' = {queue[i] : i \in 1..Len(queue)}
    BY <1>1 DEF InTransit
  <2> QED
    BY <2>1, <2>2
<1>6. \A h \in Handlers : \A w : w # current => (Awaits(h, w)' <=> Awaits(h, w))
  <2> SUFFICES ASSUME NEW h \in Handlers, NEW w, w # current PROVE Awaits(h, w)' <=> Awaits(h, w)
    OBVIOUS
  <2>1. CASE h \in hears
    BY <1>1, <2>1 DEF Awaits
  <2>2. CASE h \notin hears
    BY <1>1, <2>2 DEF Awaits
  <2> QED
    BY <2>1, <2>2
<1>7. Loose' = Loose
  BY <1>5, <1>6 DEF Loose
<1> QED
  BY <1>1, <1>4, <1>7, SameStanding DEF Promised!vars

LEMMA ReturnPromised ==
  ASSUME Channel, NEW h \in Handlers, Return(h)
  PROVE  Promised!Answer(h)
<1>1. /\ pc[h] = "answered" /\ pc'[h] = "idle"
      /\ \A g \in Handlers : g # h => pc'[g] = pc[g] /\ reply'[g] = reply[g]
      /\ told' = [told EXCEPT ![h] = reply[h]]
      /\ UNCHANGED <<issued, queue, current, stage, effects>>
  BY DEF Return, channel, writer, Channel, TypeOK
<1>2. reply[h] \in {"ok", "error"}
  BY <1>1 DEF Channel, TypeOK, ReplyOK
<1>3. Progress(h)' = "idle" /\ Progress(h) = IF reply[h] = "ok" THEN "applied" ELSE "failed"
  BY <1>1 DEF Progress
<1>4. \A g \in Handlers : g # h => Progress(g)' = Progress(g)
  BY <1>1 DEF Progress
<1>5. Calls' = [Calls EXCEPT ![h] = "idle"] /\ Calls[h] = Progress(h)
  BY <1>3, <1>4, OneStanding DEF Calls
<1>6. \A g \in Handlers : \A w : Awaits(g, w)' <=> Awaits(g, w)
  BY <1>1 DEF Awaits
<1>7. Loose' = Loose
  BY <1>1, <1>6, SameLoose
<1> QED
  BY <1>1, <1>2, <1>3, <1>5, <1>7 DEF Promised!Answer

LEMMA DisconnectPromised ==
  ASSUME Channel, Pipeline, NEW h \in Handlers, Disconnect(h)
  PROVE  Promised!Abandon(h)
<1>1. /\ pc[h] # "idle" /\ pc'[h] = "idle"
      /\ \A g \in Handlers : g # h => pc'[g] = pc[g] \/ (pc[g] = "waiting" /\ pc'[g] = "granted")
  BY PermitMoves
<1>2. /\ told' = [told EXCEPT ![h] = "closed"]
      /\ reply' = [reply EXCEPT ![h] = "nothing"]
      /\ UNCHANGED <<issued, queue, current, stage, effects>>
  BY DEF Disconnect, writer
<1>3. \A g \in Handlers : g # h => reply'[g] = reply[g]
  BY <1>2 DEF Channel, TypeOK
<1>4. Progress(h)' = "idle" /\ Progress(h) # "idle"
  BY <1>1 DEF Progress
<1>5. \A g \in Handlers : g # h => Progress(g)' = Progress(g)
  BY <1>1, <1>2, <1>3 DEF Progress
<1>6. Calls' = [Calls EXCEPT ![h] = "idle"] /\ Calls[h] # "idle" /\ Calls[h] = Progress(h)
  BY <1>4, <1>5, OneStanding DEF Calls
<1>7. InTransit' = InTransit
  BY <1>2 DEF InTransit
<1>8. \A g \in Handlers : \A w : g # h => (Awaits(g, w)' <=> Awaits(g, w))
  BY <1>1, <1>2 DEF Awaits
<1>9. \A w : ~Awaits(h, w)'
  BY <1>1 DEF Awaits
<1>10. CASE pc[h] # "replying" \/ Own(h) \notin InTransit
  <2>1. \A w \in InTransit : ~Awaits(h, w)
    BY <1>10 DEF Awaits, Own
  <2>2. Loose' = Loose
    BY <1>7, <1>8, <1>9, <2>1 DEF Loose
  <2> QED
    BY <1>2, <1>6, <2>2 DEF Promised!Abandon
<1>11. CASE pc[h] = "replying" /\ Own(h) \in InTransit
  <2>1. ~(current = Own(h) /\ stage # "taken")
    <3>1. Own(h) \in Write /\ Own(h) # None
      <4>1. Own(h) \in Write
        BY DEF Own, Write, Actors, Channel, TypeOK
      <4> QED
        BY <4>1, NoWriteAssumption DEF NoWriteAssumption
    <3> QED
      BY <1>11, <3>1, AtCurrent
  <2>2. Progress(h) = "pending"
    BY <1>11, <2>1 DEF Progress, Own
  <2>3. \A w : Awaits(h, w) <=> w = Own(h)
    BY <1>11 DEF Awaits, Own
  <2>4. \A g \in Handlers : Awaits(g, Own(h)) => g = h
    <3>1. \A g \in Handlers : [by |-> g, n |-> issued[g]].by = g
      OBVIOUS
    <3> QED
      BY <3>1 DEF Awaits, Own
  <2>5. \A w : w \in Loose' <=> w \in Loose \cup {Own(h)}
    BY <1>7, <1>8, <1>9, <1>11, <2>3, <2>4 DEF Loose
  <2>6. Loose' = Loose \cup {Own(h)}
    BY <2>5
  <2>7. Loose' \in {Loose \cup {Promised!Newest(x)} : x \in {y \in {h} : Calls[y] = "pending"}}
    BY <1>6, <2>2, <2>6 DEF Own, Promised!Newest
  <2> QED
    BY <1>2, <1>6, <2>7 DEF Promised!Abandon
<1> QED
  BY <1>10, <1>11

\* The writer dies, or the process: every call not yet answered is cut.
LEMMA CrashPromised ==
  ASSUME Channel, WriterDies \/ Restart
  PROVE  Promised!Next
<1>1. current' = None /\ queue' = <<>> /\ UNCHANGED <<issued, effects>>
  BY DEF WriterDies, Restart
<1>2. InTransit' = {}
  BY <1>1 DEF InTransit
<1>3. Loose' = {}
  BY <1>2 DEF Loose
<1>4. pc \in [Handlers -> States] /\ told \in [Handlers -> {"nothing", "ok", "error", "closed"}]
  BY DEF Channel, TypeOK, States
<1>5. CASE WriterDies
  <2> DEFINE cut == {h \in Handlers : CutOff(h)}
  <2>1. /\ pc' = [h \in Handlers |-> IF h \in cut THEN "idle" ELSE pc[h]]
        /\ told' = [h \in Handlers |-> IF h \in cut THEN "closed" ELSE told[h]]
        /\ reply' = reply
    BY <1>5 DEF WriterDies
  <2>2. \A h \in cut : Calls[h] # "idle"
    BY DEF Calls, Progress, CutOff
  <2>3. \A h \in Handlers \ cut : pc[h] \in {"idle", "answered"}
    BY <1>4 DEF CutOff, States
  <2>4. \A h \in Handlers \ cut : Calls[h] # "pending"
    BY <2>3 DEF Calls, Progress
  <2>5. \A h \in Handlers : Progress(h)' = IF h \in cut THEN "idle" ELSE Calls[h]
    <3> HIDE DEF cut
    <3> QED
      BY <2>1, <2>3 DEF Calls, Progress
  <2>6. Calls' = [h \in Handlers |-> IF h \in cut THEN "idle" ELSE Calls[h]]
    <3> HIDE DEF cut
    <3>1. Calls' = [h \in Handlers |-> Progress(h)']
      BY DEF Calls
    <3> QED
      BY <2>5, <3>1
  <2>7. Promised!Crash(cut)
    <3> HIDE DEF cut
    <3> QED
      BY <1>1, <1>3, <2>1, <2>2, <2>4, <2>6 DEF Promised!Crash
  <2> QED
    BY <2>7 DEF Promised!Next
<1>6. CASE Restart
  <2> DEFINE cut == {h \in Handlers : pc[h] # "idle"}
  <2>1. /\ pc' = [h \in Handlers |-> "idle"]
        /\ told' = [h \in Handlers |-> IF h \in cut THEN "closed" ELSE told[h]]
    BY <1>6 DEF Restart
  <2>2. \A h \in cut : Calls[h] # "idle"
    BY DEF Calls, Progress
  <2>3. \A h \in Handlers \ cut : Calls[h] = "idle"
    BY DEF Calls, Progress
  <2>4. \A h \in Handlers : Progress(h)' = "idle"
    BY <2>1 DEF Progress
  <2>5. Calls' = [h \in Handlers |-> IF h \in cut THEN "idle" ELSE Calls[h]]
    <3> HIDE DEF cut
    <3>1. Calls' = [h \in Handlers |-> Progress(h)']
      BY DEF Calls
    <3> QED
      BY <2>3, <2>4, <3>1
  <2>6. Promised!Crash(cut)
    <3> HIDE DEF cut
    <3> QED
      BY <1>1, <1>3, <2>1, <2>2, <2>3, <2>5 DEF Promised!Crash
  <2> QED
    BY <2>6 DEF Promised!Next
<1> QED
  BY <1>5, <1>6

LEMMA NothingPromised ==
  ASSUME UNCHANGED vars
  PROVE  UNCHANGED Promised!vars
<1>1. UNCHANGED <<issued, pc, reply, told, queue, current, stage, effects>>
  BY DEF vars, callers, channel, writer
<1>2. Calls' = Calls /\ Loose' = Loose
  BY <1>1 DEF Calls, Progress, Loose, InTransit, Awaits
<1> QED
  BY <1>1, <1>2 DEF Promised!vars

LEMMA StepPromised ==
  ASSUME Channel, Pipeline, [Next]_vars
  PROVE  [Promised!Next]_(Promised!vars)
<1>1. ASSUME NEW h \in Handlers, Call(h) \/ CallClosed(h) \/ Return(h) \/ Disconnect(h)
      PROVE  Promised!Next
  BY <1>1, CallPromised, ClosedPromised, ReturnPromised, DisconnectPromised DEF Promised!Next
<1>2. ASSUME NEW h \in Handlers, Push(h)
      PROVE  UNCHANGED Promised!vars
  BY <1>2, PushPromised
<1>3. ASSUME NEW p \in Firers, Fire(p)
      PROVE  Promised!Next
  BY <1>3, FirePromised DEF Promised!Next
<1> QED
  BY <1>1, <1>2, <1>3, TakePromised, ProcessPromised, ReplyPromised, CrashPromised, NothingPromised
  DEF Next

\* Through its channel and its task the writer keeps the promise of AtomicWrites: a
\* handler told Ok has had its write committed, once, between its call and the
\* answer; one told an error never will have; and a write nobody waits for any more
\* is committed at most once.
THEOREM WriterKeepsItsPromise == Spec => KeepsPromise
<1>1. Init => Promised!Init
  <2> SUFFICES ASSUME Init PROVE Promised!Init
    OBVIOUS
  <2>1. Calls = [h \in Handlers |-> "idle"]
    BY DEF Init, Calls, Progress
  <2>2. InTransit = {}
    BY DEF Init, InTransit
  <2> QED
    BY <2>1, <2>2 DEF Init, Promised!Init, Loose, Actors
<1>2. Channel /\ Pipeline /\ [Next]_vars => [Promised!Next]_(Promised!vars)
  BY StepPromised
<1> QED
  BY <1>1, <1>2, PipelineInvariant, PTL DEF Spec, KeepsPromise, Promised!Spec
=============================================================================
