---------------------------- MODULE AccountsProofs ----------------------------
(***************************************************************************)
(* Proofs about Access, for any limit, any number of handlers and of rows.  *)
(* Limits accounts for what was counted and is not yet written; Rows for    *)
(* what was answered: an id is one row's, and it is not asked for twice.    *)
(* And about Credentials, for any requests, passwords and secrets: what a   *)
(* request under way, a link and a factor have to do with the row.          *)
(***************************************************************************)
EXTENDS MCAccounts, FiniteSetTheorems, SequenceTheorems, TLAPS

ActiveRows(R) == {w \in R : w.state \in {"active", "off"}}

CreationsOf(q) == {i \in DOMAIN q : q[i].op = "create"}

IdsOf(R) == {w.id : w \in R}

\* CapIsSoft needs that together never was less than what is under way now, and that
\* a switch finds no row that expired: such a row would count again.
Limits ==
  /\ Cardinality(CreationsOf(queue)) <= together /\ together < next
  /\ kind # "webhook" => Cardinality(ActiveRows(rows)) + Cardinality(CreationsOf(queue)) <= Cap - 1 + together
  /\ kind # "key" => \A w \in rows : w.state # "expired"
  /\ kind # "rule" => \A i \in DOMAIN queue : queue[i].op \in {"create", "end"}

\* An id on its way to the table is not in it, and on its way once.
FreshIds ==
  /\ \A i \in DOMAIN queue : queue[i].op = "create" => queue[i].id \notin IdsOf(rows)
  /\ \A i, j \in DOMAIN queue :
       queue[i].op = "create" /\ queue[j].op = "create" /\ queue[i].id = queue[j].id => i = j
  /\ \A i \in DOMAIN queue : queue[i].id < next
  /\ \A w \in rows : w.id < next

Answers ==
  /\ told.ended \subseteq IdsOf(rows)
  /\ \A w \in rows : w.id \in told.ended => w.state = "ended"
  /\ \A i \in DOMAIN queue : queue[i].op = "end" /\ queue[i].of = Owner => queue[i].id \in asked
  /\ \A id \in told.made : id \in asked \/ \E w \in rows : w.id = id /\ w.state # "ended"

AccessInv == A!TypeOK /\ IsFiniteSet(rows) /\ Limits /\ FreshIds /\ Answers

-----------------------------------------------------------------------------
(* Lemmas on the queue and on the rows                                       *)

LEMMA SameCardinality == \A S : A!Cardinality(S) = Cardinality(S)
BY DEF A!Cardinality, Cardinality

LEMMA CreationsFinite ==
  ASSUME NEW q \in Seq(A!Commands)
  PROVE  IsFiniteSet(CreationsOf(q)) /\ Cardinality(CreationsOf(q)) \in Nat
<1>1. CreationsOf(q) \subseteq 1..Len(q) /\ Len(q) \in Nat
  BY LenProperties DEF CreationsOf
<1>2. IsFiniteSet(1..Len(q))
  BY <1>1, FS_Interval
<1>3. QED
  BY <1>1, <1>2, FS_Subset, FS_CardinalityType

LEMMA Appended ==
  ASSUME NEW q \in Seq(A!Commands), NEW c \in A!Commands
  PROVE  /\ Append(q, c) \in Seq(A!Commands)
         /\ \A i \in DOMAIN Append(q, c) :
              (i \in DOMAIN q /\ Append(q, c)[i] = q[i]) \/ (i = Len(q) + 1 /\ Append(q, c)[i] = c)
         /\ c.op # "create" => CreationsOf(Append(q, c)) = CreationsOf(q)
         /\ c.op = "create" =>
              Cardinality(CreationsOf(Append(q, c))) = Cardinality(CreationsOf(q)) + 1
<1>1. /\ Append(q, c) \in Seq(A!Commands) /\ Len(q) \in Nat
      /\ DOMAIN q = 1..Len(q) /\ DOMAIN Append(q, c) = 1..(Len(q) + 1)
      /\ \A i \in 1..Len(q) : Append(q, c)[i] = q[i]
      /\ Append(q, c)[Len(q) + 1] = c
  OBVIOUS
<1>2. c.op # "create" => CreationsOf(Append(q, c)) = CreationsOf(q)
  BY <1>1 DEF CreationsOf
<1>3. c.op = "create" => CreationsOf(Append(q, c)) = CreationsOf(q) \cup {Len(q) + 1}
  BY <1>1 DEF CreationsOf
<1>4. Len(q) + 1 \notin CreationsOf(q)
  BY <1>1 DEF CreationsOf
<1>5. QED
  BY <1>1, <1>2, <1>3, <1>4, CreationsFinite, FS_AddElement

LEMMA Taken ==
  ASSUME NEW q \in Seq(A!Commands), q # <<>>
  PROVE  /\ Head(q) \in A!Commands /\ Head(q) = q[1] /\ 1 \in DOMAIN q
         /\ Tail(q) \in Seq(A!Commands)
         /\ \A i \in DOMAIN Tail(q) : i + 1 \in DOMAIN q /\ i + 1 # 1 /\ Tail(q)[i] = q[i + 1]
         /\ Cardinality(CreationsOf(Tail(q))) <=
              IF Head(q).op = "create" THEN Cardinality(CreationsOf(q)) - 1
                                       ELSE Cardinality(CreationsOf(q))
<1>1. /\ Head(q) \in A!Commands /\ Head(q) = q[1] /\ 1 \in DOMAIN q
      /\ Tail(q) \in Seq(A!Commands)
      /\ \A i \in DOMAIN Tail(q) : i \in Nat /\ i # 0 /\ i + 1 \in DOMAIN q /\ i + 1 # 1 /\ Tail(q)[i] = q[i + 1]
  OBVIOUS
<1> DEFINE T == CreationsOf(Tail(q))
           S == CreationsOf(q) \ {1}
           f == [i \in T |-> i + 1]
<1>2. IsFiniteSet(S) /\ Cardinality(S) = IF 1 \in CreationsOf(q) THEN Cardinality(CreationsOf(q)) - 1
                                                                 ELSE Cardinality(CreationsOf(q))
  BY CreationsFinite, FS_RemoveElement
<1>3. 1 \in CreationsOf(q) <=> Head(q).op = "create"
  BY <1>1 DEF CreationsOf
<1>4. f \in Injection(T, S)
  <2>1. \A i \in T : i \in Nat /\ i + 1 \in S
    <3> SUFFICES ASSUME NEW i \in T PROVE i \in Nat /\ i + 1 \in S
      OBVIOUS
    <3>1. i \in DOMAIN Tail(q) /\ Tail(q)[i].op = "create"
      BY DEF CreationsOf
    <3>2. i \in Nat /\ i + 1 \in DOMAIN q /\ i + 1 # 1 /\ Tail(q)[i] = q[i + 1]
      BY <1>1, <3>1
    <3>3. q[i + 1].op = "create"
      BY <3>1, <3>2
    <3>4. QED
      BY <3>2, <3>3 DEF CreationsOf
  <2>2. f \in [T -> S]
    BY <2>1
  <2>3. \A i, j \in T : f[i] = f[j] => i = j
    BY <2>1
  <2>4. QED
    BY <2>2, <2>3 DEF Injection, IsInjective
<1>5. Cardinality(T) <= Cardinality(S)
  BY <1>2, <1>4, FS_Injection
<1>6. QED
  BY <1>1, <1>2, <1>3, <1>5

LEMMA ActiveFinite ==
  ASSUME NEW R, IsFiniteSet(R)
  PROVE  IsFiniteSet(ActiveRows(R)) /\ Cardinality(ActiveRows(R)) \in Nat
<1>1. ActiveRows(R) \subseteq R
  BY DEF ActiveRows
<1>2. QED
  BY <1>1, FS_Subset, FS_CardinalityType

LEMMA ActiveShrinks ==
  ASSUME NEW R, IsFiniteSet(R), NEW T, ActiveRows(T) \subseteq ActiveRows(R)
  PROVE  Cardinality(ActiveRows(T)) <= Cardinality(ActiveRows(R))
BY ActiveFinite, FS_Subset

\* Rows that are changed one by one, none of them to count that did not.
LEMMA ActiveMapped ==
  ASSUME NEW R, IsFiniteSet(R), NEW f, DOMAIN f = R,
         \A w \in R : f[w].state \in {"active", "off"} => w.state \in {"active", "off"}
  PROVE  /\ IsFiniteSet({f[w] : w \in R})
         /\ Cardinality(ActiveRows({f[w] : w \in R})) <= Cardinality(ActiveRows(R))
<1> DEFINE T == {f[w] : w \in R}
           S == {w \in R : f[w].state \in {"active", "off"}}
           g == [w \in R |-> f[w]]
           h == [w \in S |-> f[w]]
<1>1. g \in Surjection(R, T)
  BY DEF Surjection
<1>2. IsFiniteSet(T)
  BY <1>1, FS_Surjection
<1>3. S \subseteq ActiveRows(R)
  BY DEF ActiveRows
<1>4. IsFiniteSet(S) /\ Cardinality(S) <= Cardinality(ActiveRows(R)) /\ Cardinality(S) \in Nat
  BY <1>3, ActiveFinite, FS_Subset, FS_CardinalityType
<1>5. h \in Surjection(S, ActiveRows(T))
  <2>1. h \in [S -> ActiveRows(T)]
    BY DEF ActiveRows
  <2>2. \A t \in ActiveRows(T) : \E w \in S : h[w] = t
    BY DEF ActiveRows
  <2>3. QED
    BY <2>1, <2>2 DEF Surjection
<1>6. IsFiniteSet(ActiveRows(T)) /\ Cardinality(ActiveRows(T)) <= Cardinality(S)
  BY <1>4, <1>5, FS_Surjection
<1>7. Cardinality(ActiveRows(T)) \in Nat /\ Cardinality(ActiveRows(R)) \in Nat
  BY <1>2, ActiveFinite
<1>8. QED
  BY <1>2, <1>4, <1>6, <1>7

-----------------------------------------------------------------------------
(* The steps                                                                 *)

LEMMA AccessInit == A!Init => AccessInv
<1> SUFFICES ASSUME A!Init PROVE AccessInv
  OBVIOUS
<1>1. A!TypeOK
  <2>1. queue \in Seq(A!Commands) /\ 0 \in 0..MaxRows /\ 1 \in 1..MaxRows + 1 /\ 0 \in 0..MaxFaults
    BY AccessConstants, EmptySeq DEF A!Init, A!AccessAssumption
  <2>2. QED
    BY <2>1 DEF A!Init, A!TypeOK, A!Idle
<1>2. rows = {} /\ IsFiniteSet(rows) /\ DOMAIN queue = {}
  BY FS_EmptySet DEF A!Init
<1>3. ActiveRows(rows) = {} /\ CreationsOf(queue) = {}
  BY <1>2 DEF ActiveRows, CreationsOf
<1>4. Cardinality(ActiveRows(rows)) = 0 /\ Cardinality(CreationsOf(queue)) = 0
  BY <1>3, FS_EmptySet
<1>5. Limits
  BY AccessConstants, <1>2, <1>4 DEF Limits, A!Init, A!AccessAssumption
<1>6. FreshIds /\ Answers
  BY <1>2 DEF A!Init, FreshIds, Answers
<1>7. QED
  BY <1>1, <1>2, <1>5, <1>6 DEF AccessInv

\* A step that moves one handler and nothing else that is kept.
LEMMA HandlerMoves ==
  ASSUME AccessInv, UNCHANGED <<kind, rows, next, queue, told, asked, together, faults>>,
         entitled' \in BOOLEAN, slot' \in [Requests -> [at : {"idle", "gated", "waiting"}]]
  PROVE  AccessInv'
<1>1. A!TypeOK'
  BY DEF AccessInv, A!TypeOK
<1>2. Limits' /\ FreshIds' /\ Answers' /\ IsFiniteSet(rows')
  BY DEF AccessInv, Limits, FreshIds, Answers
<1>3. QED
  BY <1>1, <1>2 DEF AccessInv

LEMMA GoesTyped ==
  ASSUME A!TypeOK, NEW r \in Requests, NEW w \in {"idle", "gated", "waiting"}, A!Goes(r, [at |-> w])
  PROVE  slot' \in [Requests -> [at : {"idle", "gated", "waiting"}]]
BY DEF A!TypeOK, A!Goes

\* Create: what is counted and what is under way stay below the limit together.
LEMMA CreateStep == ASSUME AccessInv, NEW r \in Requests, A!Create(r) PROVE AccessInv'
<1> DEFINE c == [op |-> "create", id |-> next, by |-> r]
<1>1. /\ slot[r].at = "gated" /\ A!MayCreate /\ next <= MaxRows
      /\ queue' = Append(queue, c)
      /\ together' = IF Cardinality(A!Creations) + 1 > together
                       THEN Cardinality(A!Creations) + 1 ELSE together
      /\ next' = next + 1 /\ A!Goes(r, [at |-> "waiting"])
      /\ UNCHANGED <<kind, entitled, rows, told, asked, faults>>
  BY SameCardinality DEF A!Create
<1>2. next \in A!Ids /\ next \in Nat /\ MaxRows \in Nat
  BY AccessConstants, <1>1 DEF AccessInv, A!TypeOK, A!Ids, A!AccessAssumption
<1>3. c \in A!Commands /\ c.op = "create" /\ c.id = next /\ queue \in Seq(A!Commands)
  BY <1>2 DEF A!Commands, AccessInv, A!TypeOK
<1> HIDE DEF c
<1>4. /\ queue' \in Seq(A!Commands)
      /\ \A i \in DOMAIN queue' :
           (i \in DOMAIN queue /\ queue'[i] = queue[i]) \/ (i = Len(queue) + 1 /\ queue'[i] = c)
      /\ Cardinality(CreationsOf(queue')) = Cardinality(CreationsOf(queue)) + 1
      /\ Cardinality(CreationsOf(queue)) \in Nat
  BY <1>1, <1>3, Appended, CreationsFinite
<1>5. A!Creations = CreationsOf(queue) /\ A!Active = Cardinality(ActiveRows(rows))
  BY SameCardinality DEF A!Creations, CreationsOf, A!Active, ActiveRows
<1>6. Cardinality(ActiveRows(rows)) \in Nat /\ together \in Nat /\ Cap \in Nat
  BY AccessConstants, ActiveFinite DEF AccessInv, A!TypeOK, A!AccessAssumption
<1>7. /\ Cardinality(CreationsOf(queue)) <= together /\ together < next
      /\ kind # "webhook" => Cardinality(ActiveRows(rows)) < Cap
      /\ kind # "webhook" => Cardinality(ActiveRows(rows)) + Cardinality(CreationsOf(queue)) <= Cap - 1 + together
  BY <1>1, <1>5 DEF AccessInv, Limits, A!MayCreate
<1>8. /\ together' \in Nat /\ Cardinality(CreationsOf(queue')) <= together' /\ together' < next'
      /\ kind # "webhook" => Cardinality(ActiveRows(rows)) + Cardinality(CreationsOf(queue')) <= Cap - 1 + together'
  BY <1>1, <1>2, <1>4, <1>5, <1>6, <1>7
<1>9. A!TypeOK'
  <2>1. together' \in 0..MaxRows /\ next' \in 1..MaxRows + 1
    BY <1>1, <1>2, <1>8
  <2>2. slot' \in [Requests -> [at : {"idle", "gated", "waiting"}]]
    BY <1>1, GoesTyped DEF AccessInv
  <2>3. QED
    BY <1>1, <1>4, <2>1, <2>2 DEF AccessInv, A!TypeOK
<1>10. Limits'
  <2>1. kind # "rule" => \A i \in DOMAIN queue' : queue'[i].op \in {"create", "end"}
    BY <1>3, <1>4 DEF AccessInv, Limits
  <2>2. QED
    BY <1>1, <1>8, <2>1 DEF AccessInv, Limits
<1>11. FreshIds'
  <2>1. \A i \in DOMAIN queue : queue[i].id < next /\ queue[i].id \in Nat
    BY <1>3, ElementOfSeq, LenProperties DEF AccessInv, FreshIds, A!Commands, A!Ids
  <2>2. \A w \in rows : w.id < next /\ w.id \in Nat
    BY DEF AccessInv, FreshIds, A!TypeOK, A!Ids
  <2>3. \A i \in DOMAIN queue' : queue'[i].id < next'
    BY <1>1, <1>2, <1>3, <1>4, <2>1
  <2>4. next \notin IdsOf(rows)
    BY <1>2, <2>2 DEF IdsOf
  <2>5. \A i \in DOMAIN queue' : queue'[i].op = "create" => queue'[i].id \notin IdsOf(rows)
    BY <1>3, <1>4, <2>4 DEF AccessInv, FreshIds
  <2>6. \A i \in DOMAIN queue : queue[i].id # next
    BY <1>2, <2>1
  <2>7. \A i, j \in DOMAIN queue' :
          queue'[i].op = "create" /\ queue'[j].op = "create" /\ queue'[i].id = queue'[j].id => i = j
    BY <1>3, <1>4, <2>6 DEF AccessInv, FreshIds
  <2>8. \A w \in rows' : w.id < next'
    BY <1>1, <1>2, <2>2
  <2>9. QED
    BY <1>1, <2>3, <2>5, <2>7, <2>8 DEF FreshIds
<1>12. Answers'
  <2>1. \A i \in DOMAIN queue' : queue'[i].op = "end" /\ queue'[i].of = Owner => queue'[i].id \in asked
    BY <1>3, <1>4 DEF AccessInv, Answers
  <2>2. QED
    BY <1>1, <2>1 DEF AccessInv, Answers
<1>13. QED
  BY <1>1, <1>9, <1>10, <1>11, <1>12 DEF AccessInv

\* Toggle and End: a command for a row that there is.
LEMMA SentStep ==
  ASSUME AccessInv, NEW r \in Requests, NEW c \in A!Commands,
         queue' = Append(queue, c), c.op # "create", c.id \in IdsOf(rows),
         c.op \in {"on", "off"} => kind = "rule",
         asked' \subseteq A!Ids, asked \subseteq asked',
         c.op = "end" /\ c.of = Owner => c.id \in asked',
         A!Goes(r, [at |-> "waiting"]),
         UNCHANGED <<kind, entitled, rows, next, told, together, faults>>
  PROVE  AccessInv'
<1>1. /\ queue' \in Seq(A!Commands)
      /\ \A i \in DOMAIN queue' :
           (i \in DOMAIN queue /\ queue'[i] = queue[i]) \/ (i = Len(queue) + 1 /\ queue'[i] = c)
      /\ CreationsOf(queue') = CreationsOf(queue)
  BY Appended DEF AccessInv, A!TypeOK
<1>2. A!TypeOK'
  <2>1. slot' \in [Requests -> [at : {"idle", "gated", "waiting"}]]
    BY GoesTyped DEF AccessInv
  <2>2. QED
    BY <1>1, <2>1 DEF AccessInv, A!TypeOK
<1>3. Limits'
  <2>1. c.op \in {"on", "off", "end"}
    BY DEF A!Commands
  <2>2. kind # "rule" => \A i \in DOMAIN queue' : queue'[i].op \in {"create", "end"}
    BY <1>1, <2>1 DEF AccessInv, Limits
  <2>3. QED
    BY <1>1, <2>2 DEF AccessInv, Limits
<1>4. FreshIds'
  <2>1. c.id < next
    BY DEF AccessInv, FreshIds, IdsOf
  <2>2. QED
    BY <1>1, <2>1 DEF AccessInv, FreshIds
<1>5. Answers'
  BY <1>1 DEF AccessInv, Answers
<1>6. IsFiniteSet(rows')
  BY DEF AccessInv
<1>7. QED
  BY <1>2, <1>3, <1>4, <1>5, <1>6 DEF AccessInv

LEMMA ToggleStep == ASSUME AccessInv, NEW r \in Requests, A!Toggle(r) PROVE AccessInv'
<1>1. PICK id \in {w.id : w \in rows}, of \in {Owner, Stranger}, op \in {"on", "off"} :
        queue' = Append(queue, [op |-> op, id |-> id, of |-> of, by |-> r])
  BY DEF A!Toggle
<1> DEFINE c == [op |-> op, id |-> id, of |-> of, by |-> r]
<1>2. id \in A!Ids /\ id \in IdsOf(rows)
  BY DEF AccessInv, A!TypeOK, IdsOf
<1>3. c \in A!Commands /\ c.op = op /\ c.id = id
  BY <1>2 DEF A!Commands
<1>4. asked' = asked /\ asked \subseteq A!Ids /\ kind = "rule" /\ A!Goes(r, [at |-> "waiting"])
      /\ UNCHANGED <<kind, entitled, rows, next, told, together, faults>>
  BY DEF A!Toggle, AccessInv, A!TypeOK
<1> HIDE DEF c
<1>5. QED
  BY <1>1, <1>2, <1>3, <1>4, SentStep DEF c

LEMMA EndStep == ASSUME AccessInv, NEW r \in Requests, A!End(r) PROVE AccessInv'
<1>1. PICK id \in {w.id : w \in A!Listed}, of \in {Owner, Stranger} :
        /\ queue' = Append(queue, [op |-> "end", id |-> id, of |-> of, by |-> r])
        /\ asked' = IF of = Owner THEN asked \cup {id} ELSE asked
  BY DEF A!End
<1> DEFINE c == [op |-> "end", id |-> id, of |-> of, by |-> r]
<1>2. id \in A!Ids /\ id \in IdsOf(rows)
  BY DEF AccessInv, A!TypeOK, IdsOf, A!Listed
<1>3. c \in A!Commands /\ c.op = "end" /\ c.id = id /\ c.of = of
  BY <1>2 DEF A!Commands
<1>4. asked' \subseteq A!Ids /\ asked \subseteq asked' /\ (of = Owner => id \in asked')
      /\ A!Goes(r, [at |-> "waiting"])
      /\ UNCHANGED <<kind, entitled, rows, next, told, together, faults>>
  BY <1>1, <1>2 DEF A!End, AccessInv, A!TypeOK
<1> HIDE DEF c
<1>5. QED
  BY <1>1, <1>2, <1>3, <1>4, SentStep DEF c

-----------------------------------------------------------------------------
(* The writer's steps                                                        *)

\* The command is taken, whatever becomes of it: what is left of the queue.
LEMMA HeadTaken ==
  ASSUME AccessInv, queue # <<>>, queue' = Tail(queue), UNCHANGED <<kind, next>>
  PROVE  /\ queue' \in Seq(A!Commands)
         /\ Head(queue) \in A!Commands /\ Head(queue).id < next
         /\ kind # "rule" => Head(queue).op \in {"create", "end"}
         /\ Head(queue).op = "create" =>
              /\ Head(queue).id \notin IdsOf(rows)
              /\ \A i \in DOMAIN queue' : queue'[i].op = "create" => queue'[i].id # Head(queue).id
         /\ Head(queue).op = "end" /\ Head(queue).of = Owner => Head(queue).id \in asked
         /\ kind # "rule" => \A i \in DOMAIN queue' : queue'[i].op \in {"create", "end"}
         /\ \A i \in DOMAIN queue' : queue'[i].op = "create" => queue'[i].id \notin IdsOf(rows)
         /\ \A i, j \in DOMAIN queue' :
              queue'[i].op = "create" /\ queue'[j].op = "create" /\ queue'[i].id = queue'[j].id => i = j
         /\ \A i \in DOMAIN queue' : queue'[i].id < next
         /\ \A i \in DOMAIN queue' : queue'[i].op = "end" /\ queue'[i].of = Owner => queue'[i].id \in asked
         /\ Cardinality(CreationsOf(queue')) \in Nat /\ Cardinality(CreationsOf(queue)) \in Nat
         /\ Cardinality(CreationsOf(queue')) <=
              IF Head(queue).op = "create" THEN Cardinality(CreationsOf(queue)) - 1
                                           ELSE Cardinality(CreationsOf(queue))
<1>1. /\ Head(queue) \in A!Commands /\ Head(queue) = queue[1] /\ 1 \in DOMAIN queue
      /\ queue' \in Seq(A!Commands)
      /\ \A i \in DOMAIN queue' : i + 1 \in DOMAIN queue /\ i + 1 # 1 /\ queue'[i] = queue[i + 1]
      /\ Cardinality(CreationsOf(queue')) <=
           IF Head(queue).op = "create" THEN Cardinality(CreationsOf(queue)) - 1
                                        ELSE Cardinality(CreationsOf(queue))
  BY Taken DEF AccessInv, A!TypeOK
<1>2. Cardinality(CreationsOf(queue')) \in Nat /\ Cardinality(CreationsOf(queue)) \in Nat
  BY <1>1, CreationsFinite DEF AccessInv, A!TypeOK
<1>3. \A i, j \in DOMAIN queue' : i + 1 = j + 1 => i = j
  BY <1>1
<1>4. FreshIds /\ Limits /\ Answers
  BY DEF AccessInv
<1>5. \A i, j \in DOMAIN queue' :
        queue'[i].op = "create" /\ queue'[j].op = "create" /\ queue'[i].id = queue'[j].id => i = j
  <2>1. SUFFICES ASSUME NEW i \in DOMAIN queue', NEW j \in DOMAIN queue',
                        queue'[i].op = "create", queue'[j].op = "create", queue'[i].id = queue'[j].id
                 PROVE  i = j
    OBVIOUS
  <2>2. i + 1 = j + 1
    BY <1>1, <1>4, <2>1 DEF FreshIds
  <2>3. QED
    BY <1>3, <2>2
<1>6. Head(queue).op = "create" =>
        /\ Head(queue).id \notin IdsOf(rows)
        /\ \A i \in DOMAIN queue' : queue'[i].op = "create" => queue'[i].id # Head(queue).id
  BY <1>1, <1>4 DEF FreshIds
<1>7. \A i \in DOMAIN queue' :
        /\ queue'[i].op = "create" => queue'[i].id \notin IdsOf(rows)
        /\ queue'[i].id < next
        /\ kind # "rule" => queue'[i].op \in {"create", "end"}
        /\ queue'[i].op = "end" /\ queue'[i].of = Owner => queue'[i].id \in asked
  BY <1>1, <1>4 DEF FreshIds, Limits, Answers
<1>8. /\ Head(queue).id < next
      /\ kind # "rule" => Head(queue).op \in {"create", "end"}
      /\ Head(queue).op = "end" /\ Head(queue).of = Owner => Head(queue).id \in asked
  BY <1>1, <1>4 DEF FreshIds, Limits, Answers
<1>9. QED
  BY <1>1, <1>2, <1>5, <1>6, <1>7, <1>8

LEMMA AnsweredTyped ==
  ASSUME A!TypeOK, NEW r, A!Answered(r)
  PROVE  slot' \in [Requests -> [at : {"idle", "gated", "waiting"}]]
BY DEF A!TypeOK, A!Answered, A!Idle

LEMMA CommitFailsStep == ASSUME AccessInv, A!CommitFails PROVE AccessInv'
<1>1. /\ queue # <<>> /\ queue' = Tail(queue) /\ A!Answered(Head(queue).by)
      /\ faults < MaxFaults /\ faults' = faults + 1
      /\ UNCHANGED <<kind, entitled, rows, next, told, asked, together>>
  BY DEF A!CommitFails
<1>2. A!TypeOK'
  <2>1. faults' \in 0..MaxFaults
    BY AccessConstants, <1>1 DEF AccessInv, A!TypeOK, A!AccessAssumption
  <2>2. slot' \in [Requests -> [at : {"idle", "gated", "waiting"}]]
    BY <1>1, AnsweredTyped DEF AccessInv
  <2>3. QED
    BY <1>1, <2>1, <2>2, HeadTaken DEF AccessInv, A!TypeOK
<1>3. Limits'
  <2>1. /\ Cardinality(CreationsOf(queue')) \in Nat /\ Cardinality(CreationsOf(queue)) \in Nat
        /\ Cardinality(CreationsOf(queue')) <= Cardinality(CreationsOf(queue))
        /\ kind # "rule" => \A i \in DOMAIN queue' : queue'[i].op \in {"create", "end"}
    BY <1>1, HeadTaken
  <2>2. Cardinality(ActiveRows(rows)) \in Nat /\ together \in Nat /\ Cap \in Nat
    BY AccessConstants, ActiveFinite DEF AccessInv, A!TypeOK, A!AccessAssumption
  <2>3. /\ Cardinality(CreationsOf(queue')) <= together
        /\ kind # "webhook" => Cardinality(ActiveRows(rows)) + Cardinality(CreationsOf(queue')) <= Cap - 1 + together
    BY <2>1, <2>2 DEF AccessInv, Limits
  <2>4. QED
    BY <1>1, <2>1, <2>3 DEF AccessInv, Limits
<1>4. FreshIds'
  BY <1>1, HeadTaken DEF AccessInv, FreshIds
<1>5. Answers'
  BY <1>1, HeadTaken DEF AccessInv, Answers
<1>6. QED
  BY <1>1, <1>2, <1>3, <1>4, <1>5 DEF AccessInv

\* A row that is added: its id was nobody's, so no promise was made of it.
LEMMA InsertStep ==
  ASSUME AccessInv, A!Commit, Head(queue).op = "create"
  PROVE  AccessInv'
<1> DEFINE c == Head(queue)
           w == [id |-> c.id, state |-> "active"]
<1>1. /\ queue # <<>> /\ queue' = Tail(queue) /\ A!Answered(c.by)
      /\ rows' = rows \cup {w}
      /\ told' = A!Reply(c)
      /\ UNCHANGED <<kind, entitled, next, asked, together, faults>>
  BY DEF A!Commit, A!Applied
<1>2. c \in A!Commands /\ c.id \in A!Ids /\ c.op = "create"
  BY <1>1, HeadTaken DEF A!Commands
<1>3. w \in [id : A!Ids, state : {"active", "off", "ended", "expired"}] /\ w.id = c.id /\ w.state = "active"
  BY <1>2
<1> HIDE DEF c, w
<1>4. told'.ended = told.ended /\ told' \in [made : SUBSET A!Ids, ended : SUBSET A!Ids]
      /\ (told'.made = told.made \/ told'.made = told.made \cup {c.id})
  <2>1. CASE c.by # Nobody
    BY <1>1, <1>2, <2>1 DEF A!Reply, AccessInv, A!TypeOK
  <2>2. CASE c.by = Nobody
    BY <1>1, <1>2, <2>2 DEF A!Reply, AccessInv, A!TypeOK
  <2>3. QED
    BY <2>1, <2>2
<1>5. A!TypeOK'
  <2>1. slot' \in [Requests -> [at : {"idle", "gated", "waiting"}]]
    BY <1>1, AnsweredTyped DEF AccessInv
  <2>2. QED
    BY <1>1, <1>3, <1>4, <2>1, HeadTaken DEF AccessInv, A!TypeOK
<1>6. IsFiniteSet(rows')
  BY <1>1, FS_AddElement DEF AccessInv
<1>7. IdsOf(rows') = IdsOf(rows) \cup {c.id}
  BY <1>1, <1>3 DEF IdsOf
<1>8. Limits'
  <2>1. /\ Cardinality(CreationsOf(queue')) \in Nat /\ Cardinality(CreationsOf(queue)) \in Nat
        /\ Cardinality(CreationsOf(queue')) <= Cardinality(CreationsOf(queue)) - 1
        /\ kind # "rule" => \A i \in DOMAIN queue' : queue'[i].op \in {"create", "end"}
    BY <1>1, <1>2, HeadTaken DEF c
  <2>2. ActiveRows(rows') = ActiveRows(rows) \cup {w}
    BY <1>1, <1>3 DEF ActiveRows
  <2>3. /\ Cardinality(ActiveRows(rows')) \in Nat /\ Cardinality(ActiveRows(rows)) \in Nat
        /\ Cardinality(ActiveRows(rows')) <= Cardinality(ActiveRows(rows)) + 1
    <3>1. /\ IsFiniteSet(ActiveRows(rows)) /\ Cardinality(ActiveRows(rows)) \in Nat
          /\ Cardinality(ActiveRows(rows')) \in Nat
      BY <1>6, ActiveFinite DEF AccessInv
    <3>2. Cardinality(ActiveRows(rows')) =
            IF w \in ActiveRows(rows) THEN Cardinality(ActiveRows(rows)) ELSE Cardinality(ActiveRows(rows)) + 1
      BY <2>2, <3>1, FS_AddElement
    <3>3. QED
      BY <3>1, <3>2
  <2>4. together \in Nat /\ Cap \in Nat
    BY AccessConstants DEF AccessInv, A!TypeOK, A!AccessAssumption
  <2>5. /\ Cardinality(CreationsOf(queue')) <= together
        /\ kind # "webhook" => Cardinality(ActiveRows(rows')) + Cardinality(CreationsOf(queue')) <= Cap - 1 + together
    BY <2>1, <2>3, <2>4 DEF AccessInv, Limits
  <2>6. kind # "key" => \A v \in rows' : v.state # "expired"
    BY <1>1, <1>3 DEF AccessInv, Limits
  <2>7. QED
    BY <1>1, <2>1, <2>5, <2>6 DEF AccessInv, Limits
<1>9. FreshIds'
  <2>1. /\ c.id < next
        /\ \A i \in DOMAIN queue' : queue'[i].op = "create" => queue'[i].id # c.id
        /\ \A i \in DOMAIN queue' : queue'[i].op = "create" => queue'[i].id \notin IdsOf(rows)
        /\ \A i, j \in DOMAIN queue' :
              queue'[i].op = "create" /\ queue'[j].op = "create" /\ queue'[i].id = queue'[j].id => i = j
        /\ \A i \in DOMAIN queue' : queue'[i].id < next
    BY <1>1, <1>2, HeadTaken DEF c
  <2>2. \A v \in rows' : v.id < next
    BY <1>1, <1>3, <2>1 DEF AccessInv, FreshIds
  <2>3. QED
    BY <1>1, <1>7, <2>1, <2>2 DEF FreshIds
<1>10. Answers'
  <2>1. c.id \notin IdsOf(rows)
    BY <1>1, <1>2, HeadTaken DEF c
  <2>2. told.ended \subseteq IdsOf(rows) /\ c.id \notin told.ended
    BY <2>1 DEF AccessInv, Answers
  <2>3. \A v \in rows' : v.id \in told'.ended => v.state = "ended"
    BY <1>1, <1>3, <1>4, <2>2 DEF AccessInv, Answers
  <2>4. \A i \in DOMAIN queue' : queue'[i].op = "end" /\ queue'[i].of = Owner => queue'[i].id \in asked
    BY <1>1, HeadTaken
  <2>5. \A id \in told.made : id \in asked \/ \E v \in rows' : v.id = id /\ v.state # "ended"
    BY <1>1 DEF AccessInv, Answers
  <2>6. \E v \in rows' : v.id = c.id /\ v.state # "ended"
    BY <1>1, <1>3
  <2>7. QED
    BY <1>1, <1>4, <1>7, <2>2, <2>3, <2>4, <2>5, <2>6 DEF Answers
<1>11. QED
  BY <1>5, <1>6, <1>8, <1>9, <1>10 DEF AccessInv

\* Rows that are changed: their ids stay, what was over stays so, and only the owner's
\* own command ends one.
LEMMA UpdateStep ==
  ASSUME AccessInv, A!Commit, Head(queue).op # "create"
  PROVE  AccessInv'
<1> DEFINE c == Head(queue)
           New(v) == IF A!Touches(c, v) THEN [v EXCEPT !.state = A!Becomes(c)] ELSE v
           f == [v \in rows |-> New(v)]
<1>1. /\ queue # <<>> /\ queue' = Tail(queue) /\ A!Answered(c.by)
      /\ rows' = {New(v) : v \in rows}
      /\ told' = A!Reply(c)
      /\ UNCHANGED <<kind, entitled, next, asked, together, faults>>
  BY DEF A!Commit, A!Applied
<1>2. /\ c \in A!Commands /\ c.op # "create" /\ c.op \in {"end", "on", "off"}
      /\ kind # "rule" => c.op = "end"
      /\ c.op = "end" /\ c.of = Owner => c.id \in asked
  BY <1>1, HeadTaken DEF A!Commands
<1>3. /\ A!Becomes(c) \in {"active", "off", "ended"}
      /\ A!Becomes(c) = "ended" <=> c.op = "end"
  BY <1>2 DEF A!Becomes
<1> HIDE DEF c
<1>4. \A v \in rows : /\ New(v) \in [id : A!Ids, state : {"active", "off", "ended", "expired"}]
                      /\ New(v).id = v.id
                      /\ A!Touches(c, v) => New(v).state = A!Becomes(c)
                      /\ ~A!Touches(c, v) => New(v) = v
  BY <1>3 DEF AccessInv, A!TypeOK
<1> HIDE DEF New
<1>5. \A v \in rows : v.state = "ended" => New(v) = v
  BY <1>4 DEF A!Touches
<1>6. rows' = {f[v] : v \in rows} /\ \A v \in rows : f[v] = New(v)
  BY <1>1
<1>7. IdsOf(rows') = IdsOf(rows)
  <2>1. \A v \in rows' : v.id \in IdsOf(rows)
    BY <1>1, <1>4 DEF IdsOf
  <2>2. \A v \in rows : v.id \in IdsOf(rows')
    BY <1>1, <1>4 DEF IdsOf
  <2>3. QED
    BY <2>1, <2>2 DEF IdsOf
<1>8. told'.made = told.made /\ told' \in [made : SUBSET A!Ids, ended : SUBSET A!Ids]
      /\ (told'.ended = told.ended \/
            (/\ told'.ended = told.ended \cup {c.id}
             /\ c.op = "end" /\ \E v \in rows : A!Touches(c, v)))
  <2>1. told \in [made : SUBSET A!Ids, ended : SUBSET A!Ids] /\ c.id \in A!Ids
    BY <1>2 DEF AccessInv, A!TypeOK, A!Commands
  <2>2. CASE c.by # Nobody /\ c.op = "end" /\ \E v \in rows : A!Touches(c, v)
    <3>1. told' = [told EXCEPT !.ended = @ \cup {c.id}]
      BY <1>1, <1>2, <2>2 DEF A!Reply
    <3>2. QED
      BY <2>1, <2>2, <3>1
  <2>3. CASE ~(c.by # Nobody /\ c.op = "end" /\ \E v \in rows : A!Touches(c, v))
    <3>1. told' = told
      BY <1>1, <1>2, <2>3 DEF A!Reply
    <3>2. QED
      BY <2>1, <3>1
  <2>4. QED
    BY <2>2, <2>3
<1>9. A!TypeOK'
  <2>1. slot' \in [Requests -> [at : {"idle", "gated", "waiting"}]]
    BY <1>1, AnsweredTyped DEF AccessInv
  <2>2. rows' \subseteq [id : A!Ids, state : {"active", "off", "ended", "expired"}]
    BY <1>1, <1>4
  <2>3. QED
    BY <1>1, <1>8, <2>1, <2>2, HeadTaken DEF AccessInv, A!TypeOK
<1>10. IsFiniteSet(rows') /\ Cardinality(ActiveRows(rows')) <= Cardinality(ActiveRows(rows))
  <2>1. \A v \in rows : f[v].state \in {"active", "off"} => v.state \in {"active", "off"}
    <3>1. SUFFICES ASSUME NEW v \in rows, New(v).state \in {"active", "off"}
                   PROVE  v.state \in {"active", "off"}
      BY <1>6
    <3>2. CASE A!Touches(c, v)
      <4>1. c.op # "end" /\ kind = "rule" /\ v.state # "ended"
        BY <1>2, <1>3, <1>4, <3>1, <3>2 DEF A!Touches
      <4>2. v.state # "expired"
        BY <4>1 DEF AccessInv, Limits
      <4>3. QED
        BY <4>1, <4>2 DEF AccessInv, A!TypeOK
    <3>3. CASE ~A!Touches(c, v)
      BY <1>4, <3>1, <3>3
    <3>4. QED
      BY <3>2, <3>3
  <2>2. DOMAIN f = rows /\ IsFiniteSet(rows)
    BY DEF AccessInv
  <2> HIDE DEF f
  <2>3. QED
    BY <1>6, <2>1, <2>2, ActiveMapped
<1>11. Limits'
  <2>1. /\ Cardinality(CreationsOf(queue')) \in Nat /\ Cardinality(CreationsOf(queue)) \in Nat
        /\ Cardinality(CreationsOf(queue')) <= Cardinality(CreationsOf(queue))
        /\ kind # "rule" => \A i \in DOMAIN queue' : queue'[i].op \in {"create", "end"}
    BY <1>1, <1>2, HeadTaken DEF c
  <2>2. /\ Cardinality(ActiveRows(rows)) \in Nat /\ Cardinality(ActiveRows(rows')) \in Nat
        /\ together \in Nat /\ Cap \in Nat
    BY AccessConstants, <1>10, ActiveFinite DEF AccessInv, A!TypeOK, A!AccessAssumption
  <2>3. /\ Cardinality(CreationsOf(queue')) <= together
        /\ kind # "webhook" => Cardinality(ActiveRows(rows')) + Cardinality(CreationsOf(queue')) <= Cap - 1 + together
    BY <1>10, <2>1, <2>2 DEF AccessInv, Limits
  <2>4. kind # "key" => \A v \in rows' : v.state # "expired"
    BY <1>1, <1>3, <1>4 DEF AccessInv, Limits
  <2>5. QED
    BY <1>1, <2>1, <2>3, <2>4 DEF AccessInv, Limits
<1>12. FreshIds'
  <2>1. \A v \in rows' : v.id < next
    BY <1>1, <1>4 DEF AccessInv, FreshIds
  <2>2. QED
    BY <1>1, <1>7, <2>1, HeadTaken DEF FreshIds
<1>13. Answers'
  <2>1. told'.ended \subseteq IdsOf(rows')
    BY <1>7, <1>8 DEF AccessInv, Answers, IdsOf, A!Touches
  <2>2. \A v \in rows : New(v).id \in told'.ended => New(v).state = "ended"
    <3>1. SUFFICES ASSUME NEW v \in rows, v.id \in told'.ended PROVE New(v).state = "ended"
      BY <1>4
    <3>2. CASE v.id \in told.ended
      BY <1>5, <3>2 DEF AccessInv, Answers
    <3>3. CASE v.id \notin told.ended
      <4>1. v.id = c.id /\ c.op = "end" /\ c.of = Owner
        BY <1>8, <3>1, <3>3 DEF A!Touches
      <4>2. QED
        BY <1>3, <1>4, <1>5, <4>1 DEF A!Touches
    <3>4. QED
      BY <3>2, <3>3
  <2>3. \A v \in rows' : v.id \in told'.ended => v.state = "ended"
    BY <1>1, <2>2
  <2>4. \A id \in told'.made : id \in asked \/ \E v \in rows' : v.id = id /\ v.state # "ended"
    <3>1. SUFFICES ASSUME NEW id \in told.made, id \notin asked
                   PROVE  \E v \in rows' : v.id = id /\ v.state # "ended"
      BY <1>8
    <3>2. PICK v \in rows : v.id = id /\ v.state # "ended"
      BY <3>1 DEF AccessInv, Answers
    <3>3. New(v).id = id /\ New(v).state # "ended"
      BY <1>2, <1>3, <1>4, <3>1, <3>2 DEF A!Touches
    <3>4. QED
      BY <1>1, <3>3
  <2>5. \A i \in DOMAIN queue' : queue'[i].op = "end" /\ queue'[i].of = Owner => queue'[i].id \in asked
    BY <1>1, HeadTaken
  <2>6. QED
    BY <1>1, <2>1, <2>3, <2>4, <2>5 DEF Answers
<1>14. QED
  BY <1>9, <1>10, <1>11, <1>12, <1>13 DEF AccessInv

-----------------------------------------------------------------------------
(* The world's steps                                                         *)

LEMMA ExpireStep == ASSUME AccessInv, A!Expire PROVE AccessInv'
<1>1. PICK w \in rows : /\ w.state = "active"
                       /\ rows' = (rows \ {w}) \cup {[w EXCEPT !.state = "expired"]}
  BY DEF A!Expire
<1> DEFINE v == [w EXCEPT !.state = "expired"]
<1>2. kind = "key" /\ UNCHANGED <<kind, entitled, next, slot, queue, told, asked, together, faults>>
  BY DEF A!Expire
<1>3. v \in [id : A!Ids, state : {"active", "off", "ended", "expired"}] /\ v.id = w.id /\ v.state = "expired"
  BY <1>1 DEF AccessInv, A!TypeOK
<1> HIDE DEF v
<1>4. A!TypeOK'
  BY <1>1, <1>2, <1>3 DEF AccessInv, A!TypeOK, v
<1>5. IsFiniteSet(rows')
  BY <1>1, FS_RemoveElement, FS_AddElement DEF AccessInv
<1>6. ActiveRows(rows') \subseteq ActiveRows(rows)
  BY <1>1, <1>3 DEF ActiveRows, v
<1>7. Limits'
  <2>1. /\ Cardinality(ActiveRows(rows')) <= Cardinality(ActiveRows(rows))
        /\ Cardinality(ActiveRows(rows)) \in Nat /\ Cardinality(ActiveRows(rows')) \in Nat
    BY <1>5, <1>6, ActiveShrinks, ActiveFinite DEF AccessInv
  <2>2. Cardinality(CreationsOf(queue)) \in Nat /\ together \in Nat /\ Cap \in Nat
    BY AccessConstants, CreationsFinite DEF AccessInv, A!TypeOK, A!AccessAssumption
  <2>3. kind # "webhook" => Cardinality(ActiveRows(rows')) + Cardinality(CreationsOf(queue)) <= Cap - 1 + together
    BY <2>1, <2>2 DEF AccessInv, Limits
  <2>4. QED
    BY <1>2, <2>3 DEF AccessInv, Limits
<1>8. IdsOf(rows') = IdsOf(rows)
  BY <1>1, <1>3 DEF IdsOf, v
<1>9. FreshIds'
  <2>1. \A u \in rows' : u.id < next
    BY <1>1, <1>3 DEF AccessInv, FreshIds, v
  <2>2. QED
    BY <1>2, <1>8, <2>1 DEF AccessInv, FreshIds
<1>10. Answers'
  <2>1. w.id \notin told.ended
    BY <1>1 DEF AccessInv, Answers
  <2>2. \A u \in rows' : u.id \in told.ended => u.state = "ended"
    BY <1>1, <1>3, <2>1 DEF AccessInv, Answers, v
  <2>3. \A id \in told.made : id \in asked \/ \E u \in rows' : u.id = id /\ u.state # "ended"
    <3>1. SUFFICES ASSUME NEW id \in told.made, id \notin asked
                   PROVE  \E u \in rows' : u.id = id /\ u.state # "ended"
      OBVIOUS
    <3>2. PICK u \in rows : u.id = id /\ u.state # "ended"
      BY <3>1 DEF AccessInv, Answers
    <3>3. CASE u = w
      <4>1. v \in rows' /\ v.id = id /\ v.state # "ended"
        BY <1>1, <1>3, <3>2, <3>3 DEF v
      <4>2. QED
        BY <4>1
    <3>4. CASE u # w
      BY <1>1, <3>2, <3>4
    <3>5. QED
      BY <3>3, <3>4
  <2>4. QED
    BY <1>2, <1>8, <2>2, <2>3 DEF AccessInv, Answers
<1>11. QED
  BY <1>4, <1>5, <1>7, <1>9, <1>10 DEF AccessInv

\* Disconnect: the queue's commands, but for who waits.
LEMMA DisconnectStep == ASSUME AccessInv, NEW r \in Requests, A!Disconnect(r) PROVE AccessInv'
<1>1. /\ queue' = [i \in DOMAIN queue |->
                     IF queue[i].by = r THEN [queue[i] EXCEPT !.by = Nobody] ELSE queue[i]]
      /\ A!Goes(r, [at |-> "idle"])
      /\ faults < MaxFaults /\ faults' = faults + 1
      /\ UNCHANGED <<kind, entitled, rows, next, told, asked, together>>
  BY DEF A!Disconnect, A!Idle
<1>2. \A i \in DOMAIN queue : queue[i] \in A!Commands
  BY ElementOfSeq, LenProperties DEF AccessInv, A!TypeOK
<1>3. \A i \in DOMAIN queue : LET e == IF queue[i].by = r THEN [queue[i] EXCEPT !.by = Nobody] ELSE queue[i]
                             IN e \in A!Commands /\ e.op = queue[i].op /\ e.id = queue[i].id
                                /\ (e.op # "create" => e.of = queue[i].of)
  BY <1>2 DEF A!Commands
<1>4. \A i \in DOMAIN queue' : /\ i \in DOMAIN queue /\ queue'[i] \in A!Commands
                               /\ queue'[i].op = queue[i].op /\ queue'[i].id = queue[i].id
                               /\ (queue'[i].op = "end" => queue'[i].of = queue[i].of)
  BY <1>1, <1>3
<1>5. queue' \in Seq(A!Commands) /\ DOMAIN queue' = DOMAIN queue
  <2>1. Len(queue) \in Nat /\ DOMAIN queue = 1..Len(queue)
    BY LenProperties DEF AccessInv, A!TypeOK
  <2>2. queue' \in [1..Len(queue) -> A!Commands]
    BY <1>1, <1>4, <2>1
  <2>3. QED
    BY <2>1, <2>2, SeqDef
<1>6. CreationsOf(queue') = CreationsOf(queue)
  BY <1>4, <1>5 DEF CreationsOf
<1>7. A!TypeOK'
  <2>1. faults' \in 0..MaxFaults
    BY AccessConstants, <1>1 DEF AccessInv, A!TypeOK, A!AccessAssumption
  <2>2. slot' \in [Requests -> [at : {"idle", "gated", "waiting"}]]
    BY <1>1, GoesTyped DEF AccessInv
  <2>3. QED
    BY <1>1, <1>5, <2>1, <2>2 DEF AccessInv, A!TypeOK
<1>8. Limits'
  BY <1>1, <1>4, <1>6 DEF AccessInv, Limits
<1>9. FreshIds'
  BY <1>1, <1>4 DEF AccessInv, FreshIds
<1>10. Answers'
  BY <1>1, <1>4 DEF AccessInv, Answers
<1>11. IsFiniteSet(rows')
  BY <1>1 DEF AccessInv
<1>12. QED
  BY <1>7, <1>8, <1>9, <1>10, <1>11 DEF AccessInv

\* Restart: what is under way is gone, and an id is not given out again.
LEMMA RestartStep == ASSUME AccessInv, A!Restart PROVE AccessInv'
<1>1. /\ slot' = [r \in Requests |-> [at |-> "idle"]] /\ queue' = <<>>
      /\ faults < MaxFaults /\ faults' = faults + 1
      /\ UNCHANGED <<kind, entitled, rows, next, told, asked, together>>
  BY DEF A!Restart, A!Idle
<1>2. DOMAIN queue' = {} /\ queue' \in Seq(A!Commands)
  BY <1>1, EmptySeq
<1>3. Cardinality(CreationsOf(queue')) = 0
  BY <1>2, FS_EmptySet DEF CreationsOf
<1>4. A!TypeOK'
  <2>1. faults' \in 0..MaxFaults
    BY AccessConstants, <1>1 DEF AccessInv, A!TypeOK, A!AccessAssumption
  <2>2. QED
    BY <1>1, <1>2, <2>1 DEF AccessInv, A!TypeOK
<1>5. Limits'
  <2>1. /\ Cardinality(ActiveRows(rows)) \in Nat /\ Cardinality(CreationsOf(queue)) \in Nat
        /\ together \in Nat /\ Cap \in Nat
    BY AccessConstants, ActiveFinite, CreationsFinite DEF AccessInv, A!TypeOK, A!AccessAssumption
  <2>2. kind # "webhook" => Cardinality(ActiveRows(rows)) + Cardinality(CreationsOf(queue')) <= Cap - 1 + together
    BY <1>3, <2>1 DEF AccessInv, Limits
  <2>3. Cardinality(CreationsOf(queue')) <= together
    BY <1>3, <2>1
  <2>4. QED
    BY <1>1, <1>2, <2>2, <2>3 DEF AccessInv, Limits
<1>6. FreshIds' /\ Answers' /\ IsFiniteSet(rows')
  BY <1>1, <1>2 DEF AccessInv, FreshIds, Answers
<1>7. QED
  BY <1>4, <1>5, <1>6 DEF AccessInv

LEMMA AccessStep == AccessInv /\ [A!Next]_(A!vars) => AccessInv'
<1> SUFFICES ASSUME AccessInv, [A!Next]_(A!vars) PROVE AccessInv'
  OBVIOUS
<1>1. ASSUME NEW r \in Requests, A!Gate(r) PROVE AccessInv'
  BY <1>1, GoesTyped, HandlerMoves DEF A!Gate, AccessInv, A!TypeOK
<1>2. ASSUME NEW r \in Requests, A!Refuse(r) PROVE AccessInv'
  BY <1>2, GoesTyped, HandlerMoves DEF A!Refuse, A!Idle, AccessInv, A!TypeOK
<1>3. ASSUME NEW r \in Requests, A!Create(r) PROVE AccessInv'
  BY <1>3, CreateStep
<1>4. ASSUME NEW r \in Requests, A!Toggle(r) PROVE AccessInv'
  BY <1>4, ToggleStep
<1>5. ASSUME NEW r \in Requests, A!End(r) PROVE AccessInv'
  BY <1>5, EndStep
<1>6. ASSUME NEW r \in Requests, A!Disconnect(r) PROVE AccessInv'
  BY <1>6, DisconnectStep
<1>7. CASE A!Commit
  BY <1>7, InsertStep, UpdateStep
<1>8. CASE A!CommitFails
  BY <1>8, CommitFailsStep
<1>9. CASE A!Expire
  BY <1>9, ExpireStep
<1>10. CASE A!Entitle
  BY <1>10, HandlerMoves DEF A!Entitle, AccessInv, A!TypeOK
<1>11. CASE A!Restart
  BY <1>11, RestartStep
<1>12. CASE UNCHANGED A!vars
  BY <1>12, HandlerMoves DEF A!vars, AccessInv, A!TypeOK
<1>13. QED
  BY <1>1, <1>2, <1>3, <1>4, <1>5, <1>6, <1>7, <1>8, <1>9, <1>10, <1>11, <1>12 DEF A!Next

LEMMA AccessInvariant == A!Spec => []AccessInv
<1>1. A!Init => AccessInv
  BY AccessInit
<1>2. AccessInv /\ [A!Next]_(A!vars) => AccessInv'
  BY AccessStep
<1>3. QED
  BY <1>1, <1>2, PTL DEF A!Spec

-----------------------------------------------------------------------------
(* What it all comes to                                                      *)

\* Type correctness, for any limit and any number of handlers: what is under way at once
\* stays below the number of rows ever asked for.
THEOREM AccessTypes == A!Spec => []A!TypeOK
<1>1. AccessInv => A!TypeOK
  BY DEF AccessInv
<1>2. QED
  BY <1>1, AccessInvariant, PTL

\* For any limit, an account goes over it by no more than the creations it had under way at
\* once, less one: a count taken under the readers' lock and acted on without it is never
\* further off (create_api_key, create_custom_rule, MAX_KEYS_PER_USER, MAX_CUSTOM_RULES).
THEOREM LimitsAreSoft == A!Spec => []CapIsSoft
<1>1. AccessInv => CapIsSoft
  BY SameCardinality DEF AccessInv, Limits, CapIsSoft, A!CapIsSoft, A!Active, ActiveRows, A!Creations, CreationsOf
<1>2. QED
  BY <1>1, AccessInvariant, PTL

\* For any number of handlers, rows and commands on their way, what a 201 gave is there
\* until its owner asks for its end or it expires, and what a 204 ended never works again
\* (api_keys.rs, webhooks.rs, the rules of routes.rs).
THEOREM RepliesDoStand == A!Spec => []RepliesStand
<1>1. AccessInv => RepliesStand
  BY DEF AccessInv, Answers, RepliesStand, A!RepliesStand, A!Working
<1>2. QED
  BY <1>1, AccessInvariant, PTL
-----------------------------------------------------------------------------
(* Credentials. A request under way fits the row it was let in by; partial    *)
(* tokens and sign ins speak for the row until its version goes up; one       *)
(* request at most has seen the row become verified; and as long as requests  *)
(* about the second factor came one at a time, that one knows its secret.     *)

\* What a request is, given the row and the secrets there are.
TaskFits(c, r, s) ==
  /\ c \in {Idle} \cup [op : Ops, pc : {"read", "write", "orphan", "done"},
                        pw : Passwords \cup {None}, n : Versions \cup Secrets \cup {None}]
  /\ c.op \in {"register", "change", "reset", "login", "login_2fa"} => c.pw \in Passwords
  /\ c.op \notin {"none", "register", "forgot"} => r # None
  /\ c.op \in {"login", "reset", "forgot"} =>
       /\ c.n \in Versions
       /\ IF r = None THEN c.n = 0 ELSE c.n <= r.version
  /\ c.op \in {"setup", "confirm"} => c.n \in 1..s
  /\ c.pc \in {"orphan", "done"} => c.op \in {"register", "verify"}
  /\ c.pc = "done" => r # None
  /\ c.pc = "read" <=> c.op \in {"login", "login_2fa", "resend", "forgot"}

TasksFit == \A t \in Tasks : TaskFits(task[t], row, secrets)

\* What a sign in has proved, and the partial token that comes of it.
PartialsOK ==
  /\ \A t \in Tasks : task[t].op = "login" /\ task[t].n = row.version =>
       row.enabled /\ row.password = task[t].pw
  /\ link.partial # None /\ link.partial.clean /\ link.partial.ver = row.version =>
       row.enabled /\ row.password = link.partial.pw

ToWelcome(t) == task[t].op = "verify" /\ task[t].pc = "done"

WelcomesOK ==
  /\ welcomes \in 0..1
  /\ \A t \in Tasks : ToWelcome(t) => welcomes = 0 /\ row.verified
  /\ \A t, u \in Tasks : ToWelcome(t) /\ ToWelcome(u) => t = u
  /\ welcomes = 1 => row # None /\ row.verified

AboutFactor(t) == task[t].op \in FactorOps

FactorsOK ==
  ~overlapped =>
    /\ \A t, u \in Tasks : AboutFactor(t) /\ AboutFactor(u) => t = u
    /\ row # None /\ row.enabled => row.secret \in confirmed
    /\ \A t \in Tasks :
         /\ task[t].op = "login" => row.enabled
         /\ task[t].op = "login_2fa" => row.secret \in confirmed
         /\ task[t].op = "setup" => ~row.enabled
         /\ task[t].op = "confirm" => task[t].n = row.secret /\ row.secret \in confirmed
    /\ link.partial # None /\ link.partial.ver = row.version => row.enabled

CredentialsInv == TypeOK /\ TasksFit /\ PartialsOK /\ WelcomesOK /\ FactorsOK

LEMMA CredentialsInit == Init => CredentialsInv
<1> SUFFICES ASSUME Init PROVE CredentialsInv
  OBVIOUS
<1> USE CredentialsAssumption
<1>1. /\ row = None /\ secrets = 0 /\ link = NoLinks /\ welcomes = 0 /\ used = {} /\ confirmed = {}
      /\ overlapped = FALSE /\ task = [t \in Tasks |-> Idle]
  BY DEF Init
<1>2. link.partial = None
  BY <1>1 DEF NoLinks
<1>3. \A t \in Tasks : task[t] = Idle
  BY <1>1
<1>4. Idle.op = "none" /\ Idle.pc = "idle"
  BY DEF Idle
<1>5. TypeOK
  <2>1. task \in [Tasks -> {Idle} \cup
          [op : Ops, pc : {"read", "write", "orphan", "done"}, pw : Passwords \cup {None},
           n : Versions \cup Secrets \cup {None}]]
    BY <1>1, Zenon
  <2>2. row \in Row \cup {None} /\ overlapped \in BOOLEAN /\ confirmed \subseteq 1..secrets
    BY <1>1
  <2>3. QED
    BY <1>1, <2>1, <2>2, CredentialsAssumption DEF TypeOK
<1>6. TasksFit
  BY <1>3, <1>4 DEF TasksFit, TaskFits
<1>7. PartialsOK
  BY <1>2, <1>3, <1>4 DEF PartialsOK
<1>8. WelcomesOK
  BY <1>1, <1>3, <1>4 DEF WelcomesOK, ToWelcome
<1>9. FactorsOK
  BY <1>1, <1>2, <1>3, <1>4 DEF FactorsOK, AboutFactor, FactorOps
<1>10. QED
  BY <1>5, <1>6, <1>7, <1>8, <1>9 DEF CredentialsInv

\* A request goes on fitting a row that is written to.
LEMMA GoesOnFitting ==
  ASSUME NEW c, NEW r, NEW s, NEW q, NEW z, TaskFits(c, r, s),
         s \in Nat, z \in Nat, s <= z,
         q \in Row \cup {None}, r \in Row \cup {None}, r # None => q # None /\ r.version <= q.version
  PROVE  TaskFits(c, q, z)
<1> USE CredentialsAssumption
<1>1. c.op \in {"login", "reset", "forgot"} =>
        c.n \in Versions /\ IF q = None THEN c.n = 0 ELSE c.n <= q.version
  <2> SUFFICES ASSUME c.op \in {"login", "reset", "forgot"}
               PROVE  c.n \in Versions /\ IF q = None THEN c.n = 0 ELSE c.n <= q.version
    OBVIOUS
  <2>1. c.n \in Versions /\ IF r = None THEN c.n = 0 ELSE c.n <= r.version
    BY DEF TaskFits
  <2>2. q # None => q.version \in Nat
    BY DEF Row, Versions
  <2>3. r # None => r.version \in Nat
    BY DEF Row, Versions
  <2>4. QED
    BY <2>1, <2>2, <2>3 DEF Versions
<1>2. c.op \in {"setup", "confirm"} => c.n \in 1..z
  BY DEF TaskFits
<1>3. QED
  BY <1>1, <1>2 DEF TaskFits

\* A request that comes in.
LEMMA Begins ==
  ASSUME CredentialsInv, NEW t \in Tasks, NEW c,
         task' = [task EXCEPT ![t] = c], UNCHANGED <<row, link, welcomes, used>>,
         secrets' \in 0..MaxSecrets, secrets <= secrets',
         confirmed \subseteq confirmed', confirmed' \subseteq 1..secrets',
         TaskFits(c, row, secrets'), c.op # "none", c.pc # "done",
         overlapped' = (overlapped \/ (c.op \in FactorOps /\ UnderWay(FactorOps))),
         c.op = "login" => row.enabled /\ row.password = c.pw,
         c.op = "login_2fa" => link.partial # None /\ link.partial.ver = row.version,
         c.op = "setup" => ~row.enabled,
         c.op = "confirm" => c.n = row.secret /\ row.secret \in confirmed'
  PROVE  CredentialsInv'
<1> USE CredentialsAssumption
<1>1. /\ task'[t] = c
      /\ \A u \in Tasks \ {t} : task'[u] = task[u]
      /\ TypeOK /\ TasksFit /\ PartialsOK /\ WelcomesOK /\ FactorsOK
  BY DEF CredentialsInv, TypeOK
<1>2. c \in {Idle} \cup [op : Ops, pc : {"read", "write", "orphan", "done"},
                         pw : Passwords \cup {None}, n : Versions \cup Secrets \cup {None}]
  BY DEF TaskFits
<1>3. secrets \in Nat /\ secrets' \in Nat
  BY <1>1 DEF TypeOK
<1>4. TypeOK'
  <2>1. task' \in [Tasks -> {Idle} \cup
          [op : Ops, pc : {"read", "write", "orphan", "done"}, pw : Passwords \cup {None},
           n : Versions \cup Secrets \cup {None}]]
    BY <1>1, <1>2 DEF TypeOK
  <2>2. row # None => (row.secret # None => row.secret <= secrets')
    <3> SUFFICES ASSUME row # None, row.secret # None PROVE row.secret <= secrets'
      OBVIOUS
    <3>1. row.secret <= secrets /\ row.secret \in Nat
      BY <1>1 DEF TypeOK, Row, Secrets
    <3>2. QED
      BY <1>3, <3>1
  <2>3. QED
    BY <1>1, <2>1, <2>2 DEF TypeOK
<1>5. TasksFit'
  <2> SUFFICES ASSUME NEW u \in Tasks PROVE TaskFits(task'[u], row, secrets')
    BY DEF TasksFit
  <2>1. CASE u = t
    BY <1>1, <2>1
  <2>2. CASE u # t
    <3>1. TaskFits(task[u], row, secrets)
      BY <1>1 DEF TasksFit
    <3>2. row \in Row \cup {None} /\ (row # None => row.version <= row.version)
      BY <1>1 DEF TypeOK, Row, Versions
    <3>3. TaskFits(task[u], row, secrets')
      BY <1>3, <3>1, <3>2, GoesOnFitting
    <3>4. QED
      BY <1>1, <2>2, <3>3
  <2>3. QED
    BY <2>1, <2>2
<1>6. PartialsOK'
  BY <1>1 DEF PartialsOK
<1>7. WelcomesOK'
  BY <1>1 DEF WelcomesOK, ToWelcome
<1>8. FactorsOK'
  <2> SUFFICES ASSUME ~overlapped' PROVE FactorsOK'
    BY DEF FactorsOK
  <2>1. ~overlapped /\ (c.op \in FactorOps => ~UnderWay(FactorOps))
    OBVIOUS
  <2>2. \A u, v \in Tasks : AboutFactor(u) /\ AboutFactor(v) => u = v
    BY <1>1, <2>1 DEF FactorsOK
  <2>3. \A u, v \in Tasks : AboutFactor(u)' /\ AboutFactor(v)' => u = v
    BY <1>1, <2>1, <2>2 DEF AboutFactor, UnderWay
  <2>4. row # None /\ row.enabled => row.secret \in confirmed'
    BY <1>1, <2>1 DEF FactorsOK
  <2>5. link.partial # None /\ link.partial.ver = row.version => row.enabled
    BY <1>1, <2>1 DEF FactorsOK
  <2>6. c.op = "login_2fa" => row.secret \in confirmed'
    BY <2>4, <2>5 DEF TaskFits
  <2>7. ASSUME NEW u \in Tasks
        PROVE  /\ task'[u].op = "login" => row.enabled
               /\ task'[u].op = "login_2fa" => row.secret \in confirmed'
               /\ task'[u].op = "setup" => ~row.enabled
               /\ task'[u].op = "confirm" => task'[u].n = row.secret /\ row.secret \in confirmed'
    <3>1. CASE u = t
      BY <1>1, <2>6, <3>1
    <3>2. CASE u # t
      BY <1>1, <2>1, <3>2 DEF FactorsOK
    <3>3. QED
      BY <3>1, <3>2
  <2>8. QED
    BY <2>3, <2>4, <2>5, <2>7 DEF FactorsOK
<1>9. QED
  BY <1>4, <1>5, <1>6, <1>7, <1>8 DEF CredentialsInv

\* A request that ends, or a step of one that says nothing new, with the links that are out.
LEMMA Ends ==
  ASSUME CredentialsInv, NEW t \in Tasks, NEW c,
         task' = [task EXCEPT ![t] = c],
         c = Idle \/ (c.op = task[t].op /\ c.pc # "done" /\ TaskFits(c, row, secrets)
                      /\ c.op \in {"register", "verify"}),
         UNCHANGED <<row, secrets, used, confirmed, overlapped>>,
         TypeOK',
         welcomes' = welcomes \/ (ToWelcome(t) /\ c = Idle /\ welcomes' = welcomes + 1),
         link'.partial = link.partial \/
           (/\ task[t].op = "login"
            /\ link'.partial = [ver |-> row.version, pw |-> task[t].pw,
                                clean |-> row.version = task[t].n])
  PROVE  CredentialsInv'
<1> USE CredentialsAssumption
<1>1. /\ task'[t] = c
      /\ \A u \in Tasks \ {t} : task'[u] = task[u]
      /\ TypeOK /\ TasksFit /\ PartialsOK /\ WelcomesOK /\ FactorsOK
  BY DEF CredentialsInv, TypeOK
<1>2. Idle.op = "none" /\ Idle.pc = "idle" /\ "none" \notin FactorOps
  BY DEF Idle, FactorOps
<1>3. TaskFits(c, row, secrets)
  BY <1>2 DEF TaskFits
<1>4. TasksFit'
  BY <1>1, <1>3 DEF TasksFit
<1>5. PartialsOK'
  <2>1. \A u \in Tasks : task'[u].op = "login" => task'[u] = task[u]
    BY <1>1, <1>2
  <2>2. \A u \in Tasks : task'[u].op = "login" /\ task'[u].n = row.version =>
          row.enabled /\ row.password = task'[u].pw
    BY <1>1, <2>1 DEF PartialsOK
  <2>3. CASE link'.partial = link.partial
    BY <1>1, <2>2, <2>3 DEF PartialsOK
  <2>4. CASE task[t].op = "login" /\ link'.partial = [ver |-> row.version, pw |-> task[t].pw,
                                                      clean |-> row.version = task[t].n]
    <3>1. /\ link'.partial.clean = (row.version = task[t].n)
          /\ link'.partial.pw = task[t].pw
      BY <2>4
    <3>2. row.version = task[t].n => row.enabled /\ row.password = task[t].pw
      BY <1>1, <2>4 DEF PartialsOK
    <3>3. QED
      BY <2>2, <3>1, <3>2 DEF PartialsOK
  <2>5. QED
    BY <2>3, <2>4
<1>6. WelcomesOK'
  <2>1. \A u \in Tasks : ToWelcome(u)' => ToWelcome(u) /\ u # t
    BY <1>1, <1>2 DEF ToWelcome
  <2>2. CASE welcomes' = welcomes
    BY <1>1, <2>1, <2>2 DEF WelcomesOK
  <2>3. CASE ToWelcome(t) /\ c = Idle /\ welcomes' = welcomes + 1
    <3>1. welcomes = 0 /\ row.verified /\ row # None
      BY <1>1, <2>3 DEF WelcomesOK, TasksFit, TaskFits, ToWelcome
    <3>2. \A u \in Tasks : ~ToWelcome(u)'
      BY <1>1, <2>1, <2>3 DEF WelcomesOK
    <3>3. QED
      BY <2>3, <3>1, <3>2 DEF WelcomesOK
  <2>4. QED
    BY <2>2, <2>3
<1>7. FactorsOK'
  <2> SUFFICES ASSUME ~overlapped PROVE FactorsOK'
    BY DEF FactorsOK
  <2>1. \A u \in Tasks : AboutFactor(u)' => AboutFactor(u) /\ task'[u] = task[u]
    BY <1>1, <1>2 DEF AboutFactor, FactorOps
  <2>2. \A u, v \in Tasks : AboutFactor(u)' /\ AboutFactor(v)' => u = v
    BY <1>1, <2>1 DEF FactorsOK
  <2>3. link'.partial # None /\ link'.partial.ver = row.version => row.enabled
    BY <1>1 DEF FactorsOK
  <2>4. ASSUME NEW u \in Tasks
        PROVE  /\ task'[u].op = "login" => row.enabled
               /\ task'[u].op = "login_2fa" => row.secret \in confirmed
               /\ task'[u].op = "setup" => ~row.enabled
               /\ task'[u].op = "confirm" => task'[u].n = row.secret /\ row.secret \in confirmed
    <3>1. task'[u].op \in FactorOps => task'[u] = task[u]
      BY <2>1 DEF AboutFactor
    <3>2. QED
      BY <1>1, <3>1 DEF FactorsOK, FactorOps
  <2>5. row # None /\ row.enabled => row.secret \in confirmed
    BY <1>1 DEF FactorsOK
  <2>6. QED
    BY <2>2, <2>3, <2>4, <2>5 DEF FactorsOK
<1>8. QED
  BY <1>4, <1>5, <1>6, <1>7 DEF CredentialsInv

\* A statement that is executed moves the row on, and by its op's columns only.
LEMMA Executed ==
  ASSUME CredentialsInv, NEW t \in Tasks, Commit(t)
  PROVE  /\ task[t] # Idle /\ row' \in Row
         /\ task[t].op \in {"register", "change", "reset", "verify", "setup", "confirm", "disable"}
         /\ row = None =>
              /\ task[t].op = "register" /\ row'.version = 0 /\ ~row'.verified
              /\ ~row'.enabled /\ row'.secret = None
         /\ row # None =>
              /\ row'.version = row.version
                 + (IF task[t].op \in {"change", "reset", "confirm", "disable"} THEN 1 ELSE 0)
              /\ task[t].op \notin {"change", "reset"} => row'.password = row.password
              /\ row'.enabled <=> (task[t].op = "confirm" \/ (row.enabled /\ task[t].op # "disable"))
              /\ task[t].op \notin {"setup", "disable"} => row'.secret = row.secret
              /\ task[t].op = "setup" => row'.secret = task[t].n
              /\ task[t].op = "disable" => row'.secret = None
              /\ row'.verified <=> (task[t].op = "verify" \/ row.verified)
              /\ task[t].op = "register" => row' = row
              /\ task[t].op = "verify" /\ row.verified => row' = row
<1> USE CredentialsAssumption
<1> DEFINE c == task[t]
<1>1. TypeOK /\ TaskFits(c, row, secrets)
  BY DEF CredentialsInv, TasksFit
<1>2. c.pc \in {"write", "orphan"} /\ row' = Written(c) /\ row'.version <= MaxVersion
  BY DEF Commit, Bounded
<1>3. c # Idle /\ c.op \in Ops
  BY <1>1, <1>2 DEF TaskFits, Idle
<1>4. c.op \in {"register", "change", "reset", "verify", "setup", "confirm", "disable"}
  BY <1>1, <1>2, <1>3 DEF TaskFits, Ops, FactorOps
<1>5. row \in Row \cup {None}
  BY <1>1 DEF TypeOK
<1>6. CASE c.op = "register"
  <2>1. row' = IF row = None THEN NewRow(c.pw) ELSE row
    BY <1>2, <1>6 DEF Written
  <2>2. c.pw \in Passwords
    BY <1>1, <1>6 DEF TaskFits
  <2>3. CASE row = None
    BY <1>3, <1>6, <2>1, <2>2, <2>3 DEF NewRow, Row, Versions
  <2>4. CASE row # None
    <3>1. row' = row /\ row \in Row
      BY <1>5, <2>1, <2>4
    <3>2. row.version \in Nat /\ row.enabled \in BOOLEAN /\ row.verified \in BOOLEAN
      BY <3>1 DEF Row, Versions
    <3>3. QED
      BY <1>3, <1>6, <2>4, <3>1, <3>2
  <2>5. QED
    BY <2>3, <2>4
<1>7. CASE c.op \in {"change", "reset"}
  <2>1. row' = Bumped([row EXCEPT !.password = c.pw])
    BY <1>2, <1>7 DEF Written
  <2>2. c.pw \in Passwords /\ row \in Row
    BY <1>1, <1>5, <1>7 DEF TaskFits
  <2>3. /\ row'.password = c.pw /\ row'.verified = row.verified /\ row'.secret = row.secret
        /\ row'.enabled = row.enabled /\ row'.version = row.version + 1
    BY <2>1, <2>2 DEF Bumped, Row, Versions
  <2>4. row' \in Row
    <3>1. row'.version \in Versions
      BY <1>2, <2>2, <2>3 DEF Row, Versions
    <3>2. row' = [password |-> row'.password, verified |-> row'.verified, secret |-> row'.secret,
                  enabled |-> row'.enabled, version |-> row'.version]
      BY <2>1, <2>2 DEF Bumped, Row
    <3>3. QED
      BY <2>2, <2>3, <3>1, <3>2 DEF Row
  <2>5. row # None
    BY <2>2
  <2>6. row.version \in Nat /\ row.enabled \in BOOLEAN /\ row.verified \in BOOLEAN
    BY <2>2 DEF Row, Versions
  <2>7. QED
    BY <1>3, <1>7, <2>3, <2>4, <2>5, <2>6
<1>8. CASE c.op = "verify"
  <2>1. row' = [row EXCEPT !.verified = TRUE]
    BY <1>2, <1>8 DEF Written
  <2>2. row \in Row
    BY <1>1, <1>5, <1>8 DEF TaskFits
  <2>3. /\ row'.password = row.password /\ row'.verified = TRUE /\ row'.secret = row.secret
        /\ row'.enabled = row.enabled /\ row'.version = row.version
    BY <2>1, <2>2 DEF Row, Versions
  <2>4. row' \in Row
    BY <1>2, <2>1, <2>2, <2>3 DEF Row, Versions
  <2>5. row # None
    BY <2>2
  <2>6. row.version \in Nat /\ row.enabled \in BOOLEAN /\ row.verified \in BOOLEAN
    BY <2>2 DEF Row, Versions
  <2>7. row.verified => row' = row
    BY <2>1, <2>2 DEF Row
  <2>8. QED
    BY <1>3, <1>8, <2>3, <2>4, <2>5, <2>6, <2>7
<1>9. CASE c.op = "setup"
  <2>1. row' = [row EXCEPT !.secret = c.n]
    BY <1>2, <1>9 DEF Written
  <2>2. row \in Row /\ c.n \in Secrets
    BY <1>1, <1>5, <1>9 DEF TaskFits, TypeOK, Secrets
  <2>3. /\ row'.password = row.password /\ row'.verified = row.verified /\ row'.secret = c.n
        /\ row'.enabled = row.enabled /\ row'.version = row.version
    BY <2>1, <2>2 DEF Row, Versions
  <2>4. row' \in Row
    BY <1>2, <2>1, <2>2, <2>3 DEF Row, Versions
  <2>5. row # None
    BY <2>2
  <2>6. row.version \in Nat /\ row.enabled \in BOOLEAN /\ row.verified \in BOOLEAN
    BY <2>2 DEF Row, Versions
  <2>7. QED
    BY <1>3, <1>9, <2>3, <2>4, <2>5, <2>6
<1>10. CASE c.op = "confirm"
  <2>1. row' = Bumped([row EXCEPT !.enabled = TRUE])
    BY <1>2, <1>10 DEF Written
  <2>2. row \in Row
    BY <1>1, <1>5, <1>10 DEF TaskFits
  <2>3. /\ row'.password = row.password /\ row'.verified = row.verified /\ row'.secret = row.secret
        /\ row'.enabled = TRUE /\ row'.version = row.version + 1
    BY <2>1, <2>2 DEF Bumped, Row, Versions
  <2>4. row' \in Row
    <3>1. row'.version \in Versions
      BY <1>2, <2>2, <2>3 DEF Row, Versions
    <3>2. row' = [password |-> row'.password, verified |-> row'.verified, secret |-> row'.secret,
                  enabled |-> row'.enabled, version |-> row'.version]
      BY <2>1, <2>2 DEF Bumped, Row
    <3>3. QED
      BY <2>2, <2>3, <3>1, <3>2 DEF Row
  <2>5. row # None
    BY <2>2
  <2>6. row.version \in Nat /\ row.enabled \in BOOLEAN /\ row.verified \in BOOLEAN
    BY <2>2 DEF Row, Versions
  <2>7. QED
    BY <1>3, <1>10, <2>3, <2>4, <2>5, <2>6
<1>11. CASE c.op = "disable"
  <2>1. row' = Bumped([row EXCEPT !.enabled = FALSE, !.secret = None])
    BY <1>2, <1>11 DEF Written
  <2>2. row \in Row
    BY <1>1, <1>5, <1>11 DEF TaskFits
  <2>3. /\ row'.password = row.password /\ row'.verified = row.verified /\ row'.secret = None
        /\ row'.enabled = FALSE /\ row'.version = row.version + 1
    BY <2>1, <2>2 DEF Bumped, Row, Versions
  <2>4. row' \in Row
    <3>1. row'.version \in Versions
      BY <1>2, <2>2, <2>3 DEF Row, Versions
    <3>2. row' = [password |-> row'.password, verified |-> row'.verified, secret |-> row'.secret,
                  enabled |-> row'.enabled, version |-> row'.version]
      BY <2>1, <2>2 DEF Bumped, Row
    <3>3. QED
      BY <2>2, <2>3, <3>1, <3>2 DEF Row
  <2>5. row # None
    BY <2>2
  <2>6. row.version \in Nat /\ row.enabled \in BOOLEAN /\ row.verified \in BOOLEAN
    BY <2>2 DEF Row, Versions
  <2>7. QED
    BY <1>3, <1>11, <2>3, <2>4, <2>5, <2>6
<1>12. QED
  BY <1>4, <1>6, <1>7, <1>8, <1>9, <1>10, <1>11

LEMMA CommitStep == ASSUME CredentialsInv, NEW t \in Tasks, Commit(t) PROVE CredentialsInv'
<1> USE CredentialsAssumption
<1> DEFINE c == task[t]
           bump == c.op \in {"change", "reset", "confirm", "disable"}
<1>1. /\ TypeOK /\ TasksFit /\ PartialsOK /\ WelcomesOK /\ FactorsOK
      /\ c # Idle /\ row' \in Row /\ row' # None /\ row \in Row \cup {None}
      /\ UNCHANGED <<secrets, link, welcomes, confirmed, overlapped>>
      /\ used' = IF c.op = "reset" THEN used \cup {c.n} ELSE used
      /\ c.pc \in {"write", "orphan"}
  BY Executed DEF CredentialsInv, Commit, TypeOK
<1>2. \/ task' = [task EXCEPT ![t] = Idle]
      \/ /\ task' = [task EXCEPT ![t].pc = "done"]
         /\ c.op \in {"register", "verify"} /\ row # row'
  BY <1>1 DEF Commit, Replies, End
<1>3. /\ \A u \in Tasks \ {t} : task'[u] = task[u]
      /\ task'[t] = Idle \/ (/\ task'[t] = [c EXCEPT !.pc = "done"] /\ row # row'
                             /\ c.op \in {"register", "verify"})
      /\ DOMAIN task' = Tasks
  BY <1>1, <1>2 DEF TypeOK
<1>4. row # None => row.version \in Nat /\ row'.version \in Nat /\ row.version <= row'.version
  BY <1>1, Executed DEF Row, Versions
<1>5. c \in [op : Ops, pc : {"read", "write", "orphan", "done"},
             pw : Passwords \cup {None}, n : Versions \cup Secrets \cup {None}]
      /\ TaskFits(c, row, secrets)
  BY <1>1 DEF TasksFit, TaskFits
<1>6. Idle.op = "none" /\ Idle.pc = "idle" /\ "none" \notin FactorOps
  BY DEF Idle, FactorOps
<1>7. \A u \in Tasks : task'[u].op # "none" => u = t \/ task'[u] = task[u]
  BY <1>3
<1>8. \A u \in Tasks : task'[u].op \in FactorOps => u # t /\ task'[u] = task[u]
  <2>1. task'[t].op \notin FactorOps
    <3>1. CASE task'[t] = Idle
      BY <1>6, <3>1
    <3>2. CASE task'[t] = [c EXCEPT !.pc = "done"] /\ c.op \in {"register", "verify"}
      <4>1. task'[t].op = c.op
        BY <1>5, <3>2
      <4>2. QED
        BY <3>2, <4>1 DEF FactorOps
    <3>3. QED
      BY <1>3, <3>1, <3>2
  <2>2. QED
    BY <1>3, <2>1
<1>9. TasksFit'
  <2> SUFFICES ASSUME NEW u \in Tasks PROVE TaskFits(task'[u], row', secrets)
    BY <1>1 DEF TasksFit
  <2>1. TaskFits(task[u], row', secrets)
    BY <1>1, <1>4, GoesOnFitting DEF TasksFit, TypeOK
  <2>2. CASE u # t
    BY <1>3, <2>1, <2>2
  <2>3. CASE u = t /\ task'[t] = Idle
    BY <1>6, <2>3 DEF TaskFits
  <2>4. CASE u = t /\ task'[t] = [c EXCEPT !.pc = "done"] /\ c.op \in {"register", "verify"}
    <3>1. /\ task'[t].op = c.op /\ task'[t].pw = c.pw /\ task'[t].n = c.n /\ task'[t].pc = "done"
          /\ task'[t] \in [op : Ops, pc : {"read", "write", "orphan", "done"},
                           pw : Passwords \cup {None}, n : Versions \cup Secrets \cup {None}]
      BY <1>5, <2>4
    <3>2. QED
      BY <1>1, <2>1, <2>4, <3>1 DEF TaskFits
  <2>5. QED
    BY <1>3, <2>2, <2>3, <2>4
<1>10. TypeOK'
  <2>1. task' \in [Tasks -> {Idle} \cup
          [op : Ops, pc : {"read", "write", "orphan", "done"}, pw : Passwords \cup {None},
           n : Versions \cup Secrets \cup {None}]]
    BY <1>2, <1>5, <1>1 DEF TypeOK
  <2>2. CASE row = None
    <3>1. /\ link = NoLinks /\ used = {} /\ row'.secret = None /\ c.op = "register"
      BY <1>1, <2>2, Executed DEF TypeOK
    <3>2. link' = NoLinks /\ used' = {} /\ NoLinks \in Links(row'.version)
      BY <1>1, <3>1 DEF NoLinks, Links
    <3>3. QED
      BY <1>1, <2>1, <3>1, <3>2 DEF TypeOK
  <2>3. CASE row # None
    <3>1. row'.secret # None => row'.secret <= secrets
      <4>1. row.secret # None => row.secret <= secrets
        BY <1>1, <2>3 DEF TypeOK
      <4>2. c.op = "setup" => c.n <= secrets
        BY <1>1, <1>5 DEF TypeOK, TaskFits
      <4>3. row'.secret = None \/ row'.secret = row.secret \/ (c.op = "setup" /\ row'.secret = c.n)
        BY <2>3, Executed
      <4>4. QED
        BY <4>1, <4>2, <4>3
    <3>2. 0..row.version \subseteq 0..row'.version
      BY <1>4, <2>3
    <3>3. link \in Links(row'.version)
      <4>1. link \in Links(row.version)
        BY <1>1, <2>3 DEF TypeOK
      <4>2. link.partial # None => link.partial \in [ver : 0..row'.version, pw : Passwords, clean : BOOLEAN]
        BY <3>2, <4>1 DEF Links
      <4>3. QED
        BY <3>2, <4>1, <4>2 DEF Links
    <3>4. used' \subseteq 0..(row'.version - 1)
      <4>1. used \subseteq 0..(row.version - 1)
        BY <1>1, <2>3 DEF TypeOK
      <4>2. CASE c.op = "reset"
        <5>1. c.n \in Nat /\ c.n <= row.version /\ row'.version = row.version + 1
          BY <1>5, <2>3, <4>2, Executed DEF TaskFits, Versions
        <5>2. row.version \in Nat /\ used' = used \cup {c.n}
          BY <1>1, <1>4, <2>3, <4>2
        <5>3. ASSUME NEW v \in used' PROVE v \in 0..(row'.version - 1)
          <6>1. row'.version - 1 = row.version
            BY <5>1, <5>2
          <6>2. v \in 0..row.version
            BY <4>1, <5>1, <5>2, <5>3
          <6>3. QED
            BY <6>1, <6>2
        <5>4. QED
          BY <5>3
      <4>3. CASE c.op # "reset"
        BY <1>1, <1>4, <2>3, <4>1, <4>3
      <4>4. QED
        BY <4>2, <4>3
    <3>5. QED
      BY <1>1, <2>1, <3>1, <3>3, <3>4 DEF TypeOK
  <2>4. QED
    BY <2>2, <2>3
<1>11. PartialsOK'
  <2>1. CASE row = None
    <3>1. \A u \in Tasks : task'[u].op # "login"
      <4>1. \A u \in Tasks : task[u].op # "login"
        BY <1>1, <2>1 DEF TasksFit, TaskFits
      <4>2. QED
        BY <1>8, <4>1 DEF FactorOps
    <3>2. link'.partial = None
      BY <1>1, <2>1 DEF TypeOK, NoLinks
    <3>3. QED
      BY <3>1, <3>2 DEF PartialsOK
  <2>2. CASE row # None /\ bump
    <3>1. row'.version = row.version + 1
      BY <2>2, Executed
    <3>2. \A u \in Tasks : task'[u].op = "login" => task'[u].n # row'.version
      <4>1. \A u \in Tasks : task[u].op = "login" => task[u].n \in Nat /\ task[u].n <= row.version
        BY <1>1, <2>2 DEF TasksFit, TaskFits, Versions
      <4>2. QED
        BY <1>4, <1>8, <2>2, <3>1, <4>1 DEF FactorOps
    <3>3. link'.partial # None => link'.partial.ver # row'.version
      BY <1>1, <1>4, <2>2, <3>1 DEF TypeOK, Links
    <3>4. QED
      BY <3>2, <3>3 DEF PartialsOK
  <2>3. CASE row # None /\ ~bump
    <3>1. row'.version = row.version /\ row'.password = row.password /\ row'.enabled = row.enabled
      <4>1. row.enabled \in BOOLEAN /\ row'.enabled \in BOOLEAN
        BY <1>1, <2>3 DEF Row
      <4>2. row'.enabled <=> row.enabled
        BY <2>3, Executed
      <4>3. QED
        BY <1>4, <2>3, <4>1, <4>2, Executed
    <3>2. QED
      BY <1>1, <1>8, <3>1 DEF PartialsOK, FactorOps
  <2>4. QED
    BY <2>1, <2>2, <2>3
<1>12. WelcomesOK'
  <2>1. \A u \in Tasks : ToWelcome(u)' => (u # t /\ ToWelcome(u)) \/ (u = t /\ c.op = "verify" /\ row # row')
    <3>1. ToWelcome(t)' => c.op = "verify" /\ row # row'
      <4>1. CASE task'[t] = Idle
        BY <1>6, <4>1 DEF ToWelcome
      <4>2. CASE task'[t] = [c EXCEPT !.pc = "done"] /\ row # row'
        BY <1>5, <4>2 DEF ToWelcome
      <4>3. QED
        BY <1>3, <4>1, <4>2
    <3>2. QED
      BY <1>3, <3>1 DEF ToWelcome
  <2>2. \A u \in Tasks : ToWelcome(u) => row # None /\ row.verified
    BY <1>1 DEF WelcomesOK, TasksFit, TaskFits, ToWelcome
  <2>3. CASE c.op = "verify" /\ row # row'
    <3>1. row # None /\ ~row.verified /\ row'.verified
      BY <1>1, <2>3, Executed
    <3>2. welcomes = 0 /\ \A u \in Tasks : ~ToWelcome(u)
      BY <1>1, <2>2, <3>1 DEF WelcomesOK
    <3>3. QED
      BY <1>1, <2>1, <3>1, <3>2 DEF WelcomesOK
  <2>4. CASE ~(c.op = "verify" /\ row # row')
    <3>1. \A u \in Tasks : ToWelcome(u)' => ToWelcome(u)
      BY <2>1, <2>4
    <3>2. row # None /\ row.verified => row'.verified
      BY Executed
    <3>3. QED
      BY <1>1, <2>2, <3>1, <3>2 DEF WelcomesOK
  <2>5. QED
    BY <2>3, <2>4
<1>13. FactorsOK'
  <2> SUFFICES ASSUME ~overlapped PROVE FactorsOK'
    BY <1>1 DEF FactorsOK
  <2>1. \A u, v \in Tasks : AboutFactor(u) /\ AboutFactor(v) => u = v
    BY <1>1 DEF FactorsOK
  <2>2. \A u, v \in Tasks : AboutFactor(u)' /\ AboutFactor(v)' => u = v
    BY <1>8, <2>1 DEF AboutFactor
  <2>3. CASE c.op \in FactorOps
    <3>1. \A u \in Tasks : task'[u].op \notin FactorOps
      BY <1>8, <2>1, <2>3 DEF AboutFactor
    <3>2. row # None /\ c.op \in {"setup", "confirm", "disable"}
      BY <1>5, <2>3, Executed DEF TaskFits, FactorOps
    <3>3. row'.enabled => row'.secret \in confirmed
      <4>1. c.op = "setup" => ~row.enabled
        BY <1>1 DEF FactorsOK
      <4>2. c.op = "confirm" => row.secret \in confirmed
        BY <1>1 DEF FactorsOK
      <4>3. QED
        BY <3>2, <4>1, <4>2, Executed
    <3>4. link.partial # None /\ link.partial.ver = row'.version => row'.enabled
      <4>1. link.partial # None => link.partial.ver \in 0..row.version
        BY <1>1, <3>2 DEF TypeOK, Links
      <4>2. link.partial # None /\ link.partial.ver = row.version => row.enabled
        BY <1>1 DEF FactorsOK
      <4>3. CASE c.op \in {"confirm", "disable"}
        BY <1>4, <3>2, <4>1, <4>3, Executed
      <4>4. CASE c.op = "setup"
        <5>1. row.enabled \in BOOLEAN
          BY <1>1, <3>2 DEF Row
        <5>2. QED
          BY <1>4, <3>2, <4>2, <4>4, <5>1, Executed
      <4>5. QED
        BY <3>2, <4>3, <4>4
    <3>5. QED
      BY <1>1, <3>1, <3>3, <3>4 DEF FactorsOK, AboutFactor, FactorOps
  <2>4. CASE c.op \notin FactorOps /\ row = None
    <3>1. ~row'.enabled /\ link.partial = None
      BY <1>1, <2>4, Executed DEF TypeOK, NoLinks
    <3>2. \A u \in Tasks : task'[u].op \notin FactorOps
      <4>1. \A u \in Tasks : task[u].op \notin FactorOps
        BY <1>1, <2>4 DEF TasksFit, TaskFits, FactorOps
      <4>2. QED
        BY <1>8, <4>1
    <3>3. QED
      BY <1>1, <3>1, <3>2 DEF FactorsOK, AboutFactor, FactorOps
  <2>5. CASE c.op \notin FactorOps /\ row # None
    <3>1. row'.enabled = row.enabled /\ row'.secret = row.secret
      <4>1. c.op \notin {"setup", "confirm", "disable"}
        BY <2>5 DEF FactorOps
      <4>2. row.enabled \in BOOLEAN /\ row'.enabled \in BOOLEAN
        BY <1>1, <2>5 DEF Row
      <4>3. (row'.enabled <=> row.enabled) /\ row'.secret = row.secret
        BY <2>5, <4>1, Executed
      <4>4. QED
        BY <4>2, <4>3
    <3>2. link.partial # None /\ link.partial.ver = row'.version => row'.enabled
      <4>1. link.partial # None => link.partial.ver \in 0..row.version
        BY <1>1, <2>5 DEF TypeOK, Links
      <4>2. link.partial # None /\ link.partial.ver = row.version => row.enabled
        BY <1>1 DEF FactorsOK
      <4>3. row'.version = row.version \/ row'.version = row.version + 1
        BY <1>4, <2>5, Executed
      <4>4. QED
        BY <1>4, <2>5, <3>1, <4>1, <4>2, <4>3
    <3>3. ASSUME NEW u \in Tasks
          PROVE  /\ task'[u].op = "login" => row'.enabled
                 /\ task'[u].op = "login_2fa" => row'.secret \in confirmed
                 /\ task'[u].op = "setup" => ~row'.enabled
                 /\ task'[u].op = "confirm" => task'[u].n = row'.secret /\ row'.secret \in confirmed
      BY <1>1, <1>8, <3>1 DEF FactorsOK, FactorOps
    <3>4. row'.enabled => row'.secret \in confirmed
      BY <1>1, <2>5, <3>1 DEF FactorsOK
    <3>5. QED
      BY <1>1, <2>2, <3>2, <3>3, <3>4 DEF FactorsOK
  <2>6. QED
    BY <2>3, <2>4, <2>5
<1>14. QED
  BY <1>9, <1>10, <1>11, <1>12, <1>13 DEF CredentialsInv

\* A request that comes in, as Begin has it.
LEMMA BeginStep ==
  ASSUME CredentialsInv, NEW t \in Tasks, NEW op \in Ops, NEW pc \in {"read", "write"}, NEW pw, NEW n,
         Begin(t, op, pc, pw, n), UNCHANGED <<row, link, welcomes, used>>,
         secrets' \in 0..MaxSecrets, secrets <= secrets',
         confirmed \subseteq confirmed', confirmed' \subseteq 1..secrets',
         TaskFits([op |-> op, pc |-> pc, pw |-> pw, n |-> n], row, secrets'),
         overlapped' = (overlapped \/ (op \in FactorOps /\ UnderWay(FactorOps))),
         op = "login" => row.enabled /\ row.password = pw,
         op = "login_2fa" => link.partial # None /\ link.partial.ver = row.version,
         op = "setup" => ~row.enabled,
         op = "confirm" => n = row.secret /\ row.secret \in confirmed'
  PROVE  CredentialsInv'
<1> DEFINE c == [op |-> op, pc |-> pc, pw |-> pw, n |-> n]
<1>1. c.op = op /\ c.pc = pc /\ c.pw = pw /\ c.n = n /\ op # "none"
  BY DEF Ops, FactorOps
<1>2. task' = [task EXCEPT ![t] = c] /\ TaskFits(c, row, secrets')
  BY DEF Begin
<1> HIDE DEF c
<1>3. QED
  BY <1>1, <1>2, Begins

\* One that is about something else than the second factor.
LEMMA PlainBegin ==
  ASSUME CredentialsInv, NEW t \in Tasks, NEW op \in Ops \ FactorOps, NEW pc \in {"read", "write"},
         NEW pw, NEW n, Begin(t, op, pc, pw, n), UNCHANGED <<row, secrets, link, history>>,
         TaskFits([op |-> op, pc |-> pc, pw |-> pw, n |-> n], row, secrets)
  PROVE  CredentialsInv'
<1>1. TypeOK
  BY DEF CredentialsInv
<1>2. /\ secrets' \in 0..MaxSecrets /\ secrets <= secrets'
      /\ confirmed \subseteq confirmed' /\ confirmed' \subseteq 1..secrets'
      /\ overlapped' = (overlapped \/ (op \in FactorOps /\ UnderWay(FactorOps)))
  BY <1>1, CredentialsAssumption DEF TypeOK, history
<1>3. op \notin {"login", "login_2fa", "setup", "confirm"}
  BY DEF FactorOps
<1>4. QED
  BY <1>2, <1>3, BeginStep DEF history

LEMMA Booleans ==
  ASSUME CredentialsInv
  PROVE  /\ TypeOK /\ TasksFit /\ row \in Row \cup {None} /\ secrets \in 0..MaxSecrets
         /\ secrets \in Nat /\ confirmed \subseteq 1..secrets
         /\ row # None => /\ row.password \in Passwords /\ row.version \in Versions
                          /\ row.secret # None => row.secret \in 1..secrets
BY CredentialsAssumption DEF CredentialsInv, TypeOK, Row, Secrets

LEMMA ComesIn ==
  ASSUME CredentialsInv, NEW t \in Tasks, NEW p \in Passwords,
         Register(t, p) \/ ResetPassword(t, p) \/ ChangePassword(t, p)
  PROVE  CredentialsInv'
<1> USE CredentialsAssumption
<1>1. TypeOK /\ row \in Row \cup {None} /\ (row # None => row.version \in Versions)
  BY Booleans
<1>2. None \in Passwords \cup {None} /\ None \in Versions \cup Secrets \cup {None}
      /\ p \in Passwords \cup {None} /\ 0 \in Versions
  BY DEF Versions
<1>3. CASE Register(t, p)
  <2>1. TaskFits([op |-> "register", pc |-> "write", pw |-> p, n |-> None], row, secrets)
    BY <1>2 DEF TaskFits, Ops
  <2>2. QED
    BY <1>3, <2>1, PlainBegin DEF Register, Ops, FactorOps
<1>4. CASE ResetPassword(t, p)
  <2>1. row # None /\ link.reset = row.version
    BY <1>4 DEF ResetPassword, Accepts
  <2>2. TaskFits([op |-> "reset", pc |-> "write", pw |-> p, n |-> link.reset], row, secrets)
    BY <1>1, <1>2, <2>1 DEF TaskFits, Ops, Versions
  <2>3. QED
    BY <1>4, <2>2, PlainBegin DEF ResetPassword, Ops, FactorOps
<1>5. CASE ChangePassword(t, p)
  <2>1. TaskFits([op |-> "change", pc |-> "write", pw |-> p, n |-> None], row, secrets)
    BY <1>2, <1>5 DEF TaskFits, Ops, ChangePassword
  <2>2. QED
    BY <1>5, <2>1, PlainBegin DEF ChangePassword, Ops, FactorOps
<1>6. QED
  BY <1>3, <1>4, <1>5

LEMMA ComesInWithoutPassword ==
  ASSUME CredentialsInv, NEW t \in Tasks,
         VerifyEmail(t) \/ ResendVerification(t) \/ ForgotPassword(t)
  PROVE  CredentialsInv'
<1> USE CredentialsAssumption
<1>1. TypeOK /\ row \in Row \cup {None} /\ (row # None => row.version \in Versions)
  BY Booleans
<1>2. None \in Passwords \cup {None} /\ None \in Versions \cup Secrets \cup {None} /\ 0 \in Versions
  BY DEF Versions
<1>3. CASE VerifyEmail(t)
  <2>1. TaskFits([op |-> "verify", pc |-> "write", pw |-> None, n |-> None], row, secrets)
    BY <1>2, <1>3 DEF TaskFits, Ops, VerifyEmail, Accepts
  <2>2. QED
    BY <1>3, <2>1, PlainBegin DEF VerifyEmail, Ops, FactorOps
<1>4. CASE ResendVerification(t)
  <2>1. TaskFits([op |-> "resend", pc |-> "read", pw |-> None, n |-> None], row, secrets)
    BY <1>2, <1>4 DEF TaskFits, Ops, ResendVerification
  <2>2. QED
    BY <1>4, <2>1, PlainBegin DEF ResendVerification, Ops, FactorOps
<1>5. CASE ForgotPassword(t)
  <2> DEFINE v == IF row = None THEN 0 ELSE row.version
  <2>1. v \in Versions /\ IF row = None THEN v = 0 ELSE v <= row.version
    BY <1>1, <1>2 DEF Versions
  <2> HIDE DEF v
  <2>2. TaskFits([op |-> "forgot", pc |-> "read", pw |-> None, n |-> v], row, secrets)
    BY <1>2, <2>1 DEF TaskFits, Ops
  <2>3. Begin(t, "forgot", "read", None, v) /\ UNCHANGED <<row, secrets, link, history>>
    BY <1>5 DEF ForgotPassword, v
  <2>4. QED
    BY <2>2, <2>3, PlainBegin DEF Ops, FactorOps
<1>6. QED
  BY <1>3, <1>4, <1>5

LEMMA FactorComesIn ==
  ASSUME CredentialsInv, NEW t \in Tasks, NEW p \in Passwords, Login(t, p)
  PROVE  CredentialsInv'
<1> USE CredentialsAssumption
<1>1. /\ TypeOK /\ row \in Row \cup {None} /\ secrets \in 0..MaxSecrets /\ secrets \in Nat
      /\ confirmed \subseteq 1..secrets
      /\ row # None => /\ row.version \in Versions
                       /\ row.secret # None => row.secret \in 1..secrets
  BY Booleans
<1>2. None \in Passwords \cup {None} /\ None \in Versions \cup Secrets \cup {None}
      /\ p \in Passwords \cup {None} /\ secrets <= secrets
  BY <1>1
<1>3. row # None /\ p = row.password /\ row.enabled
  BY DEF Login
<1>4. TaskFits([op |-> "login", pc |-> "read", pw |-> p, n |-> row.version], row, secrets)
  BY <1>1, <1>2, <1>3 DEF TaskFits, Ops, FactorOps, Versions
<1>5. QED
  BY <1>1, <1>2, <1>3, <1>4, BeginStep DEF Login, Ops, FactorOps, NotesOverlap

LEMMA FactorComesInWithoutPassword ==
  ASSUME CredentialsInv, NEW t \in Tasks,
         Login2fa(t) \/ Setup2fa(t) \/ Verify2fa(t) \/ Disable2fa(t)
  PROVE  CredentialsInv'
<1> USE CredentialsAssumption
<1>1. /\ TypeOK /\ row \in Row \cup {None} /\ secrets \in 0..MaxSecrets /\ secrets \in Nat
      /\ confirmed \subseteq 1..secrets
      /\ row # None => /\ row.version \in Versions
                       /\ row.secret # None => row.secret \in 1..secrets
  BY Booleans
<1>2. None \in Passwords \cup {None} /\ None \in Versions \cup Secrets \cup {None} /\ secrets <= secrets
  BY <1>1
<1>3. CASE Login2fa(t)
  <2>1. row # None /\ link.partial # None /\ link.partial.ver = row.version
    BY <1>3 DEF Login2fa, Accepts
  <2>2. link.partial.pw \in Passwords
    BY <1>1, <2>1 DEF TypeOK, Links
  <2>3. TaskFits([op |-> "login_2fa", pc |-> "read", pw |-> link.partial.pw, n |-> None], row, secrets)
    BY <1>1, <1>2, <2>1, <2>2 DEF TaskFits, Ops, FactorOps
  <2>4. QED
    BY <1>1, <1>2, <1>3, <2>1, <2>3, BeginStep DEF Login2fa, Ops, FactorOps, NotesOverlap
<1>4. CASE Setup2fa(t)
  <2>1. /\ row # None /\ ~row.enabled /\ secrets' = secrets + 1
        /\ secrets' \in 0..MaxSecrets /\ secrets <= secrets'
        /\ secrets' \in Secrets /\ confirmed' \subseteq 1..secrets' /\ confirmed \subseteq confirmed'
    BY <1>1, <1>4 DEF Setup2fa, Secrets
  <2>2. TaskFits([op |-> "setup", pc |-> "write", pw |-> None, n |-> secrets'], row, secrets')
    BY <1>1, <1>2, <2>1 DEF TaskFits, Ops, FactorOps
  <2>3. QED
    BY <1>1, <1>4, <2>1, <2>2, BeginStep DEF Setup2fa, Ops, FactorOps, NotesOverlap
<1>5. CASE Verify2fa(t)
  <2>1. row # None /\ row.secret # None /\ confirmed' = confirmed \cup {row.secret} /\ secrets' = secrets
    BY <1>5 DEF Verify2fa
  <2>2. row.secret \in 1..secrets /\ row.secret \in Secrets /\ confirmed' \subseteq 1..secrets'
    BY <1>1, <2>1 DEF Secrets
  <2>3. TaskFits([op |-> "confirm", pc |-> "write", pw |-> None, n |-> row.secret], row, secrets')
    BY <1>1, <1>2, <2>1, <2>2 DEF TaskFits, Ops, FactorOps
  <2>4. QED
    BY <1>1, <1>2, <1>5, <2>1, <2>2, <2>3, BeginStep DEF Verify2fa, Ops, FactorOps, NotesOverlap
<1>6. CASE Disable2fa(t)
  <2>1. row # None /\ row.secret # None
    BY <1>6 DEF Disable2fa
  <2>2. row.secret \in Secrets
    BY <1>1, <2>1 DEF Secrets
  <2>3. TaskFits([op |-> "disable", pc |-> "write", pw |-> None, n |-> row.secret], row, secrets)
    BY <1>1, <1>2, <2>1, <2>2 DEF TaskFits, Ops, FactorOps
  <2>4. QED
    BY <1>1, <1>2, <1>6, <2>1, <2>3, BeginStep DEF Disable2fa, Ops, FactorOps, NotesOverlap
<1>7. QED
  BY <1>3, <1>4, <1>5, <1>6

\* A request that ends, and the link it may have minted.
LEMMA RequestEnds ==
  ASSUME CredentialsInv, NEW t \in Tasks,
         \/ LoginMint(t) \/ Login2faCode(t) \/ ResendMint(t) \/ ForgotMint(t)
         \/ Refuse(t) \/ CommitFails(t) \/ Registered(t) \/ Verified(t)
  PROVE  CredentialsInv'
<1> USE CredentialsAssumption
<1>1. /\ TypeOK /\ TasksFit /\ WelcomesOK /\ TaskFits(task[t], row, secrets)
      /\ row \in Row \cup {None} /\ (row # None => row.version \in Versions)
  BY Booleans DEF CredentialsInv, TasksFit
<1>2. task' = [task EXCEPT ![t] = Idle] /\ UNCHANGED <<row, secrets, used, confirmed, overlapped>>
  BY DEF LoginMint, Login2faCode, ResendMint, ForgotMint, Refuse, CommitFails, Registered,
         Verified, End, history
<1>3. task' \in [Tasks -> {Idle} \cup
        [op : Ops, pc : {"read", "write", "orphan", "done"}, pw : Passwords \cup {None},
         n : Versions \cup Secrets \cup {None}]]
  BY <1>1, <1>2 DEF TypeOK
<1>4. CASE LoginMint(t)
  <2> DEFINE l == [ver |-> row.version, pw |-> task[t].pw, clean |-> row.version = task[t].n]
  <2>1. row # None /\ task[t].pw \in Passwords /\ row.version \in 0..row.version
    BY <1>1, <1>4 DEF LoginMint, TaskFits, Versions
  <2>2. link' \in {link, [link EXCEPT !.partial = l]}
    BY <1>4 DEF LoginMint, Mints
  <2>3. l \in [ver : 0..row.version, pw : Passwords, clean : BOOLEAN]
    BY <2>1
  <2>4. link \in Links(row.version)
    BY <1>1, <2>1 DEF TypeOK, Links
  <2>5. link' \in Links(row.version) /\ (link'.partial = link.partial \/ link'.partial = l)
    BY <2>2, <2>3, <2>4 DEF Links
  <2> HIDE DEF l
  <2>6. TypeOK'
    BY <1>1, <1>2, <1>3, <1>4, <2>1, <2>5 DEF TypeOK, LoginMint, history
  <2>7. task[t].op = "login" /\ welcomes' = welcomes
    BY <1>4 DEF LoginMint, history
  <2>8. QED
    BY <1>2, <2>5, <2>6, <2>7, Ends DEF l
<1>5. CASE ResendMint(t) \/ ForgotMint(t) \/ Registered(t)
  <2>1. row # None /\ welcomes' = welcomes
    BY <1>1, <1>5 DEF ResendMint, ForgotMint, Registered, TaskFits, history
  <2>2. link \in Links(row.version) /\ 0..row.version # {}
    BY <1>1, <2>1 DEF TypeOK, Versions
  <2>3. /\ link' \in Links(row.version) /\ link'.partial = link.partial
    <3>1. CASE ResendMint(t)
      <4>1. link' \in {link, [link EXCEPT !.verify = row.version]} /\ row.version \in 0..row.version
        BY <1>1, <2>1, <3>1 DEF ResendMint, Mints, Versions
      <4>2. QED
        BY <2>2, <4>1 DEF Links
    <3>2. CASE ForgotMint(t)
      <4>1. link' \in {link, [link EXCEPT !.reset = task[t].n]} /\ task[t].n \in 0..row.version
        BY <1>1, <2>1, <3>2 DEF ForgotMint, Mints, TaskFits, Versions
      <4>2. QED
        BY <2>2, <4>1 DEF Links
    <3>3. CASE Registered(t)
      <4>1. link' \in {link, [link EXCEPT !.verify = 0]} /\ 0 \in 0..row.version
        BY <1>1, <2>1, <3>3 DEF Registered, Mints, Versions
      <4>2. QED
        BY <2>2, <4>1 DEF Links
    <3>4. QED
      BY <1>5, <3>1, <3>2, <3>3
  <2>4. TypeOK'
    BY <1>1, <1>2, <1>3, <2>1, <2>3 DEF TypeOK
  <2>5. QED
    BY <1>2, <2>1, <2>3, <2>4, Ends
<1>6. CASE Verified(t)
  <2>1. link' = link /\ welcomes' = welcomes + 1 /\ ToWelcome(t)
    BY <1>6 DEF Verified, ToWelcome
  <2>2. TypeOK'
    BY <1>1, <1>2, <1>3, <2>1 DEF TypeOK
  <2>3. QED
    BY <1>2, <2>1, <2>2, Ends
<1>7. CASE Login2faCode(t) \/ Refuse(t) \/ CommitFails(t)
  <2>1. link' = link /\ welcomes' = welcomes
    BY <1>7 DEF Login2faCode, Refuse, CommitFails, history
  <2>2. TypeOK'
    BY <1>1, <1>2, <1>3, <2>1 DEF TypeOK
  <2>3. QED
    BY <1>2, <2>1, <2>2, Ends
<1>8. QED
  BY <1>4, <1>5, <1>6, <1>7

LEMMA HandlerDropped == ASSUME CredentialsInv, NEW t \in Tasks, Disconnect(t) PROVE CredentialsInv'
<1> USE CredentialsAssumption
<1>1. /\ TypeOK /\ TaskFits(task[t], row, secrets)
      /\ UNCHANGED <<row, secrets, link, welcomes, used, confirmed, overlapped>>
  BY DEF CredentialsInv, TasksFit, Disconnect, history
<1>2. CASE task' = [task EXCEPT ![t] = Idle]
  <2>1. TypeOK'
    BY <1>1, <1>2 DEF TypeOK
  <2>2. QED
    BY <1>1, <1>2, <2>1, Ends
<1>3. CASE /\ task[t].pc = "write" /\ task[t].op \in {"register", "verify"}
           /\ task' = [task EXCEPT ![t].pc = "orphan"]
  <2> DEFINE c == [task[t] EXCEPT !.pc = "orphan"]
  <2>1. task[t] \in [op : Ops, pc : {"read", "write", "orphan", "done"},
                    pw : Passwords \cup {None}, n : Versions \cup Secrets \cup {None}]
    BY <1>1, <1>3 DEF TaskFits, Idle
  <2>2. /\ c.op = task[t].op /\ c.pc = "orphan" /\ c.pw = task[t].pw /\ c.n = task[t].n
        /\ c \in [op : Ops, pc : {"read", "write", "orphan", "done"},
                  pw : Passwords \cup {None}, n : Versions \cup Secrets \cup {None}]
    BY <2>1
  <2>3. task' = [task EXCEPT ![t] = c]
    BY <1>1, <1>3 DEF TypeOK
  <2> HIDE DEF c
  <2>4. TaskFits(c, row, secrets)
    BY <1>1, <1>3, <2>2 DEF TaskFits
  <2>5. TypeOK'
    BY <1>1, <2>2, <2>3 DEF TypeOK
  <2>6. QED
    BY <1>1, <1>3, <2>2, <2>3, <2>4, <2>5, Ends
<1>4. QED
  BY <1>2, <1>3 DEF Disconnect, End

\* Nobody's requests are under way after a restart.
LEMMA CredentialsRestart == ASSUME CredentialsInv, Restart PROVE CredentialsInv'
<1> USE CredentialsAssumption
<1>1. /\ TypeOK /\ PartialsOK /\ WelcomesOK /\ FactorsOK
      /\ UNCHANGED <<row, secrets, link, welcomes, used, confirmed, overlapped>>
      /\ task' = [t \in Tasks |-> Idle]
  BY DEF CredentialsInv, Restart, history
<1>2. \A t \in Tasks : task'[t] = Idle /\ task'[t].op = "none" /\ task'[t].pc = "idle"
  BY <1>1 DEF Idle
<1>3. task' \in [Tasks -> {Idle} \cup
        [op : Ops, pc : {"read", "write", "orphan", "done"}, pw : Passwords \cup {None},
         n : Versions \cup Secrets \cup {None}]]
  BY <1>1
<1>4. TypeOK'
  BY <1>1, <1>3 DEF TypeOK
<1>5. TasksFit'
  BY <1>2 DEF TasksFit, TaskFits
<1>6. PartialsOK' /\ WelcomesOK'
  BY <1>1, <1>2 DEF PartialsOK, WelcomesOK, ToWelcome
<1>7. FactorsOK'
  BY <1>1, <1>2 DEF FactorsOK, AboutFactor, FactorOps
<1>8. QED
  BY <1>4, <1>5, <1>6, <1>7 DEF CredentialsInv

LEMMA CredentialsStill == ASSUME CredentialsInv, UNCHANGED vars PROVE CredentialsInv'
<1>1. UNCHANGED <<row, secrets, link, task, welcomes, used, confirmed, overlapped>>
  BY DEF vars, history
<1>2. TypeOK' /\ TasksFit'
  BY <1>1 DEF CredentialsInv, TypeOK, TasksFit
<1>3. PartialsOK' /\ WelcomesOK' /\ FactorsOK'
  BY <1>1 DEF CredentialsInv, PartialsOK, WelcomesOK, FactorsOK, ToWelcome, AboutFactor
<1>4. QED
  BY <1>2, <1>3 DEF CredentialsInv

LEMMA CredentialsStep == CredentialsInv /\ [Next]_vars => CredentialsInv'
<1> SUFFICES ASSUME CredentialsInv, [Next]_vars PROVE CredentialsInv'
  OBVIOUS
<1>1. CASE UNCHANGED vars
  BY <1>1, CredentialsStill
<1>2. CASE Restart
  BY <1>2, CredentialsRestart
<1>3. ASSUME NEW t \in Tasks, NEW p \in Passwords,
             Register(t, p) \/ Login(t, p) \/ ResetPassword(t, p) \/ ChangePassword(t, p)
      PROVE  CredentialsInv'
  BY <1>3, ComesIn, FactorComesIn
<1>4. ASSUME NEW t \in Tasks,
             \/ VerifyEmail(t) \/ ResendVerification(t) \/ ForgotPassword(t)
             \/ Login2fa(t) \/ Setup2fa(t) \/ Verify2fa(t) \/ Disable2fa(t)
      PROVE  CredentialsInv'
  BY <1>4, ComesInWithoutPassword, FactorComesInWithoutPassword
<1>5. ASSUME NEW t \in Tasks,
             \/ LoginMint(t) \/ Login2faCode(t) \/ ResendMint(t) \/ ForgotMint(t)
             \/ Refuse(t) \/ CommitFails(t) \/ Registered(t) \/ Verified(t)
      PROVE  CredentialsInv'
  BY <1>5, RequestEnds
<1>6. ASSUME NEW t \in Tasks, Commit(t) \/ Disconnect(t) PROVE CredentialsInv'
  BY <1>6, CommitStep, HandlerDropped
<1>7. QED
  BY <1>1, <1>2, <1>3, <1>4, <1>5, <1>6 DEF Next

LEMMA CredentialsInvariant == Spec => []CredentialsInv
<1>1. Init => CredentialsInv
  BY CredentialsInit
<1>2. CredentialsInv /\ [Next]_vars => CredentialsInv'
  BY CredentialsStep
<1>3. QED
  BY <1>1, <1>2, PTL DEF Spec

\* The row, the links, the requests and what is remembered of them keep to their types.
THEOREM CredentialsTypes == Spec => []TypeOK
<1>1. CredentialsInv => TypeOK
  BY DEF CredentialsInv
<1>2. QED
  BY <1>1, CredentialsInvariant, PTL

\* However many verification links are followed at a time, one welcome is sent at most.
THEOREM WelcomeIsSentOnce == Spec => []WelcomedOnce
<1>1. CredentialsInv => WelcomedOnce
  BY DEF CredentialsInv, WelcomesOK, WelcomedOnce
<1>2. QED
  BY <1>1, CredentialsInvariant, PTL

\* As long as no two requests about it were under way at once, a second factor that is
\* switched on was confirmed with a code.
THEOREM FactorWasConfirmed == Spec => []FactorIsConfirmed
<1>1. CredentialsInv => FactorIsConfirmed
  BY DEF CredentialsInv, FactorsOK, FactorIsConfirmed, UnderWay
<1>2. QED
  BY <1>1, CredentialsInvariant, PTL

\* What a step that lets a request in does: it is one of the handlers' beginnings.
LEMMA LetIn ==
  ASSUME CredentialsInv, Next, NEW t \in Tasks, task[t] = Idle, task'[t].op \in {"reset", "login_2fa"}
  PROVE  (\E p \in Passwords : ResetPassword(t, p)) \/ Login2fa(t)
<1>1. TypeOK /\ Idle.op = "none" /\ Idle.pc = "idle"
  BY DEF CredentialsInv, Idle
<1>2. ASSUME NEW u \in Tasks, u # t, NEW c, task' = [task EXCEPT ![u] = c] PROVE FALSE
  <2>1. task'[t] = Idle
    BY <1>1, <1>2 DEF TypeOK
  <2>2. QED
    BY <1>1, <2>1
<1>3. ASSUME NEW c, task' = [task EXCEPT ![t] = c], c.op \notin {"reset", "login_2fa"} PROVE FALSE
  BY <1>1, <1>3 DEF TypeOK
<1>4. ASSUME NEW u \in Tasks, NEW op, NEW pc, NEW pw, NEW n, Begin(u, op, pc, pw, n) PROVE u = t /\ op \in {"reset", "login_2fa"}
  <2> DEFINE c == [op |-> op, pc |-> pc, pw |-> pw, n |-> n]
  <2>1. c.op = op /\ task' = [task EXCEPT ![u] = c]
    BY <1>4 DEF Begin
  <2> HIDE DEF c
  <2>2. u = t
    BY <1>2, <2>1
  <2>3. QED
    BY <1>3, <2>1, <2>2
<1>5. ASSUME NEW u \in Tasks, End(u) PROVE FALSE
  <2>1. u = t
    BY <1>2, <1>5 DEF End
  <2>2. QED
    BY <1>1, <1>3, <1>5, <2>1 DEF End
<1>6. ASSUME NEW u \in Tasks, NEW p \in Passwords,
             Register(u, p) \/ Login(u, p) \/ ResetPassword(u, p) \/ ChangePassword(u, p)
      PROVE  ResetPassword(t, p)
  BY <1>4, <1>6 DEF Register, Login, ResetPassword, ChangePassword
<1>7. ASSUME NEW u \in Tasks,
             \/ VerifyEmail(u) \/ ResendVerification(u) \/ ForgotPassword(u)
             \/ Login2fa(u) \/ Setup2fa(u) \/ Verify2fa(u) \/ Disable2fa(u)
      PROVE  Login2fa(t)
  BY <1>4, <1>7 DEF VerifyEmail, ResendVerification, ForgotPassword, Login2fa, Setup2fa, Verify2fa,
                    Disable2fa
<1>8. ASSUME NEW u \in Tasks,
             \/ LoginMint(u) \/ Login2faCode(u) \/ ResendMint(u) \/ ForgotMint(u)
             \/ Refuse(u) \/ CommitFails(u) \/ Registered(u) \/ Verified(u)
      PROVE  FALSE
  BY <1>5, <1>8 DEF LoginMint, Login2faCode, ResendMint, ForgotMint, Refuse, CommitFails, Registered,
                    Verified
<1>9. ASSUME NEW u \in Tasks, Commit(u) \/ Disconnect(u) PROVE FALSE
  <2>1. task[u].pc # "idle"
    BY <1>9 DEF Commit, Disconnect
  <2>2. u # t
    BY <1>1, <2>1
  <2>3. End(u) \/ \E pc \in {"done", "orphan"} : task' = [task EXCEPT ![u] = [task[u] EXCEPT !.pc = pc]]
    BY <1>1, <1>9 DEF Commit, Disconnect, TypeOK
  <2>4. QED
    BY <1>2, <1>5, <2>2, <2>3
<1>10. ~Restart
  <2>1. ASSUME Restart PROVE task'[t] = Idle
    BY <2>1 DEF Restart
  <2>2. QED
    BY <1>1, <2>1
<1>11. QED
  BY <1>6, <1>7, <1>8, <1>9, <1>10 DEF Next

\* A reset link that has changed the password carries a version that the row has left.
THEOREM UsedLinkIsRefused == Spec => UsedLinkRefused
<1> DEFINE Refused == \A t \in Tasks :
             task[t] = Idle /\ task'[t].op = "reset" => task'[t].n \notin used
<1>1. CredentialsInv /\ [Next]_vars => [Refused]_vars
  <2> SUFFICES ASSUME CredentialsInv, Next, NEW t \in Tasks, task[t] = Idle, task'[t].op = "reset"
               PROVE  task'[t].n \notin used
    BY DEF vars
  <2>1. TypeOK
    BY DEF CredentialsInv
  <2>2. CASE Login2fa(t)
    <3> DEFINE c == [op |-> "login_2fa", pc |-> "read", pw |-> link.partial.pw, n |-> None]
    <3>1. task' = [task EXCEPT ![t] = c] /\ c.op = "login_2fa"
      BY <2>2 DEF Login2fa, Begin
    <3> HIDE DEF c
    <3>2. QED
      BY <2>1, <3>1 DEF TypeOK
  <2>3. ASSUME NEW p \in Passwords, ResetPassword(t, p) PROVE task'[t].n \notin used
    <3> DEFINE c == [op |-> "reset", pc |-> "write", pw |-> p, n |-> link.reset]
    <3>1. task' = [task EXCEPT ![t] = c] /\ c.n = link.reset
      BY <2>3 DEF ResetPassword, Begin
    <3> HIDE DEF c
    <3>2. task'[t].n = row.version /\ row # None
      BY <2>1, <2>3, <3>1 DEF TypeOK, ResetPassword, Accepts
    <3>3. row.version \in Nat /\ used \subseteq 0..(row.version - 1)
      BY <2>1, <3>2 DEF TypeOK, Row, Versions
    <3>4. QED
      BY <3>2, <3>3
  <2>4. QED
    BY <2>2, <2>3, LetIn
<1>2. QED
  BY <1>1, CredentialsInvariant, PTL DEF Spec, UsedLinkRefused

\* A partial token is accepted only at the version at which its password was the account's.
THEOREM PartialIsStillTrue == Spec => PartialStillTrue
<1> DEFINE True == \A t \in Tasks :
             task[t] = Idle /\ task'[t].op = "login_2fa" /\ link.partial.clean
               => row.enabled /\ row.password = link.partial.pw
<1>1. CredentialsInv /\ [Next]_vars => [True]_vars
  <2> SUFFICES ASSUME CredentialsInv, Next, NEW t \in Tasks,
                      task[t] = Idle, task'[t].op = "login_2fa", link.partial.clean
               PROVE  row.enabled /\ row.password = link.partial.pw
    BY DEF vars
  <2>1. TypeOK /\ PartialsOK
    BY DEF CredentialsInv
  <2>2. CASE Login2fa(t)
    BY <2>1, <2>2 DEF Login2fa, Accepts, PartialsOK
  <2>3. ASSUME NEW p \in Passwords, ResetPassword(t, p) PROVE FALSE
    <3> DEFINE c == [op |-> "reset", pc |-> "write", pw |-> p, n |-> link.reset]
    <3>1. task' = [task EXCEPT ![t] = c] /\ c.op = "reset"
      BY <2>3 DEF ResetPassword, Begin
    <3> HIDE DEF c
    <3>2. QED
      BY <2>1, <3>1 DEF TypeOK
  <2>4. QED
    BY <2>2, <2>3, LetIn
<1>2. QED
  BY <1>1, CredentialsInvariant, PTL DEF Spec, PartialStillTrue

-----------------------------------------------------------------------------
\* Each behaviour of the run that takes the two together is one of either.
THEOREM AccountsAreBoth == MCSpec => Spec /\ A!Spec
<1>1. MCInit => Init /\ A!Init
  BY DEF MCInit
<1>2. [MCNext]_<<part, vars, access>> => [Next]_vars /\ [A!Next]_(A!vars)
  <2>1. UNCHANGED <<part, vars, access>> => UNCHANGED vars /\ UNCHANGED A!vars
    BY DEF access, vars, A!vars
  <2>2. MCNext => [Next]_vars /\ [A!Next]_(A!vars)
    BY DEF MCNext, access, A!vars
  <2>3. QED
    BY <2>1, <2>2
<1>3. QED
  BY <1>1, <1>2, PTL DEF MCSpec, Spec, A!Spec
=============================================================================
