--------------------------- MODULE MigrationProofs ---------------------------
(***************************************************************************)
(* Proofs about Store::open, for any accounts, rules, keys and any number   *)
(* of crashes and failed statements.                                        *)
(***************************************************************************)
EXTENDS MCDatabase, TLAPS

-----------------------------------------------------------------------------
(* The program, statement by statement                                       *)

Is(i, m, what)    == M!Program[i].m = m /\ M!Program[i].what = what
On(i, m, what, t) == Is(i, m, what) /\ M!Program[i].t = t

LEMMA ProgramSteps ==
  /\ Len(M!Program) = 40
  /\ Is(1, "purge", "work") /\ Is(2, "purge", "record")
  /\ On(3, "forecast", "create", "kp_forecast") /\ On(4, "forecast", "fill", "kp_forecast")
  /\ On(5, "forecast", "drop", "kp_forecast") /\ On(6, "forecast", "rename", "kp_forecast")
  /\ Is(7, "forecast", "record") /\ Is(8, "era", "work")
  /\ Is(9, "era", "record") /\ Is(10, "deploy", "work")
  /\ Is(11, "deploy", "record") /\ Is(12, "totp", "read")
  /\ Is(13, "totp", "move") /\ Is(14, "totp", "dropcolumn")
  /\ Is(15, "totp", "record") /\ Is(16, "threshold", "read")
  /\ Is(17, "threshold", "move") /\ Is(18, "threshold", "dropcolumn")
  /\ Is(19, "threshold", "record") /\ On(20, "usage", "create", "usage_records")
  /\ On(21, "usage", "fill", "usage_records") /\ On(22, "usage", "drop", "usage_records")
  /\ On(23, "usage", "rename", "usage_records") /\ Is(24, "usage", "record")
  /\ On(25, "xray", "create", "xray") /\ On(26, "xray", "fill", "xray")
  /\ On(27, "xray", "drop", "xray") /\ On(28, "xray", "rename", "xray")
  /\ Is(29, "xray", "record") /\ Is(30, "unlabelled", "work")
  /\ Is(31, "unlabelled", "record") /\ On(32, "series", "create", "solar_wind")
  /\ On(33, "series", "fill", "solar_wind") /\ On(34, "series", "drop", "solar_wind")
  /\ On(35, "series", "rename", "solar_wind") /\ On(36, "series", "create", "imf")
  /\ On(37, "series", "fill", "imf") /\ On(38, "series", "drop", "imf")
  /\ On(39, "series", "rename", "imf") /\ Is(40, "series", "record")
<1>1. /\ Is(1, "purge", "work") /\ Is(2, "purge", "record")
      /\ On(3, "forecast", "create", "kp_forecast") /\ On(4, "forecast", "fill", "kp_forecast")
      /\ On(5, "forecast", "drop", "kp_forecast") /\ On(6, "forecast", "rename", "kp_forecast")
      /\ Is(7, "forecast", "record") /\ Is(8, "era", "work")
  BY DEF M!Program, M!Once, M!Do, M!Moves, M!Rebuild, Is, On
<1>2. /\ Is(9, "era", "record") /\ Is(10, "deploy", "work")
      /\ Is(11, "deploy", "record") /\ Is(12, "totp", "read")
      /\ Is(13, "totp", "move") /\ Is(14, "totp", "dropcolumn")
      /\ Is(15, "totp", "record") /\ Is(16, "threshold", "read")
  BY DEF M!Program, M!Once, M!Do, M!Moves, M!Rebuild, Is, On
<1>3. /\ Is(17, "threshold", "move") /\ Is(18, "threshold", "dropcolumn")
      /\ Is(19, "threshold", "record") /\ On(20, "usage", "create", "usage_records")
      /\ On(21, "usage", "fill", "usage_records") /\ On(22, "usage", "drop", "usage_records")
      /\ On(23, "usage", "rename", "usage_records") /\ Is(24, "usage", "record")
  BY DEF M!Program, M!Once, M!Do, M!Moves, M!Rebuild, Is, On
<1>4. /\ On(25, "xray", "create", "xray") /\ On(26, "xray", "fill", "xray")
      /\ On(27, "xray", "drop", "xray") /\ On(28, "xray", "rename", "xray")
      /\ Is(29, "xray", "record") /\ Is(30, "unlabelled", "work")
      /\ Is(31, "unlabelled", "record") /\ On(32, "series", "create", "solar_wind")
  BY DEF M!Program, M!Once, M!Do, M!Moves, M!Rebuild, Is, On
<1>5. /\ On(33, "series", "fill", "solar_wind") /\ On(34, "series", "drop", "solar_wind")
      /\ On(35, "series", "rename", "solar_wind") /\ On(36, "series", "create", "imf")
      /\ On(37, "series", "fill", "imf") /\ On(38, "series", "drop", "imf")
      /\ On(39, "series", "rename", "imf") /\ Is(40, "series", "record")
  BY DEF M!Program, M!Once, M!Do, M!Moves, M!Rebuild, Is, On
<1>6. Len(M!Program) = 40
  BY DEF M!Program, M!Once, M!Do, M!Moves, M!Rebuild
<1>7. QED
  BY <1>1, <1>2, <1>3, <1>4, <1>5, <1>6

LEMMA Numbers40 == \A i \in 1..40 :
  \/ i = 1 \/ i = 2 \/ i = 3 \/ i = 4 \/ i = 5 \/ i = 6 \/ i = 7 \/ i = 8 \/ i = 9 \/ i = 10
  \/ i = 11 \/ i = 12 \/ i = 13 \/ i = 14 \/ i = 15 \/ i = 16 \/ i = 17 \/ i = 18 \/ i = 19 \/ i = 20
  \/ i = 21 \/ i = 22 \/ i = 23 \/ i = 24 \/ i = 25 \/ i = 26 \/ i = 27 \/ i = 28 \/ i = 29 \/ i = 30
  \/ i = 31 \/ i = 32 \/ i = 33 \/ i = 34 \/ i = 35 \/ i = 36 \/ i = 37 \/ i = 38 \/ i = 39 \/ i = 40
OBVIOUS

\* Where the copy of a table is created; it is filled, and the table dropped and the copy
\* renamed, by the statements that follow.
CreateAt(t) ==
  IF t = "kp_forecast" THEN 3 ELSE IF t = "usage_records" THEN 20 ELSE IF t = "xray" THEN 25
  ELSE IF t = "solar_wind" THEN 32 ELSE 36

\* What each statement is and where it is.
LEMMA WhatIsWhere ==
  ASSUME NEW i \in 1..40
  PROVE  LET s == M!Program[i]
         IN /\ s.what = "create" => s.t \in M!Tables /\ i = CreateAt(s.t)
            /\ s.what = "fill" => s.t \in M!Tables /\ i = CreateAt(s.t) + 1
            /\ s.what = "drop" => s.t \in M!Tables /\ i = CreateAt(s.t) + 2
            /\ s.what = "rename" => s.t \in M!Tables /\ i = CreateAt(s.t) + 3
            /\ s.what = "work" => i \in {1, 8, 10, 30}
            /\ s.what = "read" => i \in {12, 16}
            /\ s.what = "move" => i \in {13, 17}
            /\ s.what = "dropcolumn" => i \in {14, 18}
            /\ s.what = "record" => i \in {2, 7, 9, 11, 15, 19, 24, 29, 31, 40}
BY ProgramSteps, Numbers40 DEF Is, On, CreateAt, M!Tables

\* Where each migration begins, and where the one after it does.
LEMMA Begins ==
  /\ M!KeyCheck = 41 /\ M!Serving = 42
  /\ \A i \in 1..41 : M!First(i) <=> i \in {1, 3, 8, 10, 12, 16, 20, 25, 30, 32}
<1>1. M!KeyCheck = 41 /\ M!Serving = 42 /\ ~M!First(41)
  BY ProgramSteps DEF M!KeyCheck, M!Serving, M!First
<1>2. \A i \in 1..40 : M!First(i) <=> i \in {1, 3, 8, 10, 12, 16, 20, 25, 30, 32}
  BY ProgramSteps, Numbers40 DEF Is, On, M!First
<1>3. QED
  BY <1>1, <1>2

LEMMA AfterEach ==
  /\ M!After(1) = 3 /\ M!After(3) = 8 /\ M!After(8) = 10 /\ M!After(10) = 12
  /\ M!After(12) = 16 /\ M!After(16) = 20 /\ M!After(20) = 25 /\ M!After(25) = 30
  /\ M!After(30) = 32 /\ M!After(32) = 41
<1>1. ASSUME NEW i \in 1..40, NEW n \in (i + 1)..41, n = 41 \/ M!First(n),
             \A k \in (i + 1)..(n - 1) : ~M!First(k)
      PROVE  M!After(i) = n
  <2>1. \A j \in (i + 1)..41 :
          (j = 41 \/ M!First(j)) /\ (\A k \in (i + 1)..(j - 1) : ~M!First(k)) => j = n
    <3> SUFFICES ASSUME NEW j \in (i + 1)..41, j = 41 \/ M!First(j),
                        \A k \in (i + 1)..(j - 1) : ~M!First(k)
                 PROVE  j = n
      OBVIOUS
    <3>1. ~(j < n)
      BY <1>1
    <3>2. ~(n < j)
      BY <1>1
    <3>3. QED
      BY <3>1, <3>2
  <2>2. QED
    BY <1>1, <2>1, Begins DEF M!After
<1>2. QED
  BY <1>1, Begins

Names == {"purge", "forecast", "era", "deploy", "totp", "threshold", "usage", "xray",
          "unlabelled", "series"}

LEMMA TheMigrations ==
  /\ {M!Migration[i] : i \in DOMAIN M!Migration} = Names
  /\ \A i \in 1..40 : M!Program[i].m \in Names
<1>1. {M!Migration[i] : i \in DOMAIN M!Migration} = Names
  BY DEF M!Migration, Names
<1>2. \A i \in 1..40 : M!Program[i].m \in Names
  BY ProgramSteps, Numbers40 DEF Is, On, Names
<1>3. QED
  BY <1>1, <1>2

-----------------------------------------------------------------------------
(* What the file and the process are like at each statement                  *)

LEMMA MigrationNumbers ==
  /\ Users \cap Rules = {} /\ None \notin Keys
  /\ None \notin SUBSET M!Row /\ None \notin [rows : SUBSET M!Row, new : BOOLEAN]
<1>1. /\ Users \cap Rules = {} /\ None \notin Keys
      /\ \A rows \in SUBSET M!Row, isNew \in BOOLEAN :
           None # rows /\ None # [rows |-> rows, new |-> isNew]
  BY MigrationsConstants, Zenon DEF M!MigrationsAssumption
<1>2. ASSUME NEW r \in [rows : SUBSET M!Row, new : BOOLEAN] PROVE r # None
  <2>1. r = [rows |-> r.rows, new |-> r.new] /\ r.rows \in SUBSET M!Row /\ r.new \in BOOLEAN
    OBVIOUS
  <2>2. QED
    BY <1>1, <2>1
<1>3. QED
  BY <1>1, <1>2

MigrationOf(t) ==
  IF t = "kp_forecast" THEN "forecast" ELSE IF t = "usage_records" THEN "usage"
  ELSE IF t = "xray" THEN "xray" ELSE "series"

CopyRows(t) == IF copy[t] = None THEN {} ELSE copy[t]

\* The copy of a table holds what is in danger, and no copy is left by what is recorded.
RebuildOf(t) ==
  /\ owed[t] \subseteq M!Rows(t) \cup CopyRows(t)
  /\ at = CreateAt(t) + 1 => copy[t] = {}
  /\ at = CreateAt(t) + 2 => copy[t] = table[t].rows
  /\ at = CreateAt(t) + 3 => copy[t] # None /\ owed[t] \subseteq copy[t]
  /\ t # "kp_forecast" /\ (MigrationOf(t) \in recorded \/ at > CreateAt(t) + 3) => copy[t] = None

RebuildOK ==
  /\ \A t \in M!Tables : RebuildOf(t)
  /\ at \in 33..40 => "series" \notin recorded

\* The copy of the forecasts may go only while the table has all of them.
ForecastOK ==
  /\ at \in {4, 5} => owed["kp_forecast"] \subseteq M!Rows("kp_forecast")
  /\ table["kp_forecast"] # None /\ ~table["kp_forecast"].new =>
       owed["kp_forecast"] \subseteq M!Rows("kp_forecast")
  /\ "served" \in owed["kp_forecast"] => "purge" \in recorded

\* What is recorded or passed has been done.
RecordOK ==
  /\ at > 2 => "purge" \in recorded
  /\ at > 11 \/ deploy = "withdrawn" => "deploy" \in recorded
  /\ "deploy" \in recorded \/ at > 10 => deploy # "unverified"
  /\ "era" \in recorded \/ at > 8 => uncounted \/ "late" \in labelled
  /\ "totp" \in recorded \/ at > 14 => old \cap Users = {}
  /\ "threshold" \in recorded \/ at > 18 => old \cap Rules = {}

OneKey(k) == \A u \in Users : new[u] \in {k, None}

\* As long as a secret is left in clear, what has been sealed can be sealed again.
KeyOK ==
  /\ old \cap Users = {} => \E k \in Keys \cup {None} : OneKey(k)
  /\ old \cap Users # {} => \A u \in Users : new[u] # None => u \in old
  /\ at \notin {13, 17} => todo = {}
  /\ at = 13 => todo \subseteq old \cap Users
  /\ at = 17 => todo \subseteq old \cap Rules
  /\ at \in {13, 14} /\ old \cap Users # {} =>
       key # None /\ \A u \in old \cap Users : u \notin todo => new[u] = key
  /\ at = 42 => OneKey(key)

\* The types of what the file and the process hold, and that only between a drop and the
\* rename that follows is a table missing.
OpenTypes ==
  /\ recorded \subseteq Names /\ labelled \subseteq M!Row
  /\ deploy \in {"unverified", "verified", "withdrawn"} /\ uncounted \in BOOLEAN
  /\ at \in 0..42 /\ key \in Keys \cup {None} /\ todo \subseteq Users \cup Rules
  /\ old \subseteq Users \cup Rules /\ new \in [Users \cup Rules -> Keys \cup {"scaled", None}]
  /\ table \in [M!Tables -> [rows : SUBSET M!Row, new : BOOLEAN] \cup {None}]
  /\ copy \in [M!Tables -> (SUBSET M!Row) \cup {None}]
  /\ owed \in [M!Tables -> SUBSET M!Row]
  /\ at > 0 => \A t \in M!Tables : table[t] = None => at = CreateAt(t) + 3

OpenInv == OpenTypes /\ RebuildOK /\ ForecastOK /\ RecordOK /\ KeyOK

LEMMA TypesAreTyped == OpenTypes /\ KeyOK => M!TypeOK
<1> SUFFICES ASSUME OpenTypes, KeyOK PROVE M!TypeOK
  OBVIOUS
<1>1. at > 0 => \A t \in M!Tables : table[t] = None =>
                  at <= Len(M!Program) /\ M!Program[at].what = "rename" /\ M!Program[at].t = t
  <2> SUFFICES ASSUME at > 0, NEW t \in M!Tables, table[t] = None
               PROVE  at <= Len(M!Program) /\ M!Program[at].what = "rename" /\ M!Program[at].t = t
    OBVIOUS
  <2>1. at = CreateAt(t) + 3
    BY DEF OpenTypes
  <2>2. QED
    BY <2>1, ProgramSteps DEF CreateAt, M!Tables, On, Is
<1>2. todo # {} => M!Program[at].what = "move"
  BY ProgramSteps DEF KeyOK, Is
<1>3. QED
  BY <1>1, <1>2, TheMigrations, Begins DEF OpenTypes, M!TypeOK, M!Items

\* The statements of two rebuilds are apart.
LEMMA Apart ==
  /\ \A t \in M!Tables : CreateAt(t) \in {3, 20, 25, 32, 36}
  /\ \A t, u \in M!Tables : t # u => CreateAt(t) + 3 < CreateAt(u) \/ CreateAt(u) + 3 < CreateAt(t)
BY DEF M!Tables, CreateAt

LEMMA OpenInit == M!Init => OpenInv
<1> SUFFICES ASSUME M!Init PROVE OpenInv
  OBVIOUS
<1>1. /\ copy = [t \in M!Tables |-> None] /\ at = 0 /\ key = None /\ todo = {} /\ uncounted = FALSE
      /\ owed = [t \in M!Tables |-> IF table[t] = None THEN {} ELSE table[t].rows]
  BY DEF M!Init
<1>2. CASE /\ recorded = {} /\ table = [t \in M!Tables |-> None]
           /\ old = {} /\ new = [i \in M!Items |-> None] /\ labelled = {} /\ deploy = "verified"
  <2>1. OpenTypes
    <3>1. table \in [M!Tables -> [rows : SUBSET M!Row, new : BOOLEAN] \cup {None}]
      BY <1>2, Zenon
    <3>2. new \in [Users \cup Rules -> Keys \cup {"scaled", None}]
      BY <1>2, Zenon DEF M!Items
    <3>3. copy \in [M!Tables -> (SUBSET M!Row) \cup {None}]
      BY <1>1
    <3>4. owed \in [M!Tables -> SUBSET M!Row]
      BY <1>1, <1>2
    <3>5. /\ recorded \subseteq Names /\ labelled \subseteq M!Row
          /\ deploy \in {"unverified", "verified", "withdrawn"} /\ old \subseteq Users \cup Rules
      BY <1>2
    <3>6. at = 0 /\ at \in 0..42 /\ ~(at > 0)
      BY <1>1
    <3>7. key \in Keys \cup {None} /\ todo \subseteq Users \cup Rules
          /\ uncounted \in BOOLEAN
      BY <1>1, Zenon
    <3>8. QED
      BY <3>1, <3>2, <3>3, <3>4, <3>5, <3>6, <3>7, Zenon DEF OpenTypes
  <2>2. RebuildOK /\ ForecastOK
    BY <1>1, <1>2, Apart DEF RebuildOK, RebuildOf, ForecastOK, M!Tables
  <2>3. RecordOK
    BY <1>1, <1>2 DEF RecordOK
  <2>4. KeyOK
    BY <1>1, <1>2 DEF KeyOK, OneKey, M!Items
  <2>5. QED
    BY <2>1, <2>2, <2>3, <2>4 DEF OpenInv
<1>3. ASSUME NEW k \in 0..Len(M!Migration), NEW enrolled \in SUBSET Users, NEW sealer \in Keys,
             recorded = M!Earlier(k),
             table = [t \in M!Tables |-> M!OldTable(t, recorded)],
             old = (enrolled \cup Rules) \ M!Moved(recorded),
             new = [i \in M!Items |-> IF i \notin (enrolled \cup Rules) \cap M!Moved(recorded) THEN None
                                      ELSE IF i \in Users THEN sealer ELSE "scaled"],
             labelled = (IF "era" \in recorded THEN {"late"} ELSE {}),
             deploy = (IF "deploy" \in recorded THEN "verified" ELSE "unverified")
      PROVE  OpenInv
  <2>1. recorded \subseteq Names
    <3>1. Len(M!Migration) = 10 /\ \A i \in 1..10 : M!Migration[i] \in Names
      BY DEF M!Migration, Names
    <3>2. QED
      BY <1>3, <3>1 DEF M!Earlier
  <2>2. \A t \in M!Tables :
          /\ M!OldTable(t, recorded) \in [rows : SUBSET M!Row, new : BOOLEAN]
          /\ M!OldTable(t, recorded).rows \subseteq {"early", "late"}
    BY DEF M!OldTable, M!Tables, M!Row
  <2>3. \A t \in M!Tables : /\ table[t] \in [rows : SUBSET M!Row, new : BOOLEAN]
                            /\ table[t].rows \subseteq {"early", "late"}
                            /\ table[t] # None /\ owed[t] = table[t].rows
    BY <1>1, <1>3, <2>2, MigrationNumbers
  <2>4. OpenTypes
    <3>1. table \in [M!Tables -> [rows : SUBSET M!Row, new : BOOLEAN] \cup {None}]
      BY <1>3, <2>2
    <3>2. owed \in [M!Tables -> SUBSET M!Row]
      BY <1>1, <2>3
    <3>3. new \in [Users \cup Rules -> Keys \cup {"scaled", None}] /\ old \subseteq Users \cup Rules
      BY <1>3 DEF M!Items
    <3>4. labelled \subseteq M!Row
      BY <1>3 DEF M!Row
    <3>5. copy \in [M!Tables -> (SUBSET M!Row) \cup {None}]
      BY <1>1
    <3>6. deploy \in {"unverified", "verified", "withdrawn"}
      BY <1>3
    <3>7. at = 0 /\ at \in 0..42 /\ ~(at > 0)
      BY <1>1
    <3>8. key \in Keys \cup {None} /\ todo \subseteq Users \cup Rules
          /\ uncounted \in BOOLEAN
      BY <1>1, Zenon
    <3>9. QED
      BY <2>1, <3>1, <3>2, <3>3, <3>4, <3>5, <3>6, <3>7, <3>8, Zenon DEF OpenTypes
  <2>5. RebuildOK
    BY <1>1, <2>3, Apart DEF RebuildOK, RebuildOf, M!Rows
  <2>6. ForecastOK
    BY <1>1, <2>3 DEF ForecastOK, M!Rows, M!Tables
  <2>7. RecordOK
    BY <1>1, <1>3 DEF RecordOK, M!Moved
  <2>8. KeyOK
    <3>1. \A u \in Users : u \notin M!Moved(recorded) <=> "totp" \notin recorded
      BY MigrationNumbers DEF M!Moved
    <3>2. OneKey(sealer)
      BY <1>3 DEF OneKey, M!Items
    <3>3. old \cap Users # {} => \A u \in Users : new[u] # None => u \in old
      BY <1>3, <3>1 DEF M!Items
    <3>4. QED
      BY <1>1, <3>2, <3>3 DEF KeyOK
  <2>9. QED
    BY <2>4, <2>5, <2>6, <2>7, <2>8 DEF OpenInv
<1>4. CASE \E k \in 0..Len(M!Migration) : \E enrolled \in SUBSET Users, sealer \in Keys :
             LET there == enrolled \cup Rules
             IN /\ recorded = M!Earlier(k)
                /\ table = [t \in M!Tables |-> M!OldTable(t, recorded)]
                /\ old = there \ M!Moved(recorded)
                /\ new = [i \in M!Items |-> IF i \notin there \cap M!Moved(recorded) THEN None
                                          ELSE IF i \in Users THEN sealer ELSE "scaled"]
                /\ labelled = IF "era" \in recorded THEN {"late"} ELSE {}
                /\ deploy = IF "deploy" \in recorded THEN "verified" ELSE "unverified"
  BY <1>3, <1>4, Zenon
<1>5. QED
  BY <1>2, <1>4, Zenon DEF M!Init

-----------------------------------------------------------------------------
(* What a step leaves alone                                                  *)

\* What is recorded, and the values that are moved, are as before when the process ends
\* or goes past a statement that has nothing to do with them.
LEMMA RecordsStand ==
  ASSUME OpenInv,
         UNCHANGED <<recorded, deploy, labelled, old, new, uncounted>>,
         \/ at' = 0 /\ todo' = {}
         \/ /\ at' = at + 1 /\ at > 0 /\ key' = key /\ todo' = todo
            /\ at \notin {2, 8, 10, 11, 12, 13, 14, 17, 18, 41}
  PROVE  RecordOK' /\ KeyOK'
<1>1. RecordOK /\ KeyOK /\ at \in 0..42
  BY DEF OpenInv, OpenTypes
<1>2. RecordOK'
  BY <1>1 DEF RecordOK
<1>3. \A k : OneKey(k)' <=> OneKey(k)
  BY DEF OneKey
<1>4. old \cap Users = {} => \E k \in Keys \cup {None} : OneKey(k)'
  BY <1>1, <1>3 DEF KeyOK
<1>5. /\ at' \notin {13, 17} => todo' = {}
      /\ at' = 13 => todo' \subseteq old \cap Users
      /\ at' = 17 => todo' \subseteq old \cap Rules
      /\ at' \notin {13, 14, 42}
  BY <1>1 DEF KeyOK
<1>6. (old \cap Users # {} => \A u \in Users : new[u] # None => u \in old)'
  BY <1>1 DEF KeyOK
<1>7. QED
  BY <1>2, <1>4, <1>5, <1>6, Zenon DEF KeyOK

\* No row is moved by a step that does not touch the tables and their copies, as long as
\* it is not one of a rebuild and records nothing that has copies left.
LEMMA RebuildsStand ==
  ASSUME OpenInv,
         UNCHANGED <<table, copy, owed>>, recorded \subseteq recorded',
         \A t \in M!Tables : t # "kp_forecast" /\ MigrationOf(t) \in recorded' =>
           MigrationOf(t) \in recorded \/ at > CreateAt(t) + 3,
         \/ at' = 0
         \/ at' = at /\ at \in {13, 17, 42}
         \/ /\ at' = at + 1 /\ at > 0
            /\ \A t \in M!Tables : at \notin CreateAt(t)..(CreateAt(t) + 3)
  PROVE  RebuildOK' /\ ForecastOK' /\ (at' > 0 => \A t \in M!Tables : table'[t] = None => at' = CreateAt(t) + 3)
<1>1. RebuildOK /\ ForecastOK /\ at \in 0..42
      /\ (at > 0 => \A t \in M!Tables : table[t] = None => at = CreateAt(t) + 3)
  BY DEF OpenInv, OpenTypes
<1>2. \A t \in M!Tables : M!Rows(t)' = M!Rows(t) /\ CopyRows(t)' = CopyRows(t)
  BY DEF M!Rows, CopyRows
<1>3. ASSUME NEW t \in M!Tables PROVE RebuildOf(t)'
  <2>1. owed'[t] \subseteq M!Rows(t)' \cup CopyRows(t)'
    BY <1>1, <1>2 DEF RebuildOK, RebuildOf
  <2>2. CreateAt(t) \in {3, 20, 25, 32, 36}
    BY Apart
  <2>3. at' # at => at' \notin {CreateAt(t) + 1, CreateAt(t) + 2, CreateAt(t) + 3}
    BY <1>1, <2>2
  <2>4. at' > CreateAt(t) + 3 => at > CreateAt(t) + 3
    BY <1>1, <2>2
  <2>5. RebuildOf(t)
    BY <1>1 DEF RebuildOK
  <2>6. QED
    BY <1>1, <2>1, <2>3, <2>4, <2>5 DEF RebuildOf
<1>4. at' \notin 33..40
  <2>1. /\ "solar_wind" \in M!Tables /\ CreateAt("solar_wind") = 32
        /\ "imf" \in M!Tables /\ CreateAt("imf") = 36
    BY DEF M!Tables, CreateAt
  <2>2. at' = at + 1 => at \notin 32..39
    BY <1>1, <2>1
  <2>3. QED
    BY <1>1, <2>2
<1>5. ForecastOK'
  <2>1. "kp_forecast" \in M!Tables /\ CreateAt("kp_forecast") = 3
    BY DEF M!Tables, CreateAt
  <2>2. at' # at => at' \notin {4, 5}
    BY <1>1, <2>1
  <2>3. QED
    BY <1>1, <1>2, <2>1, <2>2 DEF ForecastOK
<1>6. at' > 0 => \A t \in M!Tables : table'[t] = None => at' = CreateAt(t) + 3
  BY <1>1, Apart
<1>7. QED
  BY <1>3, <1>4, <1>5, <1>6 DEF RebuildOK

\* A statement of one table's rebuild leaves the others as they are.
LEMMA OthersStand ==
  ASSUME OpenInv, NEW t \in M!Tables, NEW u \in M!Tables, u # t,
         table'[u] = table[u], copy'[u] = copy[u], UNCHANGED <<owed, recorded>>,
         at \in CreateAt(t)..(CreateAt(t) + 3), at' = 0 \/ at' = at + 1
  PROVE  RebuildOf(u)' /\ (at' > 0 => table'[u] # None)
<1>1. RebuildOf(u) /\ at \in 0..42 /\ (at > 0 /\ table[u] = None => at = CreateAt(u) + 3)
  BY DEF OpenInv, OpenTypes, RebuildOK
<1>2. M!Rows(u)' = M!Rows(u) /\ CopyRows(u)' = CopyRows(u)
  BY DEF M!Rows, CopyRows
<1>3. CreateAt(u) \in {3, 20, 25, 32, 36} /\ CreateAt(t) \in {3, 20, 25, 32, 36}
      /\ (CreateAt(t) + 3 < CreateAt(u) \/ CreateAt(u) + 3 < CreateAt(t))
  BY Apart
<1>4. at # CreateAt(u) + 3 /\ at' \notin {CreateAt(u) + 1, CreateAt(u) + 2, CreateAt(u) + 3}
      /\ (at' > CreateAt(u) + 3 => at > CreateAt(u) + 3)
  BY <1>1, <1>3
<1>5. owed'[u] \subseteq M!Rows(u)' \cup CopyRows(u)'
  BY <1>1, <1>2 DEF RebuildOf
<1>6. at' > 0 => table'[u] # None
  BY <1>1, <1>3, <1>4
<1>7. QED
  BY <1>1, <1>4, <1>5, <1>6 DEF RebuildOf

-----------------------------------------------------------------------------
(* The steps of a rebuild                                                    *)

LEMMA CreateStep == ASSUME OpenInv, M!CreateCopy PROVE OpenInv'
<1>1. PICK t : t = M!Program[at].t
  OBVIOUS
<1>2. /\ t \in M!Tables /\ at = CreateAt(t) /\ at \in 1..40 /\ M!Program[at].what = "create"
      /\ CreateAt(t) \in {3, 20, 25, 32, 36}
  BY <1>1, WhatIsWhere, ProgramSteps, Apart DEF M!CreateCopy, M!At
<1>3. /\ UNCHANGED <<recorded, table, labelled, old, new, deploy, owed, uncounted>>
      /\ \/ copy[t] # None /\ copy' = M!Tidied(t) /\ at' = 0 /\ key' = None /\ todo' = {}
         \/ copy[t] = None /\ copy' = [copy EXCEPT ![t] = {}] /\ at' = at + 1 /\ key' = key /\ todo' = todo
  BY <1>1 DEF M!CreateCopy, M!Here, M!Quits, M!Goes, M!history
<1>4. M!Due
  BY DEF M!CreateCopy
<1>5. OpenTypes /\ RebuildOK /\ ForecastOK /\ RecordOK /\ KeyOK
  BY DEF OpenInv
<1>6. RecordOK' /\ KeyOK'
  BY <1>2, <1>3, RecordsStand
<1>7. copy' \in [M!Tables -> (SUBSET M!Row) \cup {None}] /\ \A u \in M!Tables \ {t} : copy'[u] = copy[u]
  BY <1>2, <1>3, <1>5 DEF OpenTypes, M!Tidied
<1>8. \A u \in M!Tables \ {t} : RebuildOf(u)' /\ (at' > 0 => table'[u] # None)
  BY <1>2, <1>3, <1>7, OthersStand
<1>9. table[t] # None
  BY <1>2, <1>5 DEF OpenTypes
<1>10. RebuildOf(t) /\ M!Rows(t)' = M!Rows(t)
  BY <1>2, <1>3, <1>5 DEF RebuildOK, M!Rows
<1>11. OpenTypes'
  BY <1>2, <1>3, <1>5, <1>7, <1>8, <1>9 DEF OpenTypes
<1>12. CASE copy[t] = None
  <2>1. at' = CreateAt(t) + 1 /\ copy'[t] = {} /\ copy'[t] # None
    BY <1>2, <1>3, <1>5, <1>12, MigrationNumbers DEF OpenTypes
  <2>2. t # "kp_forecast" => MigrationOf(t) \notin recorded
    <3>1. CASE at = 36
      BY <1>5, <3>1, <1>2 DEF RebuildOK, MigrationOf, CreateAt, M!Tables
    <3>2. CASE at # 36 /\ t # "kp_forecast"
      <4>1. at \in {20, 25, 32}
        BY <1>2, <3>2 DEF CreateAt, M!Tables
      <4>2. M!Program[at].m = MigrationOf(t) /\ M!Program[at].m # "forecast"
        BY <1>2, <3>2, <4>1, ProgramSteps DEF On, Is, MigrationOf, CreateAt, M!Tables
      <4>3. M!First(at)
        BY <4>1, Begins
      <4>4. QED
        BY <1>4, <4>2, <4>3 DEF M!Due, M!Here, M!Pending
    <3>3. QED
      BY <3>1, <3>2, <1>2 DEF CreateAt, M!Tables
  <2>3. owed'[t] \subseteq M!Rows(t)'
    BY <1>3, <1>10, <1>12 DEF RebuildOf, CopyRows
  <2>4. RebuildOf(t)'
    BY <1>2, <1>3, <2>1, <2>2, <2>3 DEF RebuildOf
  <2>5. at' \in 33..40 => "series" \notin recorded'
    <3>1. SUFFICES ASSUME at' \in 33..40 PROVE "series" \notin recorded
      BY <1>3
    <3>2. t = "solar_wind" \/ t = "imf"
      BY <1>2, <2>1, <3>1 DEF CreateAt, M!Tables
    <3>3. QED
      BY <2>2, <3>2 DEF MigrationOf
  <2>6. RebuildOK'
    BY <1>8, <2>4, <2>5 DEF RebuildOK
  <2>7. ForecastOK'
    <3>1. at' \in {4, 5} => t = "kp_forecast"
      BY <1>2, <2>1 DEF CreateAt, M!Tables
    <3>2. M!Rows("kp_forecast")' = M!Rows("kp_forecast")
      BY <1>3 DEF M!Rows
    <3>3. QED
      BY <1>3, <1>5, <2>3, <3>1, <3>2 DEF ForecastOK
  <2>8. QED
    BY <1>6, <1>11, <2>6, <2>7 DEF OpenInv
<1>13. CASE copy[t] # None
  <2>1. at' = 0
    BY <1>3, <1>13
  <2>2. t = "kp_forecast" => owed[t] \subseteq M!Rows(t)
    <3>1. SUFFICES ASSUME t = "kp_forecast" PROVE ~table[t].new
      BY <1>5, <1>9, <3>1 DEF ForecastOK
    <3>2. at = 3 /\ M!First(3) /\ M!Program[3].m = "forecast"
      BY <1>2, <3>1, Begins, ProgramSteps DEF CreateAt, On, Is
    <3>3. QED
      BY <1>4, <3>1, <3>2 DEF M!Due, M!Here, M!Pending
  <2>3. t # "kp_forecast" => copy'[t] = copy[t]
    BY <1>3, <1>13 DEF M!Tidied
  <2>4. RebuildOf(t)'
    BY <1>2, <1>3, <1>10, <1>13, <2>1, <2>2, <2>3 DEF RebuildOf, CopyRows
  <2>5. RebuildOK'
    BY <1>8, <2>1, <2>4 DEF RebuildOK
  <2>6. ForecastOK'
    <3>1. M!Rows("kp_forecast")' = M!Rows("kp_forecast")
      BY <1>3 DEF M!Rows
    <3>2. QED
      BY <1>3, <1>5, <2>1, <3>1 DEF ForecastOK
  <2>7. QED
    BY <1>6, <1>11, <2>5, <2>6 DEF OpenInv
<1>14. QED
  BY <1>12, <1>13

LEMMA FillStep == ASSUME OpenInv, M!FillCopy PROVE OpenInv'
<1>1. PICK t : t = M!Program[at].t
  OBVIOUS
<1>2. /\ t \in M!Tables /\ at = CreateAt(t) + 1 /\ at \in 1..40
      /\ CreateAt(t) \in {3, 20, 25, 32, 36}
  BY <1>1, WhatIsWhere, ProgramSteps, Apart DEF M!FillCopy, M!At
<1>3. /\ UNCHANGED <<recorded, table, labelled, old, new, deploy, owed, uncounted, key, todo>>
      /\ copy' = [copy EXCEPT ![t] = table[t].rows] /\ at' = at + 1
  BY <1>1 DEF M!FillCopy, M!Here, M!Goes, M!history
<1>4. OpenTypes /\ RebuildOK /\ ForecastOK /\ RecordOK /\ KeyOK
  BY DEF OpenInv
<1>5. RecordOK' /\ KeyOK'
  BY <1>2, <1>3, RecordsStand
<1>6. table[t] # None /\ table[t].rows \in SUBSET M!Row /\ table[t].rows # None
  BY <1>2, <1>4, MigrationNumbers DEF OpenTypes
<1>7. /\ copy' \in [M!Tables -> (SUBSET M!Row) \cup {None}] /\ copy'[t] = table[t].rows
      /\ \A u \in M!Tables \ {t} : copy'[u] = copy[u]
  BY <1>2, <1>3, <1>4, <1>6 DEF OpenTypes
<1>8. \A u \in M!Tables \ {t} : RebuildOf(u)' /\ (at' > 0 => table'[u] # None)
  BY <1>2, <1>3, <1>7, OthersStand
<1>9. RebuildOf(t) /\ M!Rows(t)' = M!Rows(t)
  BY <1>2, <1>3, <1>4 DEF RebuildOK, M!Rows
<1>10. OpenTypes'
  BY <1>2, <1>3, <1>4, <1>6, <1>7, <1>8 DEF OpenTypes
<1>11. copy[t] = {} /\ {} # None
  BY <1>2, <1>9, MigrationNumbers DEF RebuildOf
<1>12. RebuildOf(t)'
  BY <1>2, <1>3, <1>6, <1>7, <1>9, <1>11 DEF RebuildOf, CopyRows
<1>13. at' \in 33..40 => "series" \notin recorded'
  BY <1>2, <1>3, <1>4 DEF RebuildOK
<1>14. RebuildOK'
  BY <1>8, <1>12, <1>13 DEF RebuildOK
<1>15. M!Rows("kp_forecast")' = M!Rows("kp_forecast")
  BY <1>3 DEF M!Rows
<1>16. ForecastOK'
  BY <1>2, <1>3, <1>4, <1>15 DEF ForecastOK
<1>17. QED
  BY <1>5, <1>10, <1>14, <1>16 DEF OpenInv

LEMMA DropStep == ASSUME OpenInv, M!DropTable PROVE OpenInv'
<1>1. PICK t : t = M!Program[at].t
  OBVIOUS
<1>2. /\ t \in M!Tables /\ at = CreateAt(t) + 2 /\ at \in 1..40
      /\ CreateAt(t) \in {3, 20, 25, 32, 36}
  BY <1>1, WhatIsWhere, ProgramSteps, Apart DEF M!DropTable, M!At
<1>3. OpenTypes /\ RebuildOK /\ ForecastOK /\ RecordOK /\ KeyOK
  BY DEF OpenInv
<1>4. RebuildOf(t) /\ copy[t] = table[t].rows /\ M!Verified(t)
  BY <1>2, <1>3 DEF RebuildOK, RebuildOf, M!Verified
<1>5. /\ UNCHANGED <<recorded, copy, labelled, old, new, deploy, owed, uncounted, key, todo>>
      /\ table' = [table EXCEPT ![t] = None] /\ at' = at + 1
  BY <1>1, <1>4 DEF M!DropTable, M!Here, M!Goes, M!history
<1>6. RecordOK' /\ KeyOK'
  BY <1>2, <1>5, RecordsStand
<1>7. table[t] # None /\ table[t].rows \in SUBSET M!Row /\ table[t].rows # None
  BY <1>2, <1>3, MigrationNumbers DEF OpenTypes
<1>8. /\ table' \in [M!Tables -> [rows : SUBSET M!Row, new : BOOLEAN] \cup {None}] /\ table'[t] = None
      /\ \A u \in M!Tables \ {t} : table'[u] = table[u]
  BY <1>2, <1>5, <1>3, <1>7 DEF OpenTypes
<1>9. \A u \in M!Tables \ {t} : RebuildOf(u)' /\ (at' > 0 => table'[u] # None)
  BY <1>2, <1>5, <1>8, <1>3, OthersStand
<1>10. at' = CreateAt(t) + 3
  BY <1>2, <1>5
<1>11. OpenTypes'
  BY <1>2, <1>3, <1>5, <1>8, <1>9, <1>10 DEF OpenTypes
<1>12. RebuildOf(t)'
  BY <1>2, <1>4, <1>5, <1>7, <1>8, <1>10 DEF RebuildOf, CopyRows, M!Rows
<1>13. at' \in 33..40 => "series" \notin recorded'
  BY <1>2, <1>3, <1>5 DEF RebuildOK
<1>14. RebuildOK'
  BY <1>9, <1>12, <1>13 DEF RebuildOK
<1>15. ForecastOK'
  <2>1. at' \notin {4, 5}
    BY <1>2, <1>10
  <2>2. CASE t = "kp_forecast"
    BY <1>3, <1>5, <1>8, <2>1, <2>2 DEF ForecastOK
  <2>3. CASE t # "kp_forecast"
    <3>1. "kp_forecast" \in M!Tables
      BY DEF M!Tables
    <3>2. table'["kp_forecast"] = table["kp_forecast"] /\ M!Rows("kp_forecast")' = M!Rows("kp_forecast")
      BY <1>8, <2>3, <3>1 DEF M!Rows
    <3>3. QED
      BY <1>3, <1>5, <2>1, <3>2 DEF ForecastOK
  <2>4. QED
    BY <2>2, <2>3
<1>16. QED
  BY <1>6, <1>11, <1>14, <1>15 DEF OpenInv

LEMMA RenameStep == ASSUME OpenInv, M!RenameCopy PROVE OpenInv'
<1>1. PICK t : t = M!Program[at].t
  OBVIOUS
<1>2. /\ t \in M!Tables /\ at = CreateAt(t) + 3 /\ at \in 1..40
      /\ CreateAt(t) \in {3, 20, 25, 32, 36}
  BY <1>1, WhatIsWhere, ProgramSteps, Apart DEF M!RenameCopy, M!At
<1>3. OpenTypes /\ RebuildOK /\ ForecastOK /\ RecordOK /\ KeyOK
  BY DEF OpenInv
<1>4. RebuildOf(t) /\ copy[t] # None /\ owed[t] \subseteq copy[t] /\ copy[t] \in SUBSET M!Row
  BY <1>2, <1>3 DEF RebuildOK, RebuildOf, OpenTypes
<1>5. /\ UNCHANGED <<recorded, labelled, old, new, deploy, owed, uncounted, key, todo>> /\ at' = at + 1
      /\ table' = [table EXCEPT ![t] = [rows |-> copy[t], new |-> TRUE]]
      /\ copy' = [copy EXCEPT ![t] = None]
  BY <1>1 DEF M!RenameCopy, M!Here, M!Goes, M!history
<1>6. RecordOK' /\ KeyOK'
  BY <1>2, <1>5, RecordsStand
<1>7. [rows |-> copy[t], new |-> TRUE] \in [rows : SUBSET M!Row, new : BOOLEAN]
  BY <1>4
<1>8. /\ table' \in [M!Tables -> [rows : SUBSET M!Row, new : BOOLEAN] \cup {None}]
      /\ table'[t] = [rows |-> copy[t], new |-> TRUE] /\ table'[t] # None
      /\ \A u \in M!Tables \ {t} : table'[u] = table[u]
  BY <1>2, <1>3, <1>5, <1>7, MigrationNumbers DEF OpenTypes
<1>9. /\ copy' \in [M!Tables -> (SUBSET M!Row) \cup {None}] /\ copy'[t] = None
      /\ \A u \in M!Tables \ {t} : copy'[u] = copy[u]
  BY <1>2, <1>3, <1>5 DEF OpenTypes
<1>10. \A u \in M!Tables \ {t} : RebuildOf(u)' /\ (at' > 0 => table'[u] # None)
  BY <1>2, <1>3, <1>5, <1>8, <1>9, OthersStand
<1>11. OpenTypes'
  BY <1>2, <1>3, <1>5, <1>8, <1>9, <1>10 DEF OpenTypes
<1>12. RebuildOf(t)'
  <2>1. M!Rows(t)' = copy[t]
    BY <1>8 DEF M!Rows
  <2>2. at' = CreateAt(t) + 4
    BY <1>2, <1>5
  <2>3. QED
    BY <1>2, <1>4, <1>5, <1>9, <2>1, <2>2 DEF RebuildOf
<1>13. at' \in 33..40 => "series" \notin recorded'
  BY <1>2, <1>3, <1>5 DEF RebuildOK
<1>14. RebuildOK'
  BY <1>10, <1>12, <1>13 DEF RebuildOK
<1>15. ForecastOK'
  <2>1. at' \notin {4, 5}
    BY <1>2, <1>5
  <2>2. CASE t = "kp_forecast"
    <3>1. table'[t].new
      BY <1>8
    <3>2. QED
      BY <1>3, <1>5, <2>1, <2>2, <3>1 DEF ForecastOK
  <2>3. CASE t # "kp_forecast"
    <3>1. "kp_forecast" \in M!Tables
      BY DEF M!Tables
    <3>2. table'["kp_forecast"] = table["kp_forecast"] /\ M!Rows("kp_forecast")' = M!Rows("kp_forecast")
      BY <1>8, <2>3, <3>1 DEF M!Rows
    <3>3. QED
      BY <1>3, <1>5, <2>1, <3>2 DEF ForecastOK
  <2>4. QED
    BY <2>2, <2>3
<1>16. QED
  BY <1>6, <1>11, <1>14, <1>15 DEF OpenInv

\* A statement that fails, or a process that ends, leaves all rows where they can be found.
LEMMA FailsStep == ASSUME OpenInv, M!Fails PROVE OpenInv'
<1>1. PICK t : t = M!Program[at].t
  OBVIOUS
<1>2. /\ UNCHANGED <<recorded, table, labelled, old, new, deploy, owed, uncounted>>
      /\ at' = 0 /\ key' = None /\ todo' = {} /\ at \in 1..41
      /\ copy' = copy \/ (copy' = M!Tidied(t) /\ ((M!At("create") /\ M!Due) \/ M!At("fill")))
  BY <1>1, Begins DEF M!Fails, M!Here, M!Quits, M!history
<1>3. OpenTypes /\ RebuildOK /\ ForecastOK /\ RecordOK /\ KeyOK
  BY DEF OpenInv
<1>4. RecordOK' /\ KeyOK'
  BY <1>2, RecordsStand
<1>5. CASE copy' = copy
  <2>1. RebuildOK' /\ ForecastOK'
    BY <1>2, <1>5, RebuildsStand
  <2>2. OpenTypes'
    BY <1>2, <1>3, <1>5 DEF OpenTypes
  <2>3. QED
    BY <1>4, <2>1, <2>2 DEF OpenInv
<1>6. CASE copy' # copy
  <2>1. t = "kp_forecast" /\ copy' = [copy EXCEPT ![t] = None]
    BY <1>2, <1>6 DEF M!Tidied
  <2>2. owed["kp_forecast"] \subseteq M!Rows("kp_forecast")
    <3>1. CASE M!At("fill")
      <4>1. at \in 1..40 /\ M!Program[at].what = "fill"
        BY <3>1, ProgramSteps DEF M!At
      <4>2. at = CreateAt("kp_forecast") + 1
        <5>1. at = CreateAt(M!Program[at].t) + 1
          BY <4>1, WhatIsWhere
        <5>2. QED
          BY <1>1, <2>1, <5>1
      <4>3. QED
        BY <1>3, <4>2 DEF ForecastOK, CreateAt
    <3>2. CASE M!At("create") /\ M!Due
      <4>1. at \in 1..40 /\ M!Program[at].what = "create"
        BY <3>2, ProgramSteps DEF M!At
      <4>2. "kp_forecast" \in M!Tables /\ CreateAt("kp_forecast") = 3
        BY DEF M!Tables, CreateAt
      <4>3. at = 3
        <5>1. at = CreateAt(M!Program[at].t)
          BY <4>1, WhatIsWhere
        <5>2. QED
          BY <1>1, <2>1, <4>2, <5>1
      <4>4. M!First(3) /\ M!Program[3].m = "forecast"
        BY Begins, ProgramSteps DEF On, Is
      <4>5. ~table["kp_forecast"].new
        BY <3>2, <4>3, <4>4 DEF M!Due, M!Here, M!Pending
      <4>6. table["kp_forecast"] # None
        BY <1>3, <4>2, <4>3 DEF OpenTypes
      <4>7. QED
        BY <1>3, <4>5, <4>6 DEF ForecastOK
    <3>3. QED
      BY <1>2, <1>6, <3>1, <3>2
  <2>3. \A u \in M!Tables : M!Rows(u)' = M!Rows(u)
    BY <1>2 DEF M!Rows
  <2>4. /\ copy' \in [M!Tables -> (SUBSET M!Row) \cup {None}]
        /\ \A u \in M!Tables : u # "kp_forecast" => copy'[u] = copy[u]
    BY <1>3, <2>1 DEF OpenTypes
  <2>5. ASSUME NEW u \in M!Tables PROVE RebuildOf(u)'
    <3>1. RebuildOf(u) /\ CreateAt(u) \in {3, 20, 25, 32, 36}
      BY <1>3, Apart DEF RebuildOK
    <3>2. owed'[u] \subseteq M!Rows(u)' \cup CopyRows(u)'
      BY <1>2, <2>2, <2>3, <2>4, <3>1 DEF RebuildOf, CopyRows
    <3>3. QED
      BY <1>2, <2>4, <3>1, <3>2 DEF RebuildOf
  <2>6. RebuildOK'
    BY <1>2, <2>5 DEF RebuildOK
  <2>7. ForecastOK'
    BY <1>2, <1>3, <2>3, <2>2 DEF ForecastOK, M!Tables
  <2>8. OpenTypes'
    BY <1>2, <1>3, <2>4 DEF OpenTypes
  <2>9. QED
    BY <1>4, <2>6, <2>7, <2>8 DEF OpenInv
<1>7. QED
  BY <1>5, <1>6

LEMMA EndsStep == ASSUME OpenInv, M!Ends PROVE OpenInv'
<1>1. /\ UNCHANGED <<recorded, table, copy, labelled, old, new, deploy, owed, uncounted>>
      /\ at' = 0 /\ key' = None /\ todo' = {}
  BY DEF M!Ends, M!Quits, M!disk, M!history
<1>2. RecordOK' /\ KeyOK'
  BY <1>1, RecordsStand
<1>3. RebuildOK' /\ ForecastOK'
  BY <1>1, RebuildsStand
<1>4. OpenTypes'
  BY <1>1 DEF OpenInv, OpenTypes
<1>5. QED
  BY <1>2, <1>3, <1>4 DEF OpenInv

-----------------------------------------------------------------------------
(* The other steps of Store::open                                            *)

LEMMA OpenStep == ASSUME OpenInv, M!Open PROVE OpenInv'
<1>1. /\ UNCHANGED <<recorded, copy, labelled, old, new, deploy, todo, owed, uncounted>>
      /\ at = 0 /\ at' = 1 /\ key' \in Keys \cup {None}
      /\ table' = [t \in M!Tables |-> IF table[t] = None THEN [rows |-> {}, new |-> TRUE] ELSE table[t]]
  BY DEF M!Open, M!history
<1>2. OpenTypes /\ RebuildOK /\ ForecastOK /\ RecordOK /\ KeyOK
  BY DEF OpenInv
<1>3. \A t \in M!Tables :
        /\ table'[t] = IF table[t] = None THEN [rows |-> {}, new |-> TRUE] ELSE table[t]
        /\ table'[t] \in [rows : SUBSET M!Row, new : BOOLEAN] /\ table'[t] # None
        /\ M!Rows(t)' = M!Rows(t) /\ CopyRows(t)' = CopyRows(t)
  <2> SUFFICES ASSUME NEW t \in M!Tables
               PROVE  /\ table'[t] = IF table[t] = None THEN [rows |-> {}, new |-> TRUE] ELSE table[t]
                      /\ table'[t] \in [rows : SUBSET M!Row, new : BOOLEAN] /\ table'[t] # None
                      /\ M!Rows(t)' = M!Rows(t) /\ CopyRows(t)' = CopyRows(t)
    OBVIOUS
  <2>1. table'[t] = IF table[t] = None THEN [rows |-> {}, new |-> TRUE] ELSE table[t]
    BY <1>1
  <2>2. [rows |-> {}, new |-> TRUE] \in [rows : SUBSET M!Row, new : BOOLEAN]
    OBVIOUS
  <2>3. table'[t] \in [rows : SUBSET M!Row, new : BOOLEAN] /\ table'[t] # None
    BY <1>2, <2>1, <2>2, MigrationNumbers DEF OpenTypes
  <2>4. M!Rows(t)' = M!Rows(t) /\ CopyRows(t)' = CopyRows(t)
    BY <1>1, <2>1, <2>3 DEF M!Rows, CopyRows
  <2>5. QED
    BY <2>1, <2>3, <2>4
<1>4. OpenTypes'
  <2>1. table' \in [M!Tables -> [rows : SUBSET M!Row, new : BOOLEAN] \cup {None}]
    BY <1>1, <1>3
  <2>2. QED
    BY <1>1, <1>2, <1>3, <2>1 DEF OpenTypes
<1>5. ASSUME NEW t \in M!Tables PROVE RebuildOf(t)'
  <2>1. RebuildOf(t) /\ CreateAt(t) \in {3, 20, 25, 32, 36}
    BY <1>2, Apart DEF RebuildOK
  <2>2. QED
    BY <1>1, <1>3, <2>1 DEF RebuildOf
<1>6. RebuildOK'
  BY <1>1, <1>5 DEF RebuildOK
<1>7. ForecastOK'
  <2>1. "kp_forecast" \in M!Tables
    BY DEF M!Tables
  <2>2. table["kp_forecast"] = None => table'["kp_forecast"].new
    BY <1>3, <2>1
  <2>3. table["kp_forecast"] # None => table'["kp_forecast"] = table["kp_forecast"]
    BY <1>3, <2>1
  <2>4. QED
    BY <1>1, <1>2, <1>3, <2>1, <2>2, <2>3 DEF ForecastOK
<1>8. RecordOK'
  BY <1>1, <1>2 DEF RecordOK
<1>9. \A k : OneKey(k)' <=> OneKey(k)
  BY <1>1 DEF OneKey
<1>10. KeyOK'
  <2>1. old \cap Users = {} => \E k \in Keys \cup {None} : OneKey(k)'
    BY <1>2, <1>9 DEF KeyOK
  <2>2. at' \notin {13, 14, 17, 42} /\ todo' = {}
    BY <1>1, <1>2 DEF KeyOK
  <2>3. (old \cap Users # {} => \A u \in Users : new[u] # None => u \in old)'
    BY <1>1, <1>2 DEF KeyOK
  <2>4. QED
    BY <1>1, <2>1, <2>2, <2>3, Zenon DEF KeyOK
<1>11. QED
  BY <1>4, <1>6, <1>7, <1>8, <1>10 DEF OpenInv

\* A migration is skipped only when what it would do has been done.
LEMMA SkipStep == ASSUME OpenInv, M!Skip PROVE OpenInv'
<1>1. /\ UNCHANGED <<recorded, table, copy, labelled, old, new, deploy, owed, uncounted, key, todo>>
      /\ at \in 1..40 /\ at' = M!After(at) /\ M!First(at) /\ ~M!Pending(M!Program[at].m)
  BY ProgramSteps DEF M!Skip, M!disk, M!history, M!Due, M!Here
<1>2. \/ at = 1 /\ at' = 3 /\ "purge" \in recorded
      \/ at = 3 /\ at' = 8
      \/ at = 8 /\ at' = 10 /\ "era" \in recorded
      \/ at = 10 /\ at' = 12 /\ "deploy" \in recorded
      \/ at = 12 /\ at' = 16 /\ "totp" \in recorded
      \/ at = 16 /\ at' = 20 /\ "threshold" \in recorded
      \/ at = 20 /\ at' = 25 /\ "usage" \in recorded
      \/ at = 25 /\ at' = 30 /\ "xray" \in recorded
      \/ at = 30 /\ at' = 32
      \/ at = 32 /\ at' = 41 /\ "series" \in recorded
  <2>1. at \in {1, 3, 8, 10, 12, 16, 20, 25, 30, 32}
    BY <1>1, Begins
  <2>2. M!Program[at].m # "forecast" => M!Program[at].m \in recorded
    BY <1>1 DEF M!Pending
  <2>3. QED
    BY <1>1, <2>1, <2>2, AfterEach, ProgramSteps DEF Is, On
<1>3. OpenTypes /\ RebuildOK /\ ForecastOK /\ RecordOK /\ KeyOK
  BY DEF OpenInv
<1>4. RecordOK'
  BY <1>1, <1>2, <1>3 DEF RecordOK
<1>5. KeyOK'
  <2>1. at' \notin {13, 14, 17, 42} /\ todo' = {}
    BY <1>1, <1>2, <1>3 DEF KeyOK
  <2>2. \A k : OneKey(k)' <=> OneKey(k)
    BY <1>1 DEF OneKey
  <2>3. (old \cap Users = {} => \E k \in Keys \cup {None} : OneKey(k))'
    BY <1>1, <1>3, <2>2 DEF KeyOK
  <2>4. (old \cap Users # {} => \A u \in Users : new[u] # None => u \in old)'
    BY <1>1, <1>3 DEF KeyOK
  <2>5. QED
    BY <2>1, <2>3, <2>4, Zenon DEF KeyOK
<1>6. ASSUME NEW t \in M!Tables PROVE RebuildOf(t)' /\ table[t] # None
  <2>1. RebuildOf(t) /\ CreateAt(t) \in {3, 20, 25, 32, 36}
    BY <1>3, Apart DEF RebuildOK
  <2>2. M!Rows(t)' = M!Rows(t) /\ CopyRows(t)' = CopyRows(t)
    BY <1>1 DEF M!Rows, CopyRows
  <2>3. at' \notin {CreateAt(t) + 1, CreateAt(t) + 2, CreateAt(t) + 3}
    BY <1>2, <2>1
  <2>4. t # "kp_forecast" /\ at' > CreateAt(t) + 3 => at > CreateAt(t) + 3 \/ MigrationOf(t) \in recorded
    BY <1>2 DEF CreateAt, MigrationOf, M!Tables
  <2>5. table[t] # None
    BY <1>2, <1>3, <2>1 DEF OpenTypes
  <2>6. QED
    BY <1>1, <2>1, <2>2, <2>3, <2>4, <2>5 DEF RebuildOf
<1>7. RebuildOK'
  BY <1>2, <1>6 DEF RebuildOK
<1>8. M!Rows("kp_forecast")' = M!Rows("kp_forecast")
  BY <1>1 DEF M!Rows
<1>9. ForecastOK'
  BY <1>1, <1>2, <1>3, <1>8 DEF ForecastOK
<1>10. OpenTypes'
  BY <1>1, <1>2, <1>3, <1>6 DEF OpenTypes
<1>11. QED
  BY <1>4, <1>5, <1>7, <1>9, <1>10 DEF OpenInv

LEMMA RecordStep == ASSUME OpenInv, M!Record PROVE OpenInv'
<1>1. PICK m : m = M!Program[at].m
  OBVIOUS
<1>2. /\ UNCHANGED <<table, copy, labelled, old, new, deploy, owed, uncounted, key, todo>>
      /\ at \in 1..40 /\ M!Program[at].what = "record"
      /\ recorded' = recorded \cup {m} /\ at' = at + 1
  BY <1>1, ProgramSteps DEF M!Record, M!At, M!Here, M!Goes, M!history
<1>3. \/ at = 2 /\ m = "purge"
      \/ at = 7 /\ m = "forecast"
      \/ at = 9 /\ m = "era"
      \/ at = 11 /\ m = "deploy"
      \/ at = 15 /\ m = "totp"
      \/ at = 19 /\ m = "threshold"
      \/ at = 24 /\ m = "usage"
      \/ at = 29 /\ m = "xray"
      \/ at = 31 /\ m = "unlabelled"
      \/ at = 40 /\ m = "series"
  <2>1. at \in {2, 7, 9, 11, 15, 19, 24, 29, 31, 40}
    BY <1>2, WhatIsWhere
  <2>2. /\ at = 2 => m = "purge"
        /\ at = 7 => m = "forecast"
        /\ at = 9 => m = "era"
        /\ at = 11 => m = "deploy"
        /\ at = 15 => m = "totp"
        /\ at = 19 => m = "threshold"
        /\ at = 24 => m = "usage"
        /\ at = 29 => m = "xray"
        /\ at = 31 => m = "unlabelled"
        /\ at = 40 => m = "series"
    BY <1>1, ProgramSteps DEF Is
  <2>3. QED
    BY <2>1, <2>2
<1>4. OpenTypes /\ RebuildOK /\ ForecastOK /\ RecordOK /\ KeyOK
  BY DEF OpenInv
<1>5. RecordOK'
  BY <1>2, <1>3, <1>4 DEF RecordOK
<1>6. KeyOK'
  <2>1. at' \notin {13, 14, 17, 42} /\ todo' = {}
    BY <1>2, <1>3, <1>4 DEF KeyOK
  <2>2. \A k : OneKey(k)' <=> OneKey(k)
    BY <1>2 DEF OneKey
  <2>3. (old \cap Users = {} => \E k \in Keys \cup {None} : OneKey(k))'
    BY <1>2, <1>4, <2>2 DEF KeyOK
  <2>4. (old \cap Users # {} => \A u \in Users : new[u] # None => u \in old)'
    BY <1>2, <1>4 DEF KeyOK
  <2>5. QED
    BY <2>1, <2>3, <2>4, Zenon DEF KeyOK
<1>7. \A t \in M!Tables : t # "kp_forecast" /\ MigrationOf(t) \in recorded' =>
        MigrationOf(t) \in recorded \/ at > CreateAt(t) + 3
  BY <1>2, <1>3 DEF M!Tables, MigrationOf, CreateAt
<1>8. \A t \in M!Tables : at \notin CreateAt(t)..(CreateAt(t) + 3)
  BY <1>3 DEF M!Tables, CreateAt
<1>9. /\ RebuildOK' /\ ForecastOK'
      /\ at' > 0 => \A t \in M!Tables : table'[t] = None => at' = CreateAt(t) + 3
  BY <1>2, <1>7, <1>8, RebuildsStand
<1>10. OpenTypes'
  <2>1. m \in Names
    BY <1>3 DEF Names
  <2>2. QED
    BY <1>2, <1>4, <1>9, <2>1 DEF OpenTypes
<1>11. QED
  BY <1>5, <1>6, <1>9, <1>10 DEF OpenInv

\* What a migration deletes on purpose is not owed any more; everything else it deletes
\* nothing of.
LEMMA WorkStep == ASSUME OpenInv, M!Work PROVE OpenInv'
<1>1. /\ UNCHANGED <<recorded, copy, old, new, uncounted, key, todo>>
      /\ at \in {1, 8, 10, 30} /\ at' = at + 1 /\ M!Due /\ M!First(at)
      /\ M!PurgeForecasts \/ M!FixEra \/ M!VerifyDeployAccounts \/ M!DropUnlabelled
  <2>1. at \in 1..40 /\ M!Program[at].what = "work"
    BY ProgramSteps DEF M!Work, M!At
  <2>2. at \in {1, 8, 10, 30}
    BY <2>1, WhatIsWhere
  <2>3. M!First(at)
    BY <2>2, Begins
  <2>4. QED
    BY <2>2, <2>3 DEF M!Work, M!Goes
<1>2. OpenTypes /\ RebuildOK /\ ForecastOK /\ RecordOK /\ KeyOK
  BY DEF OpenInv
<1>3. M!Program[at].m \notin recorded
  BY <1>1, ProgramSteps DEF M!Due, M!Here, M!Pending, Is
<1>4. \A t \in M!Tables : /\ at \notin (CreateAt(t) + 1)..(CreateAt(t) + 3) /\ table[t] # None
                          /\ at' \notin (CreateAt(t) + 1)..(CreateAt(t) + 3)
                          /\ (at' > CreateAt(t) + 3 => at > CreateAt(t) + 3)
                          /\ table[t] \in [rows : SUBSET M!Row, new : BOOLEAN]
  BY <1>1, <1>2, Apart DEF OpenTypes
<1>5. \A k : OneKey(k)' <=> OneKey(k)
  BY <1>1 DEF OneKey
<1>6. KeyOK'
  <2>1. at' \notin {13, 14, 17, 42} /\ todo' = {}
    BY <1>1, <1>2 DEF KeyOK
  <2>2. (old \cap Users = {} => \E k \in Keys \cup {None} : OneKey(k))'
    BY <1>1, <1>2, <1>5 DEF KeyOK
  <2>3. (old \cap Users # {} => \A u \in Users : new[u] # None => u \in old)'
    BY <1>1, <1>2 DEF KeyOK
  <2>4. QED
    BY <2>1, <2>2, <2>3, Zenon DEF KeyOK
<1>7. ASSUME UNCHANGED <<table, owed>> PROVE RebuildOK' /\ ForecastOK'
  <2>1. ASSUME NEW t \in M!Tables PROVE RebuildOf(t)'
    <3>1. RebuildOf(t) /\ M!Rows(t)' = M!Rows(t) /\ CopyRows(t)' = CopyRows(t)
      BY <1>1, <1>2, <1>7 DEF RebuildOK, M!Rows, CopyRows
    <3>2. QED
      BY <1>1, <1>4, <1>7, <3>1, Apart DEF RebuildOf
  <2>2. M!Rows("kp_forecast")' = M!Rows("kp_forecast")
    BY <1>7 DEF M!Rows
  <2>3. ForecastOK'
    BY <1>1, <1>2, <1>7, <2>2 DEF ForecastOK
  <2>4. QED
    BY <1>1, <2>1, <2>3 DEF RebuildOK
<1>8. ASSUME NEW rows \in SUBSET M!Row, NEW ts \in SUBSET M!Tables, M!Without(rows, ts),
             "kp_forecast" \in ts =>
               ts = {"kp_forecast"} /\ "served" \notin owed["kp_forecast"] /\ rows = M!Row,
             "kp_forecast" \notin ts => "served" \notin rows
      PROVE  /\ RebuildOK' /\ ForecastOK'
             /\ table' \in [M!Tables -> [rows : SUBSET M!Row, new : BOOLEAN] \cup {None}]
             /\ owed' \in [M!Tables -> SUBSET M!Row]
             /\ \A t \in M!Tables : table'[t] # None
  <2>1. \A t \in M!Tables :
          /\ table'[t] = IF t \in ts THEN [table[t] EXCEPT !.rows = @ \ rows] ELSE table[t]
          /\ owed'[t] = IF t \in ts THEN owed[t] \ (rows \ {"served"}) ELSE owed[t]
    BY <1>8 DEF M!Without
  <2>2. ASSUME NEW t \in M!Tables
        PROVE  /\ table'[t] \in [rows : SUBSET M!Row, new : BOOLEAN] /\ table'[t] # None
               /\ table'[t].new = table[t].new
               /\ table'[t].rows = IF t \in ts THEN table[t].rows \ rows ELSE table[t].rows
    <3>1. CASE t \notin ts
      BY <1>4, <2>1, <3>1, MigrationNumbers
    <3>2. CASE t \in ts
      <4>1. PICK r : r = table[t]
        OBVIOUS
      <4>2. r \in [rows : SUBSET M!Row, new : BOOLEAN]
        BY <1>4, <4>1
      <4>3. [r EXCEPT !.rows = @ \ rows] = [rows |-> r.rows \ rows, new |-> r.new]
        BY <4>2
      <4>4. table'[t] = [rows |-> r.rows \ rows, new |-> r.new]
        BY <2>1, <3>2, <4>1, <4>3
      <4>5. table'[t] \in [rows : SUBSET M!Row, new : BOOLEAN]
        BY <4>2, <4>4
      <4>6. table'[t].new = r.new /\ table'[t].rows = r.rows \ rows
        BY <4>4
      <4>7. QED
        BY <3>2, <4>1, <4>5, <4>6, MigrationNumbers
    <3>3. QED
      BY <3>1, <3>2
  <2>3. ASSUME NEW t \in M!Tables
        PROVE  /\ M!Rows(t) = table[t].rows
               /\ M!Rows(t)' = IF t \in ts THEN M!Rows(t) \ rows ELSE M!Rows(t)
    BY <1>4, <2>2 DEF M!Rows
  <2>4. owed["kp_forecast"] \subseteq {"early", "late", "served"}
    BY <1>2 DEF OpenTypes, M!Row, M!Tables
  <2>5. "kp_forecast" \in M!Tables /\ ("kp_forecast" \in ts => owed'["kp_forecast"] = {})
    BY <1>8, <2>1, <2>4 DEF M!Row, M!Tables
  <2>6. ASSUME NEW t \in M!Tables PROVE RebuildOf(t)'
    <3>1. RebuildOf(t) /\ CopyRows(t)' = CopyRows(t) /\ CreateAt(t) \in {3, 20, 25, 32, 36}
      BY <1>1, <1>2, Apart DEF RebuildOK, CopyRows
    <3>2. owed'[t] \subseteq M!Rows(t)' \cup CopyRows(t)'
      <4>1. CASE t \notin ts
        BY <2>1, <2>3, <3>1, <4>1 DEF RebuildOf
      <4>2. CASE "kp_forecast" \in ts /\ t \in ts
        <5>1. t = "kp_forecast"
          BY <1>8, <4>2
        <5>2. QED
          BY <2>5, <4>2, <5>1
      <4>3. CASE "kp_forecast" \notin ts /\ t \in ts
        <5>1. owed'[t] = owed[t] \ rows /\ M!Rows(t)' = M!Rows(t) \ rows
          BY <1>8, <2>1, <2>3, <4>3
        <5>2. QED
          BY <3>1, <5>1 DEF RebuildOf
      <4>4. QED
        BY <4>1, <4>2, <4>3
    <3>3. QED
      BY <1>1, <1>4, <3>1, <3>2 DEF RebuildOf
  <2>7. RebuildOK'
    BY <1>1, <2>6 DEF RebuildOK
  <2>8. ForecastOK'
    <3>1. CASE "kp_forecast" \in ts
      BY <2>5, <3>1 DEF ForecastOK
    <3>2. CASE "kp_forecast" \notin ts
      <4>1. /\ table'["kp_forecast"] = table["kp_forecast"] /\ owed'["kp_forecast"] = owed["kp_forecast"]
            /\ M!Rows("kp_forecast")' = M!Rows("kp_forecast")
        BY <2>1, <2>3, <2>5, <3>2
      <4>2. QED
        BY <1>1, <1>2, <4>1 DEF ForecastOK
    <3>3. QED
      BY <3>1, <3>2
  <2>9. table' \in [M!Tables -> [rows : SUBSET M!Row, new : BOOLEAN] \cup {None}]
        /\ owed' \in [M!Tables -> SUBSET M!Row]
    <3>1. table' = [t \in M!Tables |-> table'[t]] /\ owed' = [t \in M!Tables |-> owed'[t]]
      BY <1>8 DEF M!Without
    <3>2. \A t \in M!Tables : owed'[t] \in SUBSET M!Row
      BY <1>2, <2>1 DEF OpenTypes
    <3>3. QED
      BY <2>2, <3>1, <3>2
  <2>10. QED
    BY <2>2, <2>7, <2>8, <2>9
<1>9. CASE M!PurgeForecasts
  <2>1. M!Program[at].m = "purge" /\ M!Without(M!Row, {"kp_forecast"}) /\ UNCHANGED <<labelled, deploy>>
    BY <1>9 DEF M!PurgeForecasts, M!Here
  <2>2. at = 1 /\ "purge" \notin recorded
    BY <1>1, <1>3, <2>1, ProgramSteps DEF Is
  <2>3. "served" \notin owed["kp_forecast"] /\ {"kp_forecast"} \in SUBSET M!Tables
    BY <1>2, <2>2 DEF ForecastOK, M!Tables
  <2>4. RecordOK'
    BY <1>1, <1>2, <2>1, <2>2 DEF RecordOK
  <2>5. QED
    <3>1. /\ RebuildOK' /\ ForecastOK'
          /\ table' \in [M!Tables -> [rows : SUBSET M!Row, new : BOOLEAN] \cup {None}]
          /\ owed' \in [M!Tables -> SUBSET M!Row]
          /\ \A t \in M!Tables : table'[t] # None
      BY <1>8, <2>1, <2>3
    <3>2. OpenTypes'
      BY <1>1, <1>2, <2>1, <3>1 DEF OpenTypes
    <3>3. QED
      BY <1>6, <2>4, <3>1, <3>2 DEF OpenInv
<1>10. CASE M!FixEra
  <2>1. M!Program[at].m = "era" /\ labelled' = labelled \cup {"late"} /\ UNCHANGED <<table, deploy, owed>>
    BY <1>10 DEF M!FixEra, M!Here
  <2>2. at = 8
    BY <1>1, <2>1, ProgramSteps DEF Is
  <2>3. RecordOK'
    BY <1>1, <1>2, <2>1, <2>2 DEF RecordOK
  <2>4. labelled' \subseteq M!Row
    BY <1>2, <2>1 DEF OpenTypes, M!Row
  <2>5. QED
    BY <1>1, <1>2, <1>4, <1>6, <1>7, <2>1, <2>3, <2>4 DEF OpenInv, OpenTypes
<1>11. CASE M!VerifyDeployAccounts
  <2>1. M!Program[at].m = "deploy" /\ deploy' = "verified" /\ UNCHANGED <<table, labelled, owed>>
    BY <1>11 DEF M!VerifyDeployAccounts, M!Here
  <2>2. at = 10
    BY <1>1, <2>1, ProgramSteps DEF Is
  <2>3. RecordOK'
    BY <1>1, <1>2, <2>1, <2>2 DEF RecordOK
  <2>4. QED
    BY <1>1, <1>2, <1>4, <1>6, <1>7, <2>1, <2>3 DEF OpenInv, OpenTypes
<1>12. CASE M!DropUnlabelled
  <2>1. M!Program[at].m = "unlabelled" /\ M!Without({"early"}, {"solar_wind", "imf"})
        /\ UNCHANGED <<labelled, deploy>>
    BY <1>12 DEF M!DropUnlabelled, M!Here
  <2>2. at = 30
    BY <1>1, <2>1, ProgramSteps DEF Is
  <2>3. /\ {"solar_wind", "imf"} \in SUBSET M!Tables /\ {"early"} \in SUBSET M!Row
        /\ "kp_forecast" \notin {"solar_wind", "imf"} /\ "served" \notin {"early"}
    BY DEF M!Tables, M!Row
  <2>4. RecordOK'
    BY <1>1, <1>2, <2>1, <2>2 DEF RecordOK
  <2>5. QED
    <3>1. /\ RebuildOK' /\ ForecastOK'
          /\ table' \in [M!Tables -> [rows : SUBSET M!Row, new : BOOLEAN] \cup {None}]
          /\ owed' \in [M!Tables -> SUBSET M!Row]
          /\ \A t \in M!Tables : table'[t] # None
      BY <1>8, <2>1, <2>3
    <3>2. OpenTypes'
      BY <1>1, <1>2, <2>1, <3>1 DEF OpenTypes
    <3>3. QED
      BY <1>6, <2>4, <3>1, <3>2 DEF OpenInv
<1>13. QED
  BY <1>1, <1>9, <1>10, <1>11, <1>12

LEMMA CountFailsStep == ASSUME OpenInv, M!EraCountFails PROVE OpenInv'
<1>1. /\ UNCHANGED <<recorded, table, copy, labelled, old, new, deploy, owed, key, todo>>
      /\ uncounted' = TRUE /\ at' = at + 1 /\ at = 8
  <2>1. at \in 1..40 /\ M!Program[at].what = "work" /\ M!Program[at].m = "era"
    BY ProgramSteps DEF M!EraCountFails, M!At, M!Here
  <2>2. at = 8
    BY <2>1, WhatIsWhere, ProgramSteps DEF Is
  <2>3. QED
    BY <2>2 DEF M!EraCountFails, M!Goes, M!disk
<1>2. OpenTypes /\ RebuildOK /\ ForecastOK /\ RecordOK /\ KeyOK
  BY DEF OpenInv
<1>3. RecordOK'
  BY <1>1, <1>2 DEF RecordOK
<1>4. \A k : OneKey(k)' <=> OneKey(k)
  BY <1>1 DEF OneKey
<1>5. KeyOK'
  <2>1. at' \notin {13, 14, 17, 42} /\ todo' = {}
    BY <1>1, <1>2 DEF KeyOK
  <2>2. (old \cap Users = {} => \E k \in Keys \cup {None} : OneKey(k))'
    BY <1>1, <1>2, <1>4 DEF KeyOK
  <2>3. (old \cap Users # {} => \A u \in Users : new[u] # None => u \in old)'
    BY <1>1, <1>2 DEF KeyOK
  <2>4. QED
    BY <2>1, <2>2, <2>3, Zenon DEF KeyOK
<1>6. \A t \in M!Tables : at \notin CreateAt(t)..(CreateAt(t) + 3)
  BY <1>1 DEF M!Tables, CreateAt
<1>7. /\ RebuildOK' /\ ForecastOK'
      /\ at' > 0 => \A t \in M!Tables : table'[t] = None => at' = CreateAt(t) + 3
  BY <1>1, <1>6, RebuildsStand
<1>8. OpenTypes'
  BY <1>1, <1>2, <1>7 DEF OpenTypes
<1>9. QED
  BY <1>3, <1>5, <1>7, <1>8 DEF OpenInv

\* The statements that move the values of a column touch no table, no copy and nothing
\* that is recorded; what they must keep is RecordOK and KeyOK.
LEMMA ColumnsOnly ==
  ASSUME OpenInv, UNCHANGED <<recorded, table, copy, labelled, deploy, owed, uncounted>>,
         at \in {12, 13, 14, 16, 17, 18, 41, 42}, at' = 0 \/ at' = at + 1 \/ (at' = at /\ at \in {13, 17, 42}),
         at' \in 0..42, key' \in Keys \cup {None}, todo' \subseteq Users \cup Rules,
         old' \subseteq old, new' \in [Users \cup Rules -> Keys \cup {"scaled", None}],
         KeyOK', at' > 14 => old' \cap Users = {}, at' > 18 => old' \cap Rules = {}
  PROVE  OpenInv'
<1>1. OpenTypes /\ RebuildOK /\ ForecastOK /\ RecordOK
  BY DEF OpenInv
<1>2. \A t \in M!Tables : at \notin CreateAt(t)..(CreateAt(t) + 3)
  BY DEF M!Tables, CreateAt
<1>3. /\ RebuildOK' /\ ForecastOK'
      /\ at' > 0 => \A t \in M!Tables : table'[t] = None => at' = CreateAt(t) + 3
  BY <1>2, RebuildsStand
<1>4. RecordOK'
  <2>1. "totp" \in recorded => old' \cap Users = {}
    BY <1>1 DEF RecordOK
  <2>2. "threshold" \in recorded => old' \cap Rules = {}
    BY <1>1 DEF RecordOK
  <2>3. QED
    BY <1>1, <2>1, <2>2 DEF RecordOK
<1>5. OpenTypes'
  BY <1>1, <1>3 DEF OpenTypes
<1>6. QED
  BY <1>3, <1>4, <1>5 DEF OpenInv

\* Secrets are read only when there is a key to seal them with.
LEMMA ReadStep == ASSUME OpenInv, M!ReadValues PROVE OpenInv'
<1>1. at \in {12, 16} /\ UNCHANGED <<recorded, table, copy, labelled, old, new, deploy, owed, uncounted>>
  <2>1. at \in 1..40 /\ M!Program[at].what = "read"
    BY ProgramSteps DEF M!ReadValues, M!At
  <2>2. at \in {12, 16}
    BY <2>1, WhatIsWhere
  <2>3. QED
    BY <2>2 DEF M!ReadValues, M!disk, M!history
<1>2. OpenTypes /\ RecordOK /\ KeyOK /\ todo = {}
  BY <1>1 DEF OpenInv, KeyOK
<1>3. CASE at' = 0
  <2>1. /\ UNCHANGED <<recorded, table, copy, labelled, old, new, deploy, owed, uncounted>>
        /\ at' = 0 /\ key' = None /\ todo' = {}
    BY <1>1, <1>3, <1>2 DEF M!ReadValues, M!Quits, OpenTypes
  <2>2. RecordOK' /\ KeyOK'
    BY <2>1, RecordsStand
  <2>3. RebuildOK' /\ ForecastOK'
    BY <2>1, RebuildsStand
  <2>4. OpenTypes'
    BY <2>1, <1>2 DEF OpenTypes
  <2>5. QED
    BY <2>2, <2>3, <2>4 DEF OpenInv
<1>4. CASE at' # 0
  <2>1. at' = at + 1 /\ todo' = old \cap M!Kind /\ key' = key
        /\ ~(M!Program[at].m = "totp" /\ old \cap M!Kind # {} /\ key = None)
    BY <1>4 DEF M!ReadValues, M!Quits, M!Here
  <2>2. /\ at = 12 => M!Kind = Users /\ M!Program[at].m = "totp"
        /\ at = 16 => M!Kind = Rules
    BY ProgramSteps DEF M!Kind, M!Here, Is
  <2>3. \A k : OneKey(k)' <=> OneKey(k)
    BY <1>1 DEF OneKey
  <2>4. KeyOK'
    <3>1. (old \cap Users = {} => \E k \in Keys \cup {None} : OneKey(k))'
      BY <1>1, <1>2, <2>3 DEF KeyOK
    <3>2. (old \cap Users # {} => \A u \in Users : new[u] # None => u \in old)'
      BY <1>1, <1>2 DEF KeyOK
    <3>3. at' = 13 => todo' = old \cap Users /\ (old \cap Users # {} => key # None)
      BY <1>1, <2>1, <2>2
    <3>4. at' = 17 => todo' = old \cap Rules
      BY <1>1, <2>1, <2>2
    <3>5. at' \in {13, 17} /\ at' # 42
      BY <1>1, <2>1
    <3>6. (at \in {13, 14} /\ old \cap Users # {} =>
             key # None /\ \A u \in old \cap Users : u \notin todo => new[u] = key)'
      BY <1>1, <2>1, <3>3, <3>5
    <3>7. /\ at' = 13 => todo' \subseteq old' \cap Users
          /\ at' = 17 => todo' \subseteq old' \cap Rules
      BY <1>1, <3>3, <3>4
    <3>8. QED
      BY <3>1, <3>2, <3>5, <3>6, <3>7, Zenon DEF KeyOK
  <2>5. old' = old /\ new' = new /\ todo' \subseteq Users \cup Rules
    BY <1>1, <1>2, <2>1 DEF OpenTypes
  <2>6. QED
    BY <1>1, <1>2, <2>1, <2>4, <2>5, ColumnsOnly DEF OpenTypes, RecordOK
<1>5. QED
  BY <1>3, <1>4

LEMMA MoveStep == ASSUME OpenInv, M!MoveValue PROVE OpenInv'
<1>1. /\ at \in {13, 17} /\ UNCHANGED <<recorded, table, copy, labelled, old, deploy, at, key, owed, uncounted>>
      /\ \E i \in todo : /\ new' = [new EXCEPT ![i] = IF i \in Users THEN key ELSE "scaled"]
                         /\ todo' = todo \ {i}
  <2>1. at \in 1..40 /\ M!Program[at].what = "move"
    BY ProgramSteps DEF M!MoveValue, M!At
  <2>2. at \in {13, 17}
    BY <2>1, WhatIsWhere
  <2>3. QED
    BY <2>2 DEF M!MoveValue, M!history
<1>2. PICK i \in todo : /\ new' = [new EXCEPT ![i] = IF i \in Users THEN key ELSE "scaled"]
                        /\ todo' = todo \ {i}
  BY <1>1
<1>3. OpenTypes /\ RecordOK /\ KeyOK
  BY DEF OpenInv
<1>4. /\ new' \in [Users \cup Rules -> Keys \cup {"scaled", None}] /\ todo' \subseteq Users \cup Rules
      /\ \A u \in Users \ {i} : new'[u] = new[u]
      /\ i \in Users => new'[i] = key
  BY <1>2, <1>3 DEF OpenTypes
<1>5. ASSUME at = 13 PROVE KeyOK'
  <2>1. i \in old \cap Users /\ old \cap Users # {} /\ old' = old
    BY <1>1, <1>2, <1>3, <1>5 DEF KeyOK
  <2>2. \A u \in Users : new'[u] # None => u \in old
    BY <1>3, <1>4, <2>1 DEF KeyOK
  <2>3. key' # None /\ \A u \in old \cap Users : u \notin todo' => new'[u] = key'
    BY <1>1, <1>2, <1>3, <1>4, <1>5, <2>1 DEF KeyOK
  <2>4. todo' \subseteq old' \cap Users
    BY <1>1, <1>2, <1>3, <1>5 DEF KeyOK
  <2>5. at' \in {13, 17} /\ at' # 17 /\ at' # 42
    BY <1>1, <1>5
  <2>6. QED
    BY <2>1, <2>2, <2>3, <2>4, <2>5, Zenon DEF KeyOK
<1>6. ASSUME at = 17 PROVE KeyOK'
  <2>1. i \in Rules /\ i \notin Users /\ todo' \subseteq old' \cap Rules
    BY <1>1, <1>2, <1>3, <1>6, MigrationNumbers DEF KeyOK
  <2>2. \A u \in Users : new'[u] = new[u]
    BY <1>4, <2>1
  <2>3. \A k : OneKey(k)' <=> OneKey(k)
    BY <2>2 DEF OneKey
  <2>4. (old \cap Users = {} => \E k \in Keys \cup {None} : OneKey(k))'
    BY <1>1, <1>3, <2>3 DEF KeyOK
  <2>5. (old \cap Users # {} => \A u \in Users : new[u] # None => u \in old)'
    BY <1>1, <1>3, <2>2 DEF KeyOK
  <2>6. at' \in {13, 17} /\ at' \notin {13, 14} /\ at' # 13 /\ at' # 42
    BY <1>1, <1>6
  <2>7. QED
    BY <2>1, <2>4, <2>5, <2>6, Zenon DEF KeyOK
<1>7. KeyOK'
  <2>1. at \in {13, 17}
    BY <1>1
  <2>2. QED
    BY <1>5, <1>6, <2>1, Zenon
<1>8. QED
  BY <1>1, <1>3, <1>4, <1>7, ColumnsOnly DEF OpenTypes, RecordOK

LEMMA MovesEndStep == ASSUME OpenInv, M!MovesEnd PROVE OpenInv'
<1>1. /\ at \in {13, 17} /\ todo = {} /\ at' = at + 1
      /\ UNCHANGED <<recorded, table, copy, labelled, old, new, deploy, owed, uncounted, key, todo>>
  <2>1. at \in 1..40 /\ M!Program[at].what = "move"
    BY ProgramSteps DEF M!MovesEnd, M!At
  <2>2. at \in {13, 17}
    BY <2>1, WhatIsWhere
  <2>3. QED
    BY <2>2 DEF M!MovesEnd, M!Goes, M!disk, M!history
<1>2. OpenTypes /\ RecordOK /\ KeyOK
  BY DEF OpenInv
<1>3. \A k : OneKey(k)' <=> OneKey(k)
  BY <1>1 DEF OneKey
<1>4. KeyOK'
  <2>1. (old \cap Users = {} => \E k \in Keys \cup {None} : OneKey(k))'
    BY <1>1, <1>2, <1>3 DEF KeyOK
  <2>2. (old \cap Users # {} => \A u \in Users : new[u] # None => u \in old)'
    BY <1>1, <1>2 DEF KeyOK
  <2>3. todo' = {} /\ at' \in {14, 18} /\ at' # 42 /\ at' # 13 /\ at' # 17
    BY <1>1
  <2>4. (at \in {13, 14} /\ old \cap Users # {} =>
           key # None /\ \A u \in old \cap Users : u \notin todo => new[u] = key)'
    BY <1>1, <1>2 DEF KeyOK
  <2>5. QED
    BY <2>1, <2>2, <2>3, <2>4, Zenon DEF KeyOK
<1>5. QED
  BY <1>1, <1>2, <1>4, ColumnsOnly DEF OpenTypes, RecordOK

\* The clear column goes when all that was in it has been sealed under one key.
LEMMA DropColumnStep == ASSUME OpenInv, M!DropColumn PROVE OpenInv'
<1>1. /\ at \in {14, 18} /\ at' = at + 1 /\ old' = old \ M!Kind
      /\ UNCHANGED <<recorded, table, copy, labelled, new, deploy, owed, uncounted, key, todo>>
  <2>1. at \in 1..40 /\ M!Program[at].what = "dropcolumn"
    BY ProgramSteps DEF M!DropColumn, M!At
  <2>2. at \in {14, 18}
    BY <2>1, WhatIsWhere
  <2>3. QED
    BY <2>2 DEF M!DropColumn, M!Goes, M!history
<1>2. /\ at = 14 => M!Kind = Users
      /\ at = 18 => M!Kind = Rules
  BY ProgramSteps DEF M!Kind, M!Here, Is
<1>3. OpenTypes /\ RecordOK /\ KeyOK /\ todo = {}
  BY <1>1 DEF OpenInv, KeyOK
<1>4. \A k : OneKey(k)' <=> OneKey(k)
  BY <1>1 DEF OneKey
<1>5. at = 14 => \E k \in Keys \cup {None} : OneKey(k)
  <2>1. CASE old \cap Users = {}
    BY <1>3, <2>1 DEF KeyOK
  <2>2. CASE old \cap Users # {} /\ at = 14
    <3>1. OneKey(key)
      BY <1>3, <2>2 DEF KeyOK, OneKey
    <3>2. QED
      BY <1>3, <3>1 DEF OpenTypes
  <2>3. QED
    BY <2>1, <2>2
<1>6. /\ at = 14 => old' \cap Users = {}
      /\ at = 18 => old' \cap Users = old \cap Users /\ old' \cap Rules = {} /\ old \cap Users = {}
  BY <1>1, <1>2, <1>3, MigrationNumbers DEF RecordOK
<1>7. KeyOK'
  <2>1. old' \cap Users = {} /\ \E k \in Keys \cup {None} : OneKey(k)'
    BY <1>1, <1>3, <1>4, <1>5, <1>6 DEF KeyOK
  <2>2. todo' = {} /\ at' \notin {13, 14, 17, 42}
    BY <1>1, <1>3
  <2>3. QED
    BY <2>1, <2>2, Zenon DEF KeyOK
<1>8. /\ at' > 14 => old' \cap Users = {}
      /\ at' > 18 => old' \cap Rules = {}
  BY <1>1, <1>6
<1>9. QED
  BY <1>1, <1>3, <1>7, <1>8, ColumnsOnly DEF OpenTypes

\* One account's secret opens with the key, so all do.
LEMMA CheckStep == ASSUME OpenInv, M!CheckKey PROVE OpenInv'
<1>1. /\ at = 41 /\ UNCHANGED <<recorded, table, copy, labelled, old, new, deploy, owed, uncounted>>
      /\ \/ at' = 0 /\ key' = None /\ todo' = {}
         \/ /\ at' = at + 1 /\ key' = key /\ todo' = todo
            /\ M!Enrolled = {} \/ \E u \in M!Enrolled : new[u] = key
  BY Begins DEF M!CheckKey, M!Quits, M!Goes, M!disk, M!history
<1>2. OpenTypes /\ RecordOK /\ KeyOK /\ old \cap Users = {}
  BY <1>1 DEF OpenInv, RecordOK
<1>3. PICK k \in Keys \cup {None} : OneKey(k)
  BY <1>2 DEF KeyOK
<1>4. \A j : OneKey(j)' <=> OneKey(j)
  BY <1>1 DEF OneKey
<1>5. at' # 0 => OneKey(key)
  <2>1. CASE M!Enrolled = {}
    BY <2>1 DEF M!Enrolled, OneKey
  <2>2. CASE \E u \in M!Enrolled : new[u] = key
    <3>1. k = key
      BY <1>3, <2>2 DEF M!Enrolled, OneKey
    <3>2. QED
      BY <1>3, <3>1
  <2>3. QED
    BY <1>1, <2>1, <2>2
<1>6. OneKey(key)' <=> (\A u \in Users : new'[u] \in {key', None})
  BY DEF OneKey
<1>7. KeyOK'
  <2>1. old' \cap Users = {} /\ \E j \in Keys \cup {None} : OneKey(j)'
    BY <1>1, <1>2, <1>3, <1>4
  <2>2. todo' = {} /\ at' \notin {13, 14, 17}
    BY <1>1, <1>2 DEF KeyOK
  <2>3. at' = 42 => OneKey(key)'
    BY <1>1, <1>5, <1>6 DEF OneKey
  <2>4. QED
    BY <2>1, <2>2, <2>3, Zenon DEF KeyOK
<1>8. QED
  BY <1>1, <1>2, <1>7, ColumnsOnly DEF OpenTypes, RecordOK

-----------------------------------------------------------------------------
(* While it serves                                                           *)

LEMMA IngestStep == ASSUME OpenInv, M!Ingest PROVE OpenInv'
<1>1. /\ at = 42 /\ UNCHANGED <<recorded, copy, labelled, old, new, deploy, at, key, todo, uncounted>>
      /\ table' = [t \in M!Tables |-> [table[t] EXCEPT !.rows = @ \cup {"served"}]]
      /\ owed' = [t \in M!Tables |-> owed[t] \cup {"served"}]
  BY Begins DEF M!Ingest
<1>2. OpenTypes /\ RebuildOK /\ ForecastOK /\ RecordOK /\ KeyOK
  BY DEF OpenInv
<1>3. \A t \in M!Tables : CreateAt(t) + 3 < 42
  BY Apart
<1>4. ASSUME NEW t \in M!Tables
      PROVE  /\ table[t] # None /\ table'[t] \in [rows : SUBSET M!Row, new : BOOLEAN] /\ table'[t] # None
             /\ table'[t].new = table[t].new /\ M!Rows(t)' = M!Rows(t) \cup {"served"}
  <2>1. PICK r : r = table[t]
    OBVIOUS
  <2>2. table[t] # None /\ r \in [rows : SUBSET M!Row, new : BOOLEAN]
    BY <1>1, <1>2, <1>3, <2>1 DEF OpenTypes
  <2>3. [r EXCEPT !.rows = @ \cup {"served"}] = [rows |-> r.rows \cup {"served"}, new |-> r.new]
    BY <2>2
  <2>4. table'[t] = [rows |-> r.rows \cup {"served"}, new |-> r.new]
    BY <1>1, <2>1, <2>3
  <2>5. table'[t] \in [rows : SUBSET M!Row, new : BOOLEAN]
    BY <2>2, <2>4 DEF M!Row
  <2>6. table'[t] # None
    BY <2>5, MigrationNumbers
  <2>7. table'[t].new = r.new /\ table'[t].rows = r.rows \cup {"served"}
    BY <2>4
  <2>8. QED
    BY <2>1, <2>2, <2>5, <2>6, <2>7 DEF M!Rows
<1>5. owed' \in [M!Tables -> SUBSET M!Row]
  BY <1>1, <1>2 DEF OpenTypes, M!Row
<1>6. table' \in [M!Tables -> [rows : SUBSET M!Row, new : BOOLEAN] \cup {None}]
  <2>1. table' = [t \in M!Tables |-> table'[t]]
    BY <1>1
  <2>2. QED
    BY <1>4, <2>1
<1>7. OpenTypes'
  BY <1>1, <1>2, <1>4, <1>5, <1>6 DEF OpenTypes
<1>8. ASSUME NEW t \in M!Tables PROVE RebuildOf(t)'
  <2>1. RebuildOf(t) /\ CopyRows(t)' = CopyRows(t) /\ owed'[t] = owed[t] \cup {"served"}
    BY <1>1, <1>2 DEF RebuildOK, CopyRows
  <2>2. owed'[t] \subseteq M!Rows(t)' \cup CopyRows(t)'
    BY <1>4, <2>1 DEF RebuildOf
  <2>3. QED
    BY <1>1, <1>3, <2>1, <2>2, Apart DEF RebuildOf
<1>9. RebuildOK'
  BY <1>1, <1>8 DEF RebuildOK
<1>10. ForecastOK'
  <2>1. "kp_forecast" \in M!Tables /\ "purge" \in recorded
    BY <1>1, <1>2 DEF M!Tables, RecordOK
  <2>2. owed'["kp_forecast"] = owed["kp_forecast"] \cup {"served"}
    BY <1>1, <2>1
  <2>3. QED
    BY <1>1, <1>2, <1>4, <2>1, <2>2 DEF ForecastOK
<1>11. RecordOK'
  BY <1>1, <1>2 DEF RecordOK
<1>12. \A k : OneKey(k)' <=> OneKey(k)
  BY <1>1 DEF OneKey
<1>13. KeyOK'
  <2>1. old' \cap Users = {} /\ \E k \in Keys \cup {None} : OneKey(k)'
    BY <1>1, <1>2, <1>12 DEF KeyOK, RecordOK
  <2>2. todo' = {} /\ at' \notin {13, 14, 17}
    BY <1>1, <1>2 DEF KeyOK
  <2>3. OneKey(key)'
    BY <1>1, <1>2 DEF KeyOK, OneKey
  <2>4. QED
    BY <2>1, <2>2, <2>3, Zenon DEF KeyOK
<1>14. QED
  BY <1>7, <1>9, <1>10, <1>11, <1>13 DEF OpenInv

LEMMA WithdrawStep == ASSUME OpenInv, M!Withdraw PROVE OpenInv'
<1>1. /\ at = 42 /\ UNCHANGED <<recorded, table, copy, labelled, old, new, at, key, todo, owed, uncounted>>
      /\ deploy' = "withdrawn"
  BY Begins DEF M!Withdraw, M!history
<1>2. OpenTypes /\ RebuildOK /\ ForecastOK /\ RecordOK /\ KeyOK
  BY DEF OpenInv
<1>3. /\ RebuildOK' /\ ForecastOK'
      /\ at' > 0 => \A t \in M!Tables : table'[t] = None => at' = CreateAt(t) + 3
  BY <1>1, RebuildsStand
<1>4. RecordOK'
  BY <1>1, <1>2 DEF RecordOK
<1>5. KeyOK'
  BY <1>1, <1>2 DEF KeyOK, OneKey
<1>6. OpenTypes'
  BY <1>1, <1>2, <1>3 DEF OpenTypes
<1>7. QED
  BY <1>3, <1>4, <1>5, <1>6 DEF OpenInv

LEMMA SecondFactorStep == ASSUME OpenInv, NEW u \in Users, M!SetSecondFactor(u) PROVE OpenInv'
<1>1. /\ at = 42 /\ UNCHANGED <<recorded, table, copy, labelled, old, deploy, at, key, todo, owed, uncounted>>
      /\ new' \in {[new EXCEPT ![u] = key], [new EXCEPT ![u] = None]}
  BY Begins DEF M!SetSecondFactor, M!history
<1>2. OpenTypes /\ RecordOK /\ KeyOK
  BY DEF OpenInv
<1>3. new' \in [Users \cup Rules -> Keys \cup {"scaled", None}]
      /\ \A v \in Users : new'[v] \in {new[v], key, None}
  BY <1>1, <1>2 DEF OpenTypes
<1>4. OneKey(key)'
  BY <1>1, <1>2, <1>3 DEF KeyOK, OneKey
<1>5. KeyOK'
  <2>1. old' \cap Users = {} /\ \E k \in Keys \cup {None} : OneKey(k)'
    <3>1. OneKey(key)' => \E k \in Keys \cup {None} : OneKey(k)'
      BY <1>1, <1>2 DEF OpenTypes, OneKey
    <3>2. QED
      BY <1>1, <1>2, <1>4, <3>1 DEF RecordOK
  <2>2. todo' = {} /\ at' \notin {13, 14, 17}
    BY <1>1, <1>2 DEF KeyOK
  <2>3. QED
    BY <1>4, <2>1, <2>2, Zenon DEF KeyOK
<1>6. QED
  BY <1>1, <1>2, <1>3, <1>5, ColumnsOnly DEF OpenTypes, RecordOK

-----------------------------------------------------------------------------
(* What follows of every behaviour                                           *)

LEMMA OpenNext == ASSUME OpenInv, [M!Next]_(M!vars) PROVE OpenInv'
<1>1. CASE UNCHANGED M!vars
  BY <1>1 DEF OpenInv, OpenTypes, RebuildOK, RebuildOf, ForecastOK, RecordOK, KeyOK, OneKey, M!Rows,
        CopyRows, M!vars, M!disk, M!history
<1>2. CASE M!Next
  BY <1>2, OpenStep, SkipStep, CreateStep, FillStep, DropStep, RenameStep, WorkStep,
     CountFailsStep, ReadStep, MoveStep, MovesEndStep, DropColumnStep, RecordStep, CheckStep,
     FailsStep, EndsStep, IngestStep, WithdrawStep, SecondFactorStep, Zenon DEF M!Next
<1>3. QED
  BY <1>1, <1>2

LEMMA OpenHolds == M!Spec => []OpenInv
<1>1. M!Init => OpenInv
  BY OpenInit
<1>2. OpenInv /\ [M!Next]_(M!vars) => OpenInv'
  BY OpenNext
<1>3. QED
  BY <1>1, <1>2, PTL DEF M!Spec

\* Whatever a process that opens the file is interrupted at, the file has the tables,
\* copies, columns and records Store::open knows, and only between a drop and the rename
\* after it is a table missing (Store::open).
THEOREM MigrationTypes == M!Spec => []M!TypeOK
<1>1. OpenInv => M!TypeOK
  BY TypesAreTyped DEF OpenInv
<1>2. QED
  BY <1>1, OpenHolds, PTL

\* No crash and no failing statement, however many, loses a stored row, and what serves
\* has the rows in their tables, but for the forecasts (Store::open, rekey_one_series).
THEOREM RowsDoSurvive == M!Spec => []RowsSurvive
<1>1. OpenInv => M!RowsSurvive
  <2> SUFFICES ASSUME OpenInv, NEW t \in M!Tables
               PROVE  /\ owed[t] \subseteq M!Rows(t) \cup (IF copy[t] = None THEN {} ELSE copy[t])
                      /\ at = M!Serving /\ t # "kp_forecast" => owed[t] \subseteq M!Rows(t)
    BY DEF M!RowsSurvive
  <2>1. RebuildOf(t) /\ CreateAt(t) + 3 < 42
    BY Apart DEF OpenInv, RebuildOK
  <2>2. QED
    BY <2>1, Begins DEF RebuildOf, CopyRows
<1>2. M!Spec => []M!RowsSurvive
  BY <1>1, OpenHolds, PTL
<1>3. QED
  BY <1>2, PTL DEF RowsSurvive

\* What serves is migrated, every second factor under the key it was started with: that
\* one secret opens is enough to know it of all (Store::open, migrate_totp_secrets).
THEOREM ServedIsMigrated == M!Spec => []MigratedWhileServing
<1>1. OpenInv => M!MigratedWhileServing
  <2> SUFFICES ASSUME OpenInv, at = M!Serving
               PROVE  /\ old = {} /\ \A u \in Users : new[u] \in {key, None}
                      /\ deploy # "unverified"
                      /\ uncounted \/ ("late" \in M!Rows("kp_forecast") => "late" \in labelled)
    BY DEF M!MigratedWhileServing
  <2>1. at = 42 /\ OpenTypes /\ RecordOK /\ KeyOK
    BY Begins DEF OpenInv
  <2>2. old = {}
    BY <2>1 DEF OpenTypes, RecordOK
  <2>3. QED
    BY <2>1, <2>2 DEF RecordOK, KeyOK, OneKey
<1>2. M!Spec => []M!MigratedWhileServing
  BY <1>1, OpenHolds, PTL
<1>3. QED
  BY <1>2, PTL DEF MigratedWhileServing

\* The deploy accounts are marked once: what is decided about one later stands, at every
\* later start too (Store::open, the one-shot "deploy").
THEOREM WithdrawalDoesStand == M!Spec => WithdrawalStands
<1>1. ASSUME OpenInv, [M!Next]_(M!vars)
      PROVE  [deploy = "withdrawn" => deploy' = "withdrawn"]_(M!vars)
  <2> SUFFICES ASSUME deploy = "withdrawn", M!Next PROVE deploy' = "withdrawn"
    BY <1>1
  <2>1. RecordOK /\ "deploy" \in recorded
    BY <1>1 DEF OpenInv, RecordOK
  <2>2. CASE M!Work
    <3>1. at \in 1..40 /\ M!Program[at].what = "work"
      BY <2>2, ProgramSteps DEF M!Work, M!At
    <3>2. at \in {1, 8, 10, 30}
      BY <3>1, WhatIsWhere
    <3>3. M!Program[at].m \notin recorded
      BY <2>2, <3>2, Begins, ProgramSteps DEF M!Work, M!Due, M!Here, M!Pending, Is
    <3>4. ~M!VerifyDeployAccounts
      BY <2>1, <3>3 DEF M!VerifyDeployAccounts, M!Here
    <3>5. QED
      BY <2>2, <3>4 DEF M!Work, M!PurgeForecasts, M!FixEra, M!DropUnlabelled
  <2>3. CASE \/ M!Open \/ M!Skip \/ M!CreateCopy \/ M!FillCopy \/ M!DropTable \/ M!RenameCopy
             \/ M!EraCountFails \/ M!ReadValues \/ M!MoveValue
    BY <2>3 DEF M!Open, M!Skip, M!CreateCopy, M!FillCopy, M!DropTable, M!RenameCopy, M!EraCountFails,
          M!ReadValues, M!MoveValue, M!disk
  <2>4. CASE \/ M!MovesEnd \/ M!DropColumn \/ M!Record \/ M!CheckKey \/ M!Fails \/ M!Ends
             \/ M!Ingest \/ M!Withdraw \/ \E u \in Users : M!SetSecondFactor(u)
    BY <2>4 DEF M!MovesEnd, M!DropColumn, M!Record, M!CheckKey, M!Fails, M!Ends, M!Ingest,
          M!Withdraw, M!SetSecondFactor, M!disk
  <2>5. QED
    BY <2>2, <2>3, <2>4 DEF M!Next
<1>2. M!Spec => M!WithdrawalStands
  BY <1>1, OpenHolds, PTL DEF M!Spec, M!WithdrawalStands
<1>3. QED
  BY <1>2, PTL DEF WithdrawalStands

-----------------------------------------------------------------------------
\* Each behaviour of the run that takes the two together is one of either.
THEOREM DatabaseIsBoth == MCSpec => Spec /\ M!Spec
<1>1. MCInit => Init /\ M!Init
  BY DEF MCInit
<1>2. [MCNext]_allVars => [Next]_vars /\ [M!Next]_(M!vars)
  <2>1. UNCHANGED allVars => UNCHANGED vars /\ UNCHANGED M!vars
    BY DEF allVars, writing, opening, vars, M!vars, M!disk, M!history
  <2>2. MCNext => [Next]_vars /\ [M!Next]_(M!vars)
    BY DEF MCNext, writing, opening, vars, M!vars, M!disk, M!history
  <2>3. QED
    BY <2>1, <2>2
<1>3. QED
  BY <1>1, <1>2, PTL DEF MCSpec, Spec, M!Spec
=============================================================================
