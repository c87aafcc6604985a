----------------------------- MODULE Migrations -----------------------------
(***************************************************************************)
(* What Store::open does to a database file before anything is served from  *)
(* it (db.rs): it creates what is missing and carries out, one after the    *)
(* other, the one-shot migrations the file has not had yet.                 *)
(*                                                                         *)
(* A statement commits by itself, the statements of a batch one by one, so  *)
(* the process can end between any two of them and leave the file as it is. *)
(* The next one begins again at the top.                                    *)
(***************************************************************************)
EXTENDS Naturals, Sequences, FiniteSets, MigrationProgram

CONSTANTS
  Users,    \* accounts with a second factor
  Rules,    \* custom rules
  Keys,     \* values of TOTP_ENCRYPTION_KEY
  None,
  Faults    \* "crash", "dberror"

MigrationsAssumption ==
  /\ Users \cap Rules = {}
  /\ None \notin Keys
  /\ \A rows \in SUBSET Row, isNew \in BOOLEAN :
       None # rows /\ None # [rows |-> rows, new |-> isNew]
  /\ Faults \subseteq {"crash", "dberror"}

VARIABLES
  recorded,  \* schema_migrations
  table,     \* the tables that are rebuilt: None, or their rows and whether the key is the new one
  copy,      \* what their copies hold, None if there is no copy
  labelled,  \* forecasts that carry the lead and the model they were issued with
  old,       \* users and rules with a value in the column that goes
  new,       \* what each has in the column that comes
  deploy,    \* the deploy accounts: what became of their verification
  at,        \* next step of Program; 0 when no process runs
  key,       \* this process's TOTP_ENCRYPTION_KEY
  todo,      \* the rows whose values are being moved
  owed,      \* history: rows stored and never deleted on purpose
  uncounted  \* history: the count of the forecasts to relabel has failed

disk == <<recorded, table, copy, labelled, old, new, deploy>>
history == <<owed, uncounted>>
vars == <<disk, at, key, todo, history>>

Items == Users \cup Rules

\* Mutant of Pending: the deploy accounts are marked at every start.
PendingAlways(m) ==
  CASE m = "forecast" -> ~table["kp_forecast"].new
    [] m = "deploy"   -> TRUE
    [] OTHER          -> m \notin recorded

\* The forecasts' rekey is detected from the schema, everything else from the record.
Pending(m) == IF m = "forecast" THEN ~table["kp_forecast"].new ELSE m \notin recorded

-----------------------------------------------------------------------------
(* The file as an earlier version left it: with some of the migrations, in    *)
(* the order they were written in, or none and nothing in it                  *)

Earlier(k) == {Migration[i] : i \in 1..k}

OldTable(t, done) ==
  CASE t = "kp_forecast"   -> [rows |-> {"early", "late"}, new |-> "forecast" \in done]
    [] t = "usage_records" -> [rows |-> {"early", "late"}, new |-> "usage" \in done]
    [] t = "xray"          -> [rows |-> {"early", "late"}, new |-> "xray" \in done]
    [] OTHER -> [rows |-> IF "unlabelled" \in done THEN {"late"} ELSE {"early", "late"},
                 new |-> "series" \in done]

Moved(done) == {u \in Users : "totp" \in done} \cup {r \in Rules : "threshold" \in done}

Init ==
  /\ \/ /\ recorded = {} /\ table = [t \in Tables |-> None]
        /\ old = {} /\ new = [i \in Items |-> None] /\ labelled = {} /\ deploy = "verified"
     \/ \E k \in 0..Len(Migration) : \E enrolled \in SUBSET Users, sealer \in Keys :
          LET there == enrolled \cup Rules
          IN /\ recorded = Earlier(k)
             /\ table = [t \in Tables |-> OldTable(t, recorded)]
             /\ old = there \ Moved(recorded)
             /\ new = [i \in Items |-> IF i \notin there \cap Moved(recorded) THEN None
                                       ELSE IF i \in Users THEN sealer ELSE "scaled"]
             /\ labelled = IF "era" \in recorded THEN {"late"} ELSE {}
             /\ deploy = IF "deploy" \in recorded THEN "verified" ELSE "unverified"
  /\ copy = [t \in Tables |-> None]
  /\ at = 0 /\ key = None /\ todo = {}
  /\ owed = [t \in Tables |-> IF table[t] = None THEN {} ELSE table[t].rows]
  /\ uncounted = FALSE

Rows(t) == IF table[t] = None THEN {} ELSE table[t].rows

TypeOK ==
  /\ recorded \subseteq {Migration[i] : i \in DOMAIN Migration}
  /\ table \in [Tables -> [rows : SUBSET Row, new : BOOLEAN] \cup {None}]
  /\ copy \in [Tables -> (SUBSET Row) \cup {None}]
  /\ labelled \subseteq Row
  /\ old \subseteq Items /\ new \in [Items -> Keys \cup {"scaled", None}]
  /\ deploy \in {"unverified", "verified", "withdrawn"}
  /\ at \in 0..Serving /\ key \in Keys \cup {None}
  /\ todo \subseteq Items /\ (todo # {} => Program[at].what = "move")
  /\ owed \in [Tables -> SUBSET Row] /\ uncounted \in BOOLEAN
  /\ at > 0 => \A t \in Tables : table[t] = None =>
                 at <= Len(Program) /\ Program[at].what = "rename" /\ Program[at].t = t

-----------------------------------------------------------------------------
(* Steps                                                                     *)

Quits == at' = 0 /\ key' = None /\ todo' = {}
Goes  == at' = at + 1 /\ UNCHANGED <<key, todo>>

At(what) == at \in 1..Len(Program) /\ Program[at].what = what
Here     == Program[at]

\* A process begins: SCHEMA creates the tables there are none of, in their new shape and
\* empty, and the columns are added.
Open ==
  /\ at = 0
  /\ \E k \in Keys \cup {None} : key' = k
  /\ table' = [t \in Tables |-> IF table[t] = None THEN [rows |-> {}, new |-> TRUE] ELSE table[t]]
  /\ at' = 1
  /\ UNCHANGED <<recorded, copy, labelled, old, new, deploy, todo, history>>

Due == First(at) => Pending(Here.m)

Skip ==
  /\ at \in 1..Len(Program) /\ ~Due
  /\ at' = After(at)
  /\ UNCHANGED <<disk, key, todo, history>>

\* kp_forecast's copy is dropped whatever happens to it; the others' are left.
Tidied(t) == IF t = "kp_forecast" THEN [copy EXCEPT ![t] = None] ELSE copy

\* Mutant of CreateCopy: a copy that is in the way is replaced.
CreateOrReplace ==
  /\ At("create") /\ Due
  /\ copy' = [copy EXCEPT ![Here.t] = {}] /\ Goes
  /\ UNCHANGED <<recorded, table, labelled, old, new, deploy, history>>

\* CREATE TABLE without IF NOT EXISTS.
CreateCopy ==
  /\ At("create") /\ Due
  /\ IF copy[Here.t] # None
       THEN copy' = Tidied(Here.t) /\ Quits
       ELSE copy' = [copy EXCEPT ![Here.t] = {}] /\ Goes
  /\ UNCHANGED <<recorded, table, labelled, old, new, deploy, history>>

FillCopy ==
  /\ At("fill")
  /\ copy' = [copy EXCEPT ![Here.t] = table[Here.t].rows]
  /\ Goes
  /\ UNCHANGED <<recorded, table, labelled, old, new, deploy, history>>

\* The forecasts and the series compare the copy with the original first.
Verified(t) == t \in {"kp_forecast", "solar_wind", "imf"} => Cardinality(copy[t]) = Cardinality(table[t].rows)

DropTable ==
  /\ At("drop")
  /\ IF Verified(Here.t)
       THEN table' = [table EXCEPT ![Here.t] = None] /\ Goes /\ UNCHANGED copy
       ELSE copy' = [copy EXCEPT ![Here.t] = None] /\ Quits /\ UNCHANGED table
  /\ UNCHANGED <<recorded, labelled, old, new, deploy, history>>

RenameCopy ==
  /\ At("rename")
  /\ table' = [table EXCEPT ![Here.t] = [rows |-> copy[Here.t], new |-> TRUE]]
  /\ copy' = [copy EXCEPT ![Here.t] = None]
  /\ Goes
  /\ UNCHANGED <<recorded, labelled, old, new, deploy, history>>

Record ==
  /\ At("record")
  /\ recorded' = recorded \cup {Here.m}
  /\ Goes
  /\ UNCHANGED <<table, copy, labelled, old, new, deploy, history>>

\* The rows a migration means to delete.
Without(rows, ts) ==
  /\ table' = [t \in Tables |-> IF t \in ts THEN [table[t] EXCEPT !.rows = @ \ rows] ELSE table[t]]
  /\ owed' = [t \in Tables |-> IF t \in ts THEN owed[t] \ (rows \ {"served"}) ELSE owed[t]]

\* Every forecast from the wrong input series.
PurgeForecasts == Here.m = "purge" /\ Without(Row, {"kp_forecast"}) /\ UNCHANGED <<labelled, deploy>>

\* BEGIN to COMMIT; a file's forecasts since the model was deployed are its own.
FixEra == Here.m = "era" /\ labelled' = labelled \cup {"late"} /\ UNCHANGED <<table, deploy, owed>>

VerifyDeployAccounts ==
  /\ Here.m = "deploy" /\ deploy' = "verified"
  /\ UNCHANGED <<table, labelled, owed>>

\* delete_unlabelled_series_rows.
DropUnlabelled ==
  /\ Here.m = "unlabelled" /\ Without({"early"}, {"solar_wind", "imf"})
  /\ UNCHANGED <<labelled, deploy>>

Work ==
  /\ At("work") /\ Due
  /\ PurgeForecasts \/ FixEra \/ VerifyDeployAccounts \/ DropUnlabelled
  /\ Goes
  /\ UNCHANGED <<recorded, copy, old, new, uncounted>>

\* The era's count of what there is to fix defaults to 0, and then nothing is done.
EraCountFails ==
  /\ "dberror" \in Faults
  /\ At("work") /\ Due /\ Here.m = "era"
  /\ uncounted' = TRUE
  /\ Goes
  /\ UNCHANGED <<disk, owed>>

Kind == IF Here.m = "totp" THEN Users ELSE Rules

\* The values are read in one go; secrets need the key.
ReadValues ==
  /\ At("read") /\ Due
  /\ IF Here.m = "totp" /\ old \cap Kind # {} /\ key = None
       THEN Quits
       ELSE at' = at + 1 /\ todo' = old \cap Kind /\ UNCHANGED key
  /\ UNCHANGED <<disk, history>>

MoveValue ==
  /\ At("move")
  /\ \E i \in todo :
       /\ new' = [new EXCEPT ![i] = IF i \in Users THEN key ELSE "scaled"]
       /\ todo' = todo \ {i}
  /\ UNCHANGED <<recorded, table, copy, labelled, old, deploy, at, key, history>>

MovesEnd == At("move") /\ todo = {} /\ Goes /\ UNCHANGED <<disk, history>>

DropColumn ==
  /\ At("dropcolumn")
  /\ old' = old \ Kind
  /\ Goes
  /\ UNCHANGED <<recorded, table, copy, labelled, new, deploy, history>>

Enrolled == {u \in Users : new[u] # None}

\* Mutant of CheckKey: any key will do if there is one.
AnyKey ==
  /\ at = KeyCheck
  /\ IF key = None /\ Enrolled # {} THEN Quits ELSE Goes
  /\ UNCHANGED <<disk, history>>

\* One enrolled account, any, is tried.
CheckKey ==
  /\ at = KeyCheck
  /\ IF Enrolled = {}
       THEN Goes
       ELSE \E u \in Enrolled : IF new[u] = key THEN Goes ELSE Quits
  /\ UNCHANGED <<disk, history>>

\* A statement fails and Store::open returns its error.  Of a batch that creates and
\* fills the forecasts' copy the copy goes.
Fails ==
  /\ "dberror" \in Faults
  /\ at \in 1..KeyCheck
  /\ copy' \in {copy, IF (At("create") /\ Due) \/ At("fill") THEN Tidied(Here.t) ELSE copy}
  /\ Quits
  /\ UNCHANGED <<recorded, table, labelled, old, new, deploy, history>>

\* The process ends, in the middle of all this or while it serves.
Ends ==
  /\ at > 0 /\ (at = Serving \/ "crash" \in Faults)
  /\ Quits
  /\ UNCHANGED <<disk, history>>

-----------------------------------------------------------------------------
(* While it serves                                                           *)

Ingest ==
  /\ at = Serving
  /\ table' = [t \in Tables |-> [table[t] EXCEPT !.rows = @ \cup {"served"}]]
  /\ owed' = [t \in Tables |-> owed[t] \cup {"served"}]
  /\ UNCHANGED <<recorded, copy, labelled, old, new, deploy, at, key, todo, uncounted>>

\* The second factor is switched on, for which a key is needed, or off.
SetSecondFactor(u) ==
  /\ at = Serving
  /\ new' \in {[new EXCEPT ![u] = key], [new EXCEPT ![u] = None]}
  /\ UNCHANGED <<recorded, table, copy, labelled, old, deploy, at, key, todo, history>>

\* A deploy account is deliberately un-verified.
Withdraw ==
  /\ at = Serving
  /\ deploy' = "withdrawn"
  /\ UNCHANGED <<recorded, table, copy, labelled, old, new, at, key, todo, history>>

Next ==
  \/ Open \/ Skip
  \/ CreateCopy \/ FillCopy \/ DropTable \/ RenameCopy
  \/ Work \/ EraCountFails \/ ReadValues \/ MoveValue \/ MovesEnd \/ DropColumn
  \/ Record \/ CheckKey \/ Fails \/ Ends
  \/ Ingest \/ Withdraw
  \/ \E u \in Users : SetSecondFactor(u)

Spec == Init /\ [][Next]_vars

-----------------------------------------------------------------------------
\* Wherever Store::open is interrupted or fails, and however often, no stored row is
\* gone from the file: it is in its table or in the copy. A store that serves has them all
\* in their tables, but for forecasts, when a process ended between the drop and the
\* rename.
RowsSurvive ==
  \A t \in Tables :
    /\ owed[t] \subseteq Rows(t) \cup (IF copy[t] = None THEN {} ELSE copy[t])
    /\ at = Serving /\ t # "kp_forecast" => owed[t] \subseteq Rows(t)

\* Nothing that is recorded was left undone, wherever the process ended in between: while
\* it serves, every second factor can be opened with its key, though only one has been
\* tried, and none is left in clear; the deploy accounts have been marked, every rule has
\* its scaled threshold and, unless the count of them failed, the forecasts since the
\* model was deployed carry its name.
MigratedWhileServing ==
  at = Serving =>
    /\ old = {} /\ \A u \in Users : new[u] \in {key, None}
    /\ deploy # "unverified"
    /\ uncounted \/ ("late" \in Rows("kp_forecast") => "late" \in labelled)

\* What is decided about a deploy account after it was marked stands.
WithdrawalStands == [][deploy = "withdrawn" => deploy' = "withdrawn"]_vars

\* rekey_one_series says that "the whole thing runs in one transaction": no process finds
\* a series half rebuilt.
RekeyIsAtomic == at = 0 => copy["solar_wind"] = None /\ copy["imf"] = None
=============================================================================
