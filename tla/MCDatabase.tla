----------------------------- MODULE MCDatabase -----------------------------
(***************************************************************************)
(* Two components in one run: the writer's task and its channel (DbWriter), *)
(* and what Store::open does before there is one (Migrations). They never   *)
(* run together, so a behaviour is one of the one or one of the other, as   *)
(* part says, and the rest stands still.                                    *)
(***************************************************************************)
EXTENDS MCDbWriter

CONSTANTS Users, Rules, Keys, OpenFaults

VARIABLES
  part,
  recorded, table, copy, labelled, old, new, deploy, at, key, todo, owed, uncounted

writing == vars
opening == <<recorded, table, copy, labelled, old, new, deploy, at, key, todo, owed,
             uncounted>>

M == INSTANCE Migrations WITH Faults <- OpenFaults

ASSUME MigrationsConstants == M!MigrationsAssumption

\* The part that stands still starts in one of its states: any one will do.
MCInit ==
  /\ part \in {"writer", "migrations"}
  /\ Init /\ M!Init
  /\ part = "writer" => table = [t \in M!Tables |-> None]

MCNext ==
  \/ part = "writer" /\ Next /\ UNCHANGED <<part, opening>>
  \/ part = "migrations" /\ M!Next /\ UNCHANGED <<part, writing>>

allVars == <<part, writing, opening>>

\* The fairness of FairSpec.
MCSpec ==
  /\ MCInit /\ [][MCNext]_allVars
  /\ WF_allVars(part = "writer" /\ Take /\ UNCHANGED <<part, opening>>)
  /\ WF_allVars(part = "writer" /\ Process /\ UNCHANGED <<part, opening>>)
  /\ WF_allVars(part = "writer" /\ Reply /\ UNCHANGED <<part, opening>>)
  /\ \A h \in Handlers :
       /\ WF_allVars(part = "writer" /\ Push(h) /\ UNCHANGED <<part, opening>>)
       /\ WF_allVars(part = "writer" /\ Return(h) /\ UNCHANGED <<part, opening>>)

\* Wherever Store::open is interrupted or fails, and however often, no stored row is gone
\* from the file, and a store that serves has them in their tables (Store::open).
RowsSurvive == M!RowsSurvive

\* Nothing that is recorded was left undone: what serves is migrated, with every second
\* factor sealed under the key it has (Store::open, migrate_totp_secrets).
MigratedWhileServing == M!MigratedWhileServing

\* What is decided about a deploy account after it was marked stands (Store::open).
WithdrawalStands == M!WithdrawalStands
=============================================================================
