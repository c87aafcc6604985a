-------------------------- MODULE MigrationProgram --------------------------
(***************************************************************************)
(* What Store::open does to a database file (db.rs), as a program: its      *)
(* statements in the order they come in, and which of them make up one      *)
(* one-shot migration.                                                      *)
(***************************************************************************)
EXTENDS Naturals, Sequences

Tables == {"kp_forecast", "usage_records", "xray", "solar_wind", "imf"}

\* Rows older than what their table's migration asks about (issued before the model
\* of this version, without a spacecraft's name), younger ones, and those written while
\* this version serves.
Row     == {"early", "late", "served"}

-----------------------------------------------------------------------------
(* The statements of Store::open, in order                                   *)

Do(m, what) == [m |-> m, what |-> what, t |-> "none"]

\* A primary key cannot be altered: create a copy, fill it, drop, rename.
Rebuild(m, t) ==
  LET step(what) == [m |-> m, what |-> what, t |-> t]
  IN <<step("create"), step("fill"), step("drop"), step("rename")>>

Once(m)  == <<Do(m, "work"), Do(m, "record")>>
Moves(m) == <<Do(m, "read"), Do(m, "move"), Do(m, "dropcolumn"), Do(m, "record")>>

\* Mutant of Program: the record of a one-shot comes before its work.
RecordsFirst ==
  Once("purge")
    \o Rebuild("forecast", "kp_forecast") \o <<Do("forecast", "record")>>
    \o <<Do("era", "record"), Do("era", "work")>> \o Once("deploy")
    \o Moves("totp") \o Moves("threshold")
    \o Rebuild("usage", "usage_records") \o <<Do("usage", "record")>>
    \o Rebuild("xray", "xray") \o <<Do("xray", "record")>>
    \o Once("unlabelled")
    \o Rebuild("series", "solar_wind") \o Rebuild("series", "imf") \o <<Do("series", "record")>>

\* The steps that only record that a column or index is there are left out.
Program ==
  Once("purge")
    \o Rebuild("forecast", "kp_forecast") \o <<Do("forecast", "record")>>
    \o Once("era") \o Once("deploy")
    \o Moves("totp") \o Moves("threshold")
    \o Rebuild("usage", "usage_records") \o <<Do("usage", "record")>>
    \o Rebuild("xray", "xray") \o <<Do("xray", "record")>>
    \o Once("unlabelled")
    \o Rebuild("series", "solar_wind") \o Rebuild("series", "imf") \o <<Do("series", "record")>>

Migration == <<"purge", "forecast", "era", "deploy", "totp", "threshold",
               "usage", "xray", "unlabelled", "series">>

KeyCheck == Len(Program) + 1
Serving  == Len(Program) + 2

First(i) == i <= Len(Program) /\ (i = 1 \/ Program[i - 1].m # Program[i].m)

\* Where the program goes on if the migration at i has been applied.
After(i) == CHOOSE j \in (i + 1)..KeyCheck :
  /\ j = KeyCheck \/ First(j)
  /\ \A k \in (i + 1)..(j - 1) : ~First(k)
=============================================================================
