---------------------------- MODULE AtomicWrites ----------------------------
(***************************************************************************)
(* What the database writer promises those who write through it, with no   *)
(* channel and no writer task.  A handler's call takes effect at one        *)
(* moment between the call and its answer, or not at all, and the answer    *)
(* says which; only a call cut short leaves the handler without knowing.    *)
(* A write nobody waits for takes effect once, or never.                    *)
(***************************************************************************)
EXTENDS Integers, Sequences

CONSTANTS Handlers, Firers

VARIABLES
  issued,   \* how many writes each has asked for; a write is named by its number
  call,     \* how far each handler's present call has come
  told,     \* what each handler's latest call was answered
  loose,    \* writes that may still take effect and that nobody waits for
  effects   \* the writes that took effect, in order

vars == <<issued, call, told, loose, effects>>

Init ==
  /\ issued = [a \in Handlers \cup Firers |-> 0]
  /\ call = [h \in Handlers |-> "idle"]
  /\ told = [h \in Handlers |-> "nothing"]
  /\ loose = {}
  /\ effects = <<>>

Issue(a) == issued' = [issued EXCEPT ![a] = @ + 1]
Newest(a) == [by |-> a, n |-> issued[a]]

Call(h) ==
  /\ call[h] = "idle"
  /\ Issue(h)
  /\ call' = [call EXCEPT ![h] = "pending"]
  /\ told' = [told EXCEPT ![h] = "nothing"]
  /\ UNCHANGED <<loose, effects>>

\* There is no writer any more.
Rejected(h) ==
  /\ call[h] = "idle"
  /\ Issue(h)
  /\ told' = [told EXCEPT ![h] = "closed"]
  /\ UNCHANGED <<call, loose, effects>>

TakesEffect(h) ==
  /\ call[h] = "pending"
  /\ call' = [call EXCEPT ![h] = "applied"]
  /\ effects' = Append(effects, Newest(h))
  /\ UNCHANGED <<issued, told, loose>>

Fails(h) ==
  /\ call[h] = "pending"
  /\ call' = [call EXCEPT ![h] = "failed"]
  /\ UNCHANGED <<issued, told, loose, effects>>

Answer(h) ==
  /\ call[h] \in {"applied", "failed"}
  /\ call' = [call EXCEPT ![h] = "idle"]
  /\ told' = [told EXCEPT ![h] = IF call[h] = "applied" THEN "ok" ELSE "error"]
  /\ UNCHANGED <<issued, loose, effects>>

\* The handler is dropped.  A write it was waiting for may take effect later.
Abandon(h) ==
  /\ call[h] # "idle"
  /\ call' = [call EXCEPT ![h] = "idle"]
  /\ told' = [told EXCEPT ![h] = "closed"]
  /\ loose' \in {loose} \cup {loose \cup {Newest(x)} : x \in {y \in {h} : call[y] = "pending"}}
  /\ UNCHANGED <<issued, effects>>

Fire(p) ==
  /\ Issue(p)
  /\ loose' \in {loose, loose \cup {[by |-> p, n |-> issued[p] + 1]}}
  /\ UNCHANGED <<call, told, effects>>

LooseTakesEffect(w) ==
  /\ w \in loose
  /\ loose' = loose \ {w}
  /\ effects' = Append(effects, w)
  /\ UNCHANGED <<issued, call, told>>

LooseFails(w) ==
  /\ w \in loose
  /\ loose' = loose \ {w}
  /\ UNCHANGED <<issued, call, told, effects>>

\* The writer dies or the process does: no write that has not taken effect will.
Crash(cut) ==
  /\ \A h \in cut : call[h] # "idle"
  /\ \A h \in Handlers \ cut : call[h] # "pending"
  /\ call' = [h \in Handlers |-> IF h \in cut THEN "idle" ELSE call[h]]
  /\ told' = [h \in Handlers |-> IF h \in cut THEN "closed" ELSE told[h]]
  /\ loose' = {}
  /\ UNCHANGED <<issued, effects>>

Next ==
  \/ \E h \in Handlers :
       \/ Call(h) \/ Rejected(h) \/ TakesEffect(h) \/ Fails(h) \/ Answer(h) \/ Abandon(h)
  \/ \E p \in Firers : Fire(p)
  \/ \E w \in loose : LooseTakesEffect(w) \/ LooseFails(w)
  \/ \E cut \in SUBSET Handlers : Crash(cut)

Spec == Init /\ [][Next]_vars
=============================================================================
