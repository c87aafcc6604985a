------------------------------- MODULE Access -------------------------------
(***************************************************************************)
(* What an account creates and ends: API keys, custom rules and webhooks    *)
(* (api_keys.rs, webhooks.rs, the rules of routes.rs, and their tables in   *)
(* db.rs).                                                                  *)
(*                                                                         *)
(* The three are the same handler over three tables, and no handler touches *)
(* two of them, so a behaviour follows one. A creation passes the gates,    *)
(* counts under the lock of the readers, gives the lock up, and sends its   *)
(* insert to the writer. Ending is not gated. A handler is dropped with its *)
(* client, and what it had sent is carried out all the same.                *)
(***************************************************************************)
EXTENDS Integers, FiniteSets, Sequences

CONSTANTS
  Kinds,      \* the tables a behaviour may follow
  Requests,   \* handlers at work at a time
  Owner,      \* the account whose rows are followed
  Stranger,   \* an account with none
  Nobody,     \* a handler that was dropped
  Cap,        \* MAX_KEYS_PER_USER, MAX_CUSTOM_RULES
  MaxRows,    \* bound: rows ever asked for
  MaxFaults   \* bound: dropped handlers, failed writes and restarts

AccessAssumption ==
  /\ Kinds \subseteq {"key", "rule", "webhook"} /\ Owner # Stranger /\ Nobody \notin Requests
  /\ {Cap, MaxRows} \subseteq Nat \ {0} /\ MaxFaults \in Nat

VARIABLES
  kind,      \* the table of this behaviour
  entitled,  \* the owner's address is verified and the plan reaches what kind requires
  rows,      \* the owner's rows, by when they were asked for
  next,      \* the id of the next row
  slot,      \* where each handler stands
  queue,     \* the writer's commands
  told,      \* history: the ids a 201 gave, and those a 204 ended
  asked,     \* history: the ids the owner asked to end
  together,  \* history: the most creations that were ever counted and not yet written
  faults     \* faults so far

vars == <<kind, entitled, rows, next, slot, queue, told, asked, together, faults>>

Idle == [at |-> "idle"]
Ids == 1..MaxRows

Commands ==
  [op : {"create"}, id : Ids, by : Requests \cup {Nobody}]
    \cup [op : {"end", "on", "off"}, id : Ids, of : {Owner, Stranger},
          by : Requests \cup {Nobody}]

TypeOK ==
  /\ kind \in Kinds /\ entitled \in BOOLEAN
  /\ rows \subseteq [id : Ids, state : {"active", "off", "ended", "expired"}]
  /\ next \in 1..MaxRows + 1
  /\ slot \in [Requests -> [at : {"idle", "gated", "waiting"}]]
  /\ queue \in Seq(Commands)
  /\ told \in [made : SUBSET Ids, ended : SUBSET Ids] /\ asked \subseteq Ids
  /\ together \in 0..MaxRows /\ faults \in 0..MaxFaults

Init ==
  /\ kind \in Kinds /\ entitled \in BOOLEAN
  /\ rows = {} /\ next = 1
  /\ slot = [r \in Requests |-> Idle] /\ queue = <<>>
  /\ told = [made |-> {}, ended |-> {}] /\ asked = {} /\ together = 0 /\ faults = 0

Goes(r, where) == slot' = [slot EXCEPT ![r] = where]

\* count_active_api_keys and count_custom_rules_for_user. An ended rule is gone, one that
\* is switched off counts; a key that was revoked or has expired does not.
Active == Cardinality({w \in rows : w.state \in {"active", "off"}})

\* The creations that have counted and are not yet written. A handler's own count and send
\* are one step: it does nothing in between but wait for room.
Creations == {i \in DOMAIN queue : queue[i].op = "create"}

\* The rows the owner is shown: keys that are over stay, rules and webhooks do not.
Listed == {w \in rows : kind = "key" \/ w.state # "ended"}

\* find_api_key_by_hash, get_enabled_custom_rules, list_active_webhooks_for_event: what a
\* request, a reading or an anomaly finds.
Working == {w.id : w \in {v \in rows : v.state = "active"}}

-----------------------------------------------------------------------------
(* Handlers                                                                  *)

\* verified_gate and plan_gate, before anything else of create_api_key,
\* create_custom_rule and create_webhook.
Gate(r) ==
  /\ slot[r] = Idle /\ entitled
  /\ Goes(r, [at |-> "gated"])
  /\ UNCHANGED <<kind, entitled, rows, next, queue, told, asked, together, faults>>

\* 409, 422 or a read that fails.
Refuse(r) ==
  /\ slot[r].at = "gated"
  /\ Goes(r, Idle)
  /\ UNCHANGED <<kind, entitled, rows, next, queue, told, asked, together, faults>>

\* Mutant of MayCreate: one more than the limit.
MayCreateOneMore == kind # "webhook" => Active <= Cap

\* Webhooks have no limit.
MayCreate == kind # "webhook" => Active < Cap

\* The count, and the command that goes by it.
Create(r) ==
  /\ slot[r].at = "gated" /\ MayCreate /\ next <= MaxRows
  /\ queue' = Append(queue, [op |-> "create", id |-> next, by |-> r])
  /\ together' = IF Cardinality(Creations) + 1 > together
                   THEN Cardinality(Creations) + 1 ELSE together
  /\ next' = next + 1
  /\ Goes(r, [at |-> "waiting"])
  /\ UNCHANGED <<kind, entitled, rows, told, asked, faults>>

\* toggle_custom_rule.
Toggle(r) ==
  /\ slot[r] = Idle /\ kind = "rule"
  /\ \E id \in {w.id : w \in rows}, of \in {Owner, Stranger}, op \in {"on", "off"} :
       queue' = Append(queue, [op |-> op, id |-> id, of |-> of, by |-> r])
  /\ Goes(r, [at |-> "waiting"])
  /\ UNCHANGED <<kind, entitled, rows, next, told, asked, together, faults>>

\* delete_api_key, delete_custom_rule, delete_webhook: neither gate stands before them.
End(r) ==
  /\ slot[r] = Idle
  /\ \E id \in {w.id : w \in Listed}, of \in {Owner, Stranger} :
       /\ queue' = Append(queue, [op |-> "end", id |-> id, of |-> of, by |-> r])
       /\ asked' = IF of = Owner THEN asked \cup {id} ELSE asked
  /\ Goes(r, [at |-> "waiting"])
  /\ UNCHANGED <<kind, entitled, rows, next, told, together, faults>>

-----------------------------------------------------------------------------
(* The writer                                                                *)

\* Mutant of Touches: the statement asks for the id alone.
TouchesAnyones(c, w) == w.id = c.id /\ w.state # "ended"

\* WHERE id = ? AND user_email = ?, and for keys revoked_at IS NULL.
Touches(c, w) == w.id = c.id /\ c.of = Owner /\ w.state # "ended"

Becomes(c) == CASE c.op = "end" -> "ended" [] c.op = "on" -> "active" [] c.op = "off" -> "off"

Applied(c) ==
  IF c.op = "create"
    THEN rows \cup {[id |-> c.id, state |-> "active"]}
    ELSE {IF Touches(c, w) THEN [w EXCEPT !.state = Becomes(c)] ELSE w : w \in rows}

\* 201 with the id, 204, or 404 for a row that is not there or not theirs.
Reply(c) ==
  CASE c.by # Nobody /\ c.op = "create" -> [told EXCEPT !.made = @ \cup {c.id}]
    [] c.by # Nobody /\ c.op = "end" /\ (\E w \in rows : Touches(c, w)) ->
         [told EXCEPT !.ended = @ \cup {c.id}]
    [] OTHER -> told

Answered(r) == slot' = [q \in Requests |-> IF q = r THEN Idle ELSE slot[q]]

Commit ==
  /\ queue # <<>>
  /\ rows' = Applied(Head(queue))
  /\ told' = Reply(Head(queue))
  /\ Answered(Head(queue).by)
  /\ queue' = Tail(queue)
  /\ UNCHANGED <<kind, entitled, next, asked, together, faults>>

\* 500: the statement failed, and the row is as it was.
CommitFails ==
  /\ queue # <<>> /\ faults < MaxFaults
  /\ Answered(Head(queue).by)
  /\ queue' = Tail(queue)
  /\ faults' = faults + 1
  /\ UNCHANGED <<kind, entitled, rows, next, told, asked, together>>

-----------------------------------------------------------------------------
(* The rest of the world                                                     *)

\* A key reaches its expires_at.
Expire ==
  /\ kind = "key"
  /\ \E w \in rows :
       /\ w.state = "active"
       /\ rows' = (rows \ {w}) \cup {[w EXCEPT !.state = "expired"]}
  /\ UNCHANGED <<kind, entitled, next, slot, queue, told, asked, together, faults>>

\* The address is verified, or the plan is changed. Rows stay as they are: a key, a rule
\* and a webhook outlive the plan they were made under.
Entitle ==
  /\ entitled' = ~entitled
  /\ UNCHANGED <<kind, rows, next, slot, queue, told, asked, together, faults>>

\* The client is gone. The handler is no longer there to be answered.
Disconnect(r) ==
  /\ slot[r].at = "waiting" /\ faults < MaxFaults
  /\ queue' = [i \in DOMAIN queue |->
                 IF queue[i].by = r THEN [queue[i] EXCEPT !.by = Nobody] ELSE queue[i]]
  /\ Goes(r, Idle)
  /\ faults' = faults + 1
  /\ UNCHANGED <<kind, entitled, rows, next, told, asked, together>>

Restart ==
  /\ faults < MaxFaults
  /\ slot' = [r \in Requests |-> Idle] /\ queue' = <<>>
  /\ faults' = faults + 1
  /\ UNCHANGED <<kind, entitled, rows, next, told, asked, together>>

Next ==
  \/ \E r \in Requests :
       Gate(r) \/ Refuse(r) \/ Create(r) \/ Toggle(r) \/ End(r) \/ Disconnect(r)
  \/ Commit \/ CommitFails \/ Expire \/ Entitle \/ Restart

Spec == Init /\ [][Next]_vars

-----------------------------------------------------------------------------
(* Properties                                                                *)

\* An account goes over its limit by no more than the creations it had under way at once,
\* less one: an account that makes one at a time keeps it, whatever is ended, expires, is
\* switched off, fails or is lost meanwhile (MAX_KEYS_PER_USER, MAX_CUSTOM_RULES).
CapIsSoft ==
  kind # "webhook" => Active + Cardinality(Creations) <= Cap - 1 + together

\* What a 201 gave is there until its owner asks for its end or it expires, and what a 204
\* ended never works again: not by a switch that was on its way, not by a stranger's
\* request for the same id, and not by a restart.
RepliesStand ==
  /\ \A id \in told.made : id \in asked \/ \E w \in rows : w.id = id /\ w.state # "ended"
  /\ told.ended \cap Working = {}
=============================================================================
