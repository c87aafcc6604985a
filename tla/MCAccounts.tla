----------------------------- MODULE MCAccounts -----------------------------
(***************************************************************************)
(* Two components in one run: what an account is signed in with             *)
(* (Credentials), and what it creates (Access). They share no state, so a   *)
(* behaviour is one of the one or one of the other, as part says, and the   *)
(* rest stands still.                                                       *)
(***************************************************************************)
EXTENDS MCCredentials

CONSTANTS Kinds, Requests, Owner, Stranger, Nobody, Cap, MaxRows, MaxFaults

VARIABLES part, kind, entitled, rows, next, slot, queue, told, asked, together, faults

access == <<kind, entitled, rows, next, slot, queue, told, asked, together, faults>>

A == INSTANCE Access

ASSUME AccessConstants == A!AccessAssumption

\* The part that stands still starts in one of its states: any one will do.
MCInit ==
  /\ Init /\ A!Init
  /\ \/ /\ part = "credentials"
        /\ kind = CHOOSE k \in Kinds : TRUE
        /\ entitled = TRUE
     \/ part = "access"

MCNext ==
  \/ part = "credentials" /\ Next /\ UNCHANGED <<part, access>>
  \/ part = "access" /\ A!Next /\ UNCHANGED <<part, vars>>

MCSpec == MCInit /\ [][MCNext]_<<part, vars, access>>

\* An account goes over its limit by no more than the creations it had under way at once,
\* less one (MAX_KEYS_PER_USER, MAX_CUSTOM_RULES).
CapIsSoft == A!CapIsSoft

\* What a 201 gave is there until its owner asks for its end or it expires, and what a 204
\* ended never works again (api_keys.rs, webhooks.rs, the rules of routes.rs).
RepliesStand == A!RepliesStand

AllSymmetry == Symmetry \cup Permutations(Requests)
=============================================================================
