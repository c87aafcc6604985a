------------------------------ MODULE MCSignIn ------------------------------
(***************************************************************************)
(* Two components in one run, the two ways into an account: by password,    *)
(* with its back off (LoginBackoff), and by a provider (OAuth). Neither     *)
(* looks at what the other keeps, so a behaviour is one of the one or one   *)
(* of the other, as part says, and the rest stands still. Of the back off,  *)
(* the constants are those of rate_limit.rs.                                *)
(***************************************************************************)
EXTENDS LoginBackoff

CONSTANTS Browsers, Providers, Callbacks, Nobody, MaxFlows, MaxChanges, MaxFaults

VARIABLES part, jar, issued, cb, lock, inserts, user, sessions, spent, changes, faults

backoff == vars
oauth == <<jar, issued, cb, lock, inserts, user, sessions, spent, changes, faults>>

O == INSTANCE OAuth

ASSUME OAuthConstants == O!OAuthAssumption

\* The part that stands still starts in one of its states: any one will do.
MCInit ==
  /\ Init /\ O!Init
  /\ \/ part = "backoff"
     \/ part = "oauth" /\ factor = FALSE

MCNext ==
  \/ part = "backoff" /\ Next /\ UNCHANGED <<part, oauth>>
  \/ part = "oauth" /\ O!Next /\ UNCHANGED <<part, backoff>>

allVars == <<part, backoff, oauth>>

\* Time passes, as in FairSpec.
MCSpec ==
  /\ MCInit /\ [][MCNext]_allVars
  /\ WF_allVars(part = "backoff" /\ Tick /\ UNCHANGED <<part, oauth>>)

\* A callback gets past its state only in the browser its flow was begun in, for the same
\* provider, and only until the flow's cookie was answered (start, callback).
NonceIsSpent == O!NonceIsSpent

\* Of two callbacks for a new address none is told that it failed because of the other
\* (callback, create_oauth_user).
CallbacksAgree == O!CallbacksAgree

\* No session of this path stands for an account with a second factor, but one whose
\* callback had looked for the row before the factor was turned on (callback, enable_totp).
FactorStands == O!FactorStands
=============================================================================
