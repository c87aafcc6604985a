-------------------------------- MODULE OAuth --------------------------------
(***************************************************************************)
(* Sign in by a provider (oauth.rs): the flow that start begins in a        *)
(* browser and callback ends, and the account it finds or creates.          *)
(*                                                                         *)
(* The server keeps nothing of a flow. Its nonce goes out twice, signed in  *)
(* the state token and bare in a cookie, and a callback goes by the two it  *)
(* is shown. Callbacks are for one address; the table is shared with        *)
(* register, with the second factor and with changes of the password.       *)
(***************************************************************************)
EXTENDS Integers, FiniteSets

CONSTANTS
  Browsers,
  Providers,   \* the providers with credentials
  Callbacks,   \* callbacks at work at a time
  Nobody,      \* no callback, no account
  MaxFlows,    \* bound: flows ever begun
  MaxChanges,  \* bound: changes of the factor or the password
  MaxFaults    \* bound: dropped handlers and restarts

Nonces == 1..MaxFlows

Accounts == [by : {"register", "callback", "dropped"}, totp : BOOLEAN, ver : 0..MaxChanges]

OAuthAssumption ==
  /\ {MaxFlows, MaxChanges, MaxFaults} \subseteq Nat
  /\ Nobody \notin Callbacks \cup Accounts

VARIABLES
  jar,       \* the state cookie of each browser, 0 for none
  issued,    \* the state tokens that were signed, and for whom
  cb,        \* where each callback stands
  lock,      \* the callback that holds the lock of the readers through an await
  inserts,   \* the create_oauth_user commands at the writer
  user,      \* the account of the address
  sessions,  \* the session tokens given
  spent,     \* history: the cookies of the callbacks that were answered
  changes,
  faults

vars == <<jar, issued, cb, lock, inserts, user, sessions, spent, changes, faults>>

Idle == [at |-> "idle"]

Busy == [at : {"exchanging", "finding", "creating", "partial", "session"},
         nonce : Nonces, provider : Providers, browser : Browsers]

TypeOK ==
  /\ jar \in [Browsers -> Nonces \cup {0}]
  /\ issued \subseteq [nonce : Nonces, provider : Providers, browser : Browsers]
  /\ cb \in [Callbacks -> {Idle} \cup Busy]
  /\ lock \in Callbacks \cup {Nobody}
  /\ inserts \subseteq Callbacks \cup {Nobody}
  /\ user \in {Nobody} \cup Accounts
  /\ sessions \subseteq [ver : 0..MaxChanges, overtaken : BOOLEAN]
  /\ spent \subseteq Nonces
  /\ changes \in 0..MaxChanges /\ faults \in 0..MaxFaults

Init ==
  /\ jar = [b \in Browsers |-> 0] /\ issued = {} /\ cb = [c \in Callbacks |-> Idle]
  /\ lock = Nobody /\ inserts = {} /\ user = Nobody /\ sessions = {} /\ spent = {}
  /\ changes = 0 /\ faults = 0

Goes(c, where) == cb' = [cb EXCEPT ![c].at = where]

\* callback: whatever its outcome, the answer takes the cookie with it, the one of a flow
\* that was begun meanwhile too.
Ends(c, browser) ==
  /\ cb' = [cb EXCEPT ![c] = Idle]
  /\ jar' = [jar EXCEPT ![browser] = 0]

-----------------------------------------------------------------------------
(* Handlers                                                                  *)

\* start: a fresh nonce, signed with the provider, over the cookie of an older flow.
Start ==
  \E b \in Browsers, p \in Providers :
    LET n == Cardinality(issued) + 1
    IN /\ n <= MaxFlows
       /\ jar' = [jar EXCEPT ![b] = n]
       /\ issued' = issued \cup {[nonce |-> n, provider |-> p, browser |-> b]}
       /\ UNCHANGED <<cb, lock, inserts, user, sessions, spent, changes, faults>>

\* verify_state and nonces_match: the token is ours and for this provider, and names the
\* nonce of the cookie that came with it.
Matches(token, provider, browser) ==
  token.provider = provider /\ jar[browser] = token.nonce

\* A callback arrives, from any browser, with any token that was ever signed.
CallbackAccepted(c) ==
  /\ cb[c] = Idle
  /\ \E t \in issued, b \in Browsers, p \in Providers :
       /\ Matches(t, p, b)
       /\ cb' = [cb EXCEPT ![c] =
                   [at |-> "exchanging", nonce |-> t.nonce, provider |-> p, browser |-> b]]
  /\ UNCHANGED <<jar, issued, lock, inserts, user, sessions, spent, changes, faults>>

\* Mutant of CallbackRefused: the way out that forgets the cookie.
RefusedWithCookieLeft ==
  /\ \E b \in Browsers : jar[b] # 0 /\ spent' = spent \cup {jar[b]}
  /\ UNCHANGED <<jar, issued, cb, lock, inserts, user, sessions, changes, faults>>

\* bad_state, access_denied, or no code: refused before any await.
CallbackRefused ==
  /\ \E b \in Browsers :
       /\ jar[b] # 0
       /\ spent' = spent \cup {jar[b]}
       /\ jar' = [jar EXCEPT ![b] = 0]
  /\ UNCHANGED <<issued, cb, lock, inserts, user, sessions, changes, faults>>

\* exchange_github, exchange_google, validate_email: an address that the provider vouches
\* for and that is one.
Exchanged(c) ==
  /\ cb[c].at = "exchanging"
  /\ Goes(c, "finding")
  /\ UNCHANGED <<jar, issued, lock, inserts, user, sessions, spent, changes, faults>>

ExchangeFails(c) ==
  /\ cb[c].at = "exchanging"
  /\ spent' = spent \cup {cb[c].nonce}
  /\ Ends(c, cb[c].browser)
  /\ UNCHANGED <<issued, lock, inserts, user, sessions, changes, faults>>

Found == IF user.totp THEN "partial" ELSE "session"

\* Mutant of Find: the lock is given up as soon as the row is read.
FindUnlocked(c) ==
  /\ cb[c].at = "finding" /\ lock = Nobody
  /\ IF user = Nobody
       THEN Goes(c, "creating") /\ inserts' = inserts \cup {c}
       ELSE Goes(c, Found) /\ UNCHANGED inserts
  /\ UNCHANGED <<jar, issued, lock, user, sessions, spent, changes, faults>>

\* find_user_by_email. The guard of the readers' lock lives as long as the match on what
\* it found: through the hash and the insert of an account that is not there.
Find(c) ==
  /\ cb[c].at = "finding" /\ lock = Nobody
  /\ IF user = Nobody
       THEN Goes(c, "creating") /\ inserts' = inserts \cup {c} /\ lock' = c
       ELSE Goes(c, Found) /\ UNCHANGED <<inserts, lock>>
  /\ UNCHANGED <<jar, issued, user, sessions, spent, changes, faults>>

Row(by) == [by |-> by, totp |-> FALSE, ver |-> 0]

\* create_oauth_user, by the writer, which has a connection of its own.
Create ==
  \E c \in inserts :
    /\ inserts' = inserts \ {c}
    /\ user = Nobody
    /\ user' = Row(IF c = Nobody THEN "dropped" ELSE "callback")
    /\ IF c = Nobody THEN UNCHANGED cb ELSE Goes(c, "session")
    /\ lock' = IF lock = c THEN Nobody ELSE lock
    /\ UNCHANGED <<jar, issued, sessions, spent, changes, faults>>

\* The address was taken between the look and the insert: oauth_failed.
CreateTaken ==
  \E c \in inserts :
    /\ inserts' = inserts \ {c}
    /\ user # Nobody
    /\ lock' = IF lock = c THEN Nobody ELSE lock
    /\ IF c = Nobody
         THEN UNCHANGED <<cb, jar, spent>>
         ELSE Ends(c, cb[c].browser) /\ spent' = spent \cup {cb[c].nonce}
    /\ UNCHANGED <<issued, user, sessions, changes, faults>>

\* purpose_token: what is left to do for a partial token is login_2fa's.
GivePartial(c) ==
  /\ cb[c].at = "partial" /\ lock = Nobody
  /\ spent' = spent \cup {cb[c].nonce}
  /\ Ends(c, cb[c].browser)
  /\ UNCHANGED <<issued, lock, inserts, user, sessions, changes, faults>>

\* resolve_token_version and session_jwt: the version is that of now, the factor that of
\* when the row was looked for. A version that is cached is had without the lock.
GiveSession(c) ==
  /\ cb[c].at = "session"
  /\ sessions' = sessions \cup {[ver |-> user.ver, overtaken |-> user.totp]}
  /\ spent' = spent \cup {cb[c].nonce}
  /\ Ends(c, cb[c].browser)
  /\ UNCHANGED <<issued, lock, inserts, user, changes, faults>>

-----------------------------------------------------------------------------
(* The rest of the account, and of the world                                 *)

\* create_user, of register.
Register ==
  /\ user = Nobody
  /\ user' = Row("register")
  /\ UNCHANGED <<jar, issued, cb, lock, inserts, sessions, spent, changes, faults>>

\* Mutant of TurnFactor: sessions from before go on.
TurnFactorOnly ==
  /\ user # Nobody /\ changes < MaxChanges
  /\ user' = [user EXCEPT !.totp = ~@]
  /\ changes' = changes + 1
  /\ UNCHANGED <<jar, issued, cb, lock, inserts, sessions, spent, faults>>

\* enable_totp, disable_totp.
TurnFactor ==
  /\ user # Nobody /\ changes < MaxChanges
  /\ user' = [user EXCEPT !.totp = ~@, !.ver = @ + 1]
  /\ changes' = changes + 1
  /\ UNCHANGED <<jar, issued, cb, lock, inserts, sessions, spent, faults>>

\* update_password_hash.
ChangePassword ==
  /\ user # Nobody /\ changes < MaxChanges
  /\ user' = [user EXCEPT !.ver = @ + 1]
  /\ changes' = changes + 1
  /\ UNCHANGED <<jar, issued, cb, lock, inserts, sessions, spent, faults>>

\* The browser goes away: the handler ends where it stands, and its guard with it. What it
\* sent to the writer is carried out.
Disconnect(c) ==
  /\ cb[c] # Idle /\ faults < MaxFaults
  /\ cb' = [cb EXCEPT ![c] = Idle]
  /\ lock' = IF lock = c THEN Nobody ELSE lock
  /\ inserts' = IF c \in inserts THEN (inserts \ {c}) \cup {Nobody} ELSE inserts
  /\ faults' = faults + 1
  /\ UNCHANGED <<jar, issued, user, sessions, spent, changes>>

Restart ==
  /\ faults < MaxFaults
  /\ cb' = [c \in Callbacks |-> Idle] /\ lock' = Nobody /\ inserts' = {}
  /\ faults' = faults + 1
  /\ UNCHANGED <<jar, issued, user, sessions, spent, changes>>

Next ==
  \/ Start \/ CallbackRefused \/ Create \/ CreateTaken
  \/ \E c \in Callbacks :
       \/ CallbackAccepted(c) \/ Exchanged(c) \/ ExchangeFails(c) \/ Find(c)
       \/ GivePartial(c) \/ GiveSession(c) \/ Disconnect(c)
  \/ Register \/ TurnFactor \/ ChangePassword \/ Restart

Spec == Init /\ [][Next]_vars

-----------------------------------------------------------------------------
(* Properties                                                                *)

\* A callback gets past its state only in the browser its flow was begun in, for the same
\* provider, and only until some callback of that browser was answered while the flow's
\* cookie was there, whatever the answer. Two at a time may still get past it together.
NonceIsSpent ==
  [][\A c \in Callbacks :
       cb[c] = Idle /\ cb'[c] # Idle =>
         /\ cb'[c].nonce \notin spent
         /\ \E t \in issued : /\ t.nonce = cb'[c].nonce
                              /\ t.browser = cb'[c].browser
                              /\ t.provider = cb'[c].provider]_vars

\* Of two callbacks for a new address none is told that it failed because of the other:
\* the account an insert meets was registered, or made by a callback whose browser left.
CallbacksAgree ==
  \A c \in inserts \ {Nobody} : user # Nobody => user.by # "callback"

\* No session from this path that is still good stands for an account with a second factor,
\* but one whose callback had looked for the row before the factor was turned on.
FactorStands ==
  user # Nobody =>
    \A s \in sessions : user.totp /\ s.ver = user.ver => s.overtaken
=============================================================================
