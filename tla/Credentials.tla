---------------------------- MODULE Credentials ----------------------------
(***************************************************************************)
(* What an account is signed in with, and the links that stand in for it    *)
(* (auth.rs and the users table of db.rs): registration, the verification   *)
(* and reset links, the password, the second factor and its partial token.  *)
(*                                                                         *)
(* A handler reads the row under the lock, gives the lock up for a password *)
(* hash or a place in the writer's channel, and has its statement executed  *)
(* later.  Awaited writes commit at one moment, as AtomicWrites says; who   *)
(* has a session is the business of AccountCache, so any request may come.  *)
(***************************************************************************)
EXTENDS Integers, FiniteSets

CONSTANTS
  Tasks,
  Passwords,
  None,
  Faults,      \* "dberror", "disconnect", "restart"
  MaxVersion,  \* bound: token versions
  MaxSecrets   \* bound: secrets generated

VARIABLES
  row,         \* the account's row of users
  secrets,     \* how many second factor secrets have been generated
  link,        \* of the links in circulation, the one of each purpose that is followed
  task,        \* the requests in flight
  welcomes,    \* history: welcome mails
  used,        \* history: versions whose reset link has changed the password
  confirmed,   \* history: secrets for which a code was shown to verify_2fa
  overlapped   \* history: two requests about the second factor were under way at once

history == <<welcomes, used, confirmed, overlapped>>
vars == <<row, secrets, link, task, history>>

Versions == 0..MaxVersion
Secrets  == 1..MaxSecrets

Row  == [password : Passwords, verified : BOOLEAN, secret : Secrets \cup {None},
         enabled : BOOLEAN, version : Versions]

ASSUME CredentialsAssumption ==
  /\ None \notin Passwords /\ None \notin Nat /\ None \notin Row
  /\ Faults \subseteq {"dberror", "disconnect", "restart"}
  /\ MaxVersion \in Nat /\ MaxSecrets \in Nat

Idle == [op |-> "none", pc |-> "idle", pw |-> None, n |-> None]

\* A link names its account by a signature and carries users.token_version as it was
\* when it was minted.  Of a partial token it is also remembered which password was
\* proved for it, and whether that was still the same request's version.
NoLinks == [verify |-> None, reset |-> None, partial |-> None]

\* Links whose version is v at most.
Links(v) == [verify : 0..v \cup {None}, reset : 0..v \cup {None},
             partial : [ver : 0..v, pw : Passwords, clean : BOOLEAN] \cup {None}]

FactorOps == {"setup", "confirm", "disable", "login", "login_2fa"}
Ops == {"register", "change", "reset", "verify", "resend", "forgot"} \cup FactorOps

TypeOK ==
  /\ row \in Row \cup {None}
  /\ secrets \in 0..MaxSecrets
  /\ task \in [Tasks -> {Idle} \cup
       [op : Ops, pc : {"read", "write", "orphan", "done"}, pw : Passwords \cup {None},
        n : Versions \cup Secrets \cup {None}]]
  /\ welcomes \in Nat /\ overlapped \in BOOLEAN
  /\ confirmed \subseteq 1..secrets
  /\ IF row = None
       THEN link = NoLinks /\ used = {}
       ELSE /\ row.secret # None => row.secret <= secrets
            /\ link \in Links(row.version)
            /\ used \subseteq 0..(row.version - 1)

Init ==
  /\ row = None /\ secrets = 0
  /\ link = NoLinks
  /\ task = [t \in Tasks |-> Idle]
  /\ welcomes = 0 /\ used = {} /\ confirmed = {}
  /\ overlapped = FALSE

-----------------------------------------------------------------------------
(* Handlers up to the write, or to the second time they read                 *)

\* Request t begins, and has got as far as pc.
Begin(t, op, pc, pw, n) ==
  /\ task[t] = Idle
  /\ task' = [task EXCEPT ![t] = [op |-> op, pc |-> pc, pw |-> pw, n |-> n]]

End(t) == task' = [task EXCEPT ![t] = Idle]

UnderWay(ops) == \E t \in Tasks : task[t].op \in ops

\* Another request about the second factor, or the sign in with one, is under way.
NotesOverlap == overlapped' = (overlapped \/ UnderWay(FactorOps))

\* A link of this purpose goes out; from now on it may be the one that is followed.
Mints(purpose, l) == link' \in {link, [link EXCEPT ![purpose] = l]}

Register(t, p) ==
  /\ Begin(t, "register", "write", p, None)
  /\ UNCHANGED <<row, secrets, link, history>>

\* The row is read, and its hash is that of the password given.  An account without a
\* second factor is signed in; for others the version of the partial token is read
\* after the hash has been verified.
Login(t, p) ==
  /\ row # None /\ p = row.password /\ row.enabled
  /\ Begin(t, "login", "read", p, row.version)
  /\ NotesOverlap
  /\ UNCHANGED <<row, secrets, link, welcomes, used, confirmed>>

LoginMint(t) ==
  /\ task[t].op = "login"
  /\ Mints("partial", [ver |-> row.version, pw |-> task[t].pw, clean |-> row.version = task[t].n])
  /\ End(t)
  /\ UNCHANGED <<row, secrets, history>>

\* Mutant of Accepts: the signature is all that counts.
AcceptsSigned(l) == l # None /\ row # None

\* decode_purpose_checked: the link's version is that of the row.
Accepts(l) == l # None /\ row # None /\ l = row.version

\* Mutant of Login2fa: the partial token's version is not looked at.
AcceptsAnyPartial(t) ==
  /\ link.partial # None /\ row # None
  /\ Begin(t, "login_2fa", "read", link.partial.pw, None)
  /\ NotesOverlap
  /\ UNCHANGED <<row, secrets, link, welcomes, used, confirmed>>

Login2fa(t) ==
  /\ link.partial # None /\ Accepts(link.partial.ver)
  /\ Begin(t, "login_2fa", "read", link.partial.pw, None)
  /\ NotesOverlap
  /\ UNCHANGED <<row, secrets, link, welcomes, used, confirmed>>

\* The row is read again, and the code is one for the secret that is in it.
Login2faCode(t) ==
  /\ task[t].op = "login_2fa"
  /\ row.secret # None
  /\ End(t)
  /\ UNCHANGED <<row, secrets, link, history>>

VerifyEmail(t) ==
  /\ Accepts(link.verify)
  /\ Begin(t, "verify", "write", None, None)
  /\ UNCHANGED <<row, secrets, link, history>>

ResendVerification(t) ==
  /\ row # None /\ ~row.verified
  /\ Begin(t, "resend", "read", None, None)
  /\ UNCHANGED <<row, secrets, link, history>>

ResendMint(t) ==
  /\ task[t].op = "resend"
  /\ Mints("verify", row.version)
  /\ End(t)
  /\ UNCHANGED <<row, secrets, history>>

\* The version is read first, and is 0 for an account there is none of yet.
ForgotPassword(t) ==
  /\ Begin(t, "forgot", "read", None, IF row = None THEN 0 ELSE row.version)
  /\ UNCHANGED <<row, secrets, link, history>>

ForgotMint(t) ==
  /\ task[t].op = "forgot" /\ row # None
  /\ Mints("reset", task[t].n)
  /\ End(t)
  /\ UNCHANGED <<row, secrets, history>>

ResetPassword(t, p) ==
  /\ Accepts(link.reset)
  /\ Begin(t, "reset", "write", p, link.reset)
  /\ UNCHANGED <<row, secrets, link, history>>

ChangePassword(t, p) ==
  /\ row # None
  /\ Begin(t, "change", "write", p, None)
  /\ UNCHANGED <<row, secrets, link, history>>

\* Mutant of Setup2fa: it does not look whether there is a second factor already.
SetupAnytime(t) ==
  /\ row # None
  /\ secrets < MaxSecrets /\ secrets' = secrets + 1
  /\ Begin(t, "setup", "write", None, secrets')
  /\ NotesOverlap
  /\ UNCHANGED <<row, link, welcomes, used, confirmed>>

Setup2fa(t) ==
  /\ row # None /\ ~row.enabled
  /\ secrets < MaxSecrets /\ secrets' = secrets + 1
  /\ Begin(t, "setup", "write", None, secrets')
  /\ NotesOverlap
  /\ UNCHANGED <<row, link, welcomes, used, confirmed>>

\* verify_2fa: the code is one for the secret in the row that was read.
Verify2fa(t) ==
  /\ row # None /\ ~row.enabled /\ row.secret # None
  /\ Begin(t, "confirm", "write", None, row.secret)
  /\ confirmed' = confirmed \cup {row.secret}
  /\ NotesOverlap
  /\ UNCHANGED <<row, secrets, link, welcomes, used>>

Disable2fa(t) ==
  /\ row # None /\ row.enabled /\ row.secret # None
  /\ Begin(t, "disable", "write", None, row.secret)
  /\ NotesOverlap
  /\ UNCHANGED <<row, secrets, link, welcomes, used, confirmed>>

\* A handler that reads a second time finds nothing to go on with: a wrong code, no
\* account, no mail service, a query that fails.
Refuse(t) ==
  /\ task[t].pc = "read"
  /\ End(t)
  /\ UNCHANGED <<row, secrets, link, history>>

-----------------------------------------------------------------------------
(* The statements, executed by the writer                                    *)

NewRow(p) == [password |-> p, verified |-> FALSE, secret |-> None, enabled |-> FALSE, version |-> 0]

Bumped(r) == [r EXCEPT !.version = @ + 1]

\* The row after the statement of c: create_user (nothing, if the address is taken),
\* update_password_hash, set_email_verified, set_totp_secret, enable_totp, disable_totp.
Written(c) ==
  CASE c.op = "register" -> IF row = None THEN NewRow(c.pw) ELSE row
    [] c.op \in {"change", "reset"} -> Bumped([row EXCEPT !.password = c.pw])
    [] c.op = "verify" -> [row EXCEPT !.verified = TRUE]
    [] c.op = "setup" -> [row EXCEPT !.secret = c.n]
    [] c.op = "confirm" -> Bumped([row EXCEPT !.enabled = TRUE])
    [] c.op = "disable" -> Bumped([row EXCEPT !.enabled = FALSE, !.secret = None])

Bounded(r) == r.version <= MaxVersion

\* Mutant of Replies: set_email_verified counts a row that was verified already.
RepliesToAll(c) == c.op \in {"verify", "register"}

\* The statement changed something the handler has still to act on: a new account is
\* sent its verification link, a newly verified one its welcome.
Replies(c) == c.op \in {"verify", "register"} /\ row # Written(c)

Commit(t) ==
  /\ task[t].pc \in {"write", "orphan"}
  /\ LET c == task[t]
     IN /\ Bounded(Written(c))
        /\ row' = Written(c)
        /\ used' = IF c.op = "reset" THEN used \cup {c.n} ELSE used
        /\ IF Replies(c) /\ c.pc = "write"
             THEN task' = [task EXCEPT ![t].pc = "done"]
             ELSE End(t)
  /\ UNCHANGED <<secrets, link, welcomes, confirmed, overlapped>>

CommitFails(t) ==
  /\ "dberror" \in Faults
  /\ task[t].pc \in {"write", "orphan"}
  /\ End(t)
  /\ UNCHANGED <<row, secrets, link, history>>

\* register mails the link it has minted, verify_email the welcome.
Registered(t) ==
  /\ task[t].pc = "done" /\ task[t].op = "register"
  /\ Mints("verify", 0)
  /\ End(t)
  /\ UNCHANGED <<row, secrets, history>>

Verified(t) ==
  /\ task[t].pc = "done" /\ task[t].op = "verify"
  /\ welcomes' = welcomes + 1
  /\ End(t)
  /\ UNCHANGED <<row, secrets, link, used, confirmed, overlapped>>

\* The client goes away and the handler with it; a command that is in the channel
\* already stays there.  For others than these two, its reply has no consequences.
Disconnect(t) ==
  /\ "disconnect" \in Faults
  /\ task[t].pc \in {"read", "write", "done"}
  /\ \/ End(t)
     \/ task[t].pc = "write" /\ task[t].op \in {"register", "verify"} /\ task' = [task EXCEPT ![t].pc = "orphan"]
  /\ UNCHANGED <<row, secrets, link, history>>

\* The table survives, and so do the links, which are signed and kept nowhere.
Restart ==
  /\ "restart" \in Faults
  /\ task' = [t \in Tasks |-> Idle]
  /\ UNCHANGED <<row, secrets, link, history>>

Next ==
  \/ \E t \in Tasks :
       \/ \E p \in Passwords : Register(t, p) \/ Login(t, p) \/ ResetPassword(t, p) \/ ChangePassword(t, p)
       \/ LoginMint(t) \/ Login2fa(t) \/ Login2faCode(t)
       \/ VerifyEmail(t) \/ ResendVerification(t) \/ ResendMint(t)
       \/ ForgotPassword(t) \/ ForgotMint(t) \/ Refuse(t)
       \/ Setup2fa(t) \/ Verify2fa(t) \/ Disable2fa(t)
       \/ Commit(t) \/ CommitFails(t) \/ Registered(t) \/ Verified(t) \/ Disconnect(t)
  \/ Restart

Spec == Init /\ [][Next]_vars

-----------------------------------------------------------------------------
\* An account is welcomed once, however often and however many at a time its
\* verification links are followed.
WelcomedOnce == welcomes <= 1 /\ (welcomes = 1 => row.verified)

\* A reset link that has changed the password is refused from then on.
UsedLinkRefused ==
  [][\A t \in Tasks :
       task[t] = Idle /\ task'[t].op = "reset" => task'[t].n \notin used]_vars

\* A partial token that is accepted still says the truth: the password it stands for
\* is the account's, and the account has a second factor to ask for.  Only one whose
\* login overlapped a change may not.
PartialStillTrue ==
  [][\A t \in Tasks :
       task[t] = Idle /\ task'[t].op = "login_2fa" /\ link.partial.clean
         => row.enabled /\ row.password = link.partial.pw]_vars

\* As long as requests about the second factor come one at a time, and whichever of
\* them fail or are given up, none is switched on, and no code taken for one, that has
\* not been confirmed with a code.
FactorIsConfirmed ==
  row # None /\ ~overlapped /\ (row.enabled \/ UnderWay({"login_2fa"}))
    => row.secret \in confirmed
=============================================================================
