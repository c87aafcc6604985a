----------------------------- MODULE SignInProofs -----------------------------
(***************************************************************************)
(* Proofs about OAuth, for any browsers, providers and callbacks. Flows     *)
(* accounts for nonces: each is issued once, to one browser, and a cookie   *)
(* that is still there was never answered. InsertsOK accounts for the lock: *)
(* a callback whose account is being created holds it, so there is one.     *)
(* And about the back off, for any number of requests and any constants:    *)
(* what is weighed at once, by where the row of failures stands.            *)
(***************************************************************************)
EXTENDS MCSignIn, FiniteSetTheorems, TLAPS

NoncesOf(I) == {t.nonce : t \in I}

IssuedTo(I, n, b) == \E t \in I : t.nonce = n /\ t.browser = b

\* Tokens are numbered as they are signed.
NumberedOK ==
  /\ IsFiniteSet(issued)
  /\ NoncesOf(issued) = 1..Cardinality(issued)
  /\ \A t, u \in issued : t.nonce = u.nonce => t = u

\* A cookie is that of a flow of its browser, and nobody has answered it.
CookiesOK == \A b \in Browsers : jar[b] # 0 => IssuedTo(issued, jar[b], b) /\ jar[b] \notin spent

\* So is what a callback goes by, but for the answer.
CallbacksOK == \A c \in Callbacks : cb[c] # O!Idle => IssuedTo(issued, cb[c].nonce, cb[c].browser)

SpentOK == spent \subseteq NoncesOf(issued)

Flows == NumberedOK /\ CookiesOK /\ CallbacksOK /\ SpentOK

\* The lock's holder alone waits for an insert.
InsertsOK == \A c \in inserts \ {Nobody} : lock = c /\ cb[c].at = "creating"

AccountOK ==
  /\ \A c \in Callbacks : cb[c].at \in {"session", "partial"} => user # Nobody
  /\ user = Nobody => sessions = {}
  /\ user # Nobody => user.ver <= changes /\ \A s \in sessions : s.ver <= user.ver

OAuthInv == O!TypeOK /\ Flows /\ InsertsOK /\ AccountOK

-----------------------------------------------------------------------------
(* Updates of a callback's state                                             *)

\* What is left of a callback that is moved on: its flow.
LEMMA GoesOn ==
  ASSUME O!TypeOK, NEW c \in Callbacks, cb[c] # O!Idle,
         NEW w \in {"exchanging", "finding", "creating", "partial", "session"}, O!Goes(c, w)
  PROVE  /\ cb' \in [Callbacks -> {O!Idle} \cup O!Busy]
         /\ cb'[c] \in O!Busy /\ cb'[c].at = w
         /\ cb'[c].nonce = cb[c].nonce /\ cb'[c].browser = cb[c].browser
         /\ \A d \in Callbacks \ {c} : cb'[d] = cb[d]
<1>1. cb[c] \in O!Busy
  BY DEF O!TypeOK
<1>2. cb' = [cb EXCEPT ![c] = [cb[c] EXCEPT !.at = w]]
  BY DEF O!Goes
<1>3. [cb[c] EXCEPT !.at = w] \in O!Busy
  BY <1>1 DEF O!Busy
<1>4. /\ [cb[c] EXCEPT !.at = w].at = w
      /\ [cb[c] EXCEPT !.at = w].nonce = cb[c].nonce
      /\ [cb[c] EXCEPT !.at = w].browser = cb[c].browser
  BY <1>1 DEF O!Busy
<1>5. QED
  BY <1>2, <1>3, <1>4 DEF O!TypeOK

LEMMA IdleIsNotBusy == O!Idle \notin O!Busy /\ O!Idle.at = "idle"
BY DEF O!Idle, O!Busy

\* A nonce, and the token it is on, settle each other.
LEMMA OneBrowser ==
  ASSUME NumberedOK, NEW n, NEW a, NEW b, IssuedTo(issued, n, a), IssuedTo(issued, n, b)
  PROVE  a = b
BY DEF NumberedOK, IssuedTo

-----------------------------------------------------------------------------
(* What a step does to the flows                                             *)

\* Callbacks that stay keep their flow.
SameFlows ==
  \A c \in Callbacks : cb'[c] # O!Idle =>
    cb[c] # O!Idle /\ cb'[c].nonce = cb[c].nonce /\ cb'[c].browser = cb[c].browser

LEMMA GoesSame ==
  ASSUME O!TypeOK, NEW c \in Callbacks, cb[c] # O!Idle,
         NEW w \in {"exchanging", "finding", "creating", "partial", "session"}, O!Goes(c, w)
  PROVE  SameFlows
BY GoesOn DEF SameFlows

LEMMA FlowsStand ==
  ASSUME Flows, SameFlows, UNCHANGED <<jar, issued, spent>>
  PROVE  Flows'
<1>1. \A n, b : IssuedTo(issued', n, b) <=> IssuedTo(issued, n, b)
  BY DEF IssuedTo
<1>2. NumberedOK' /\ SpentOK'
  BY DEF Flows, NumberedOK, SpentOK, NoncesOf
<1>3. CookiesOK'
  BY <1>1 DEF Flows, CookiesOK
<1>4. CallbacksOK'
  BY <1>1 DEF Flows, CallbacksOK, SameFlows
<1>5. QED
  BY <1>2, <1>3, <1>4 DEF Flows

\* An answer to a flow takes the one cookie that can hold its nonce.
LEMMA FlowsAnswered ==
  ASSUME O!TypeOK, Flows, SameFlows, NEW n, NEW b \in Browsers, IssuedTo(issued, n, b),
         spent' = spent \cup {n}, jar' = [jar EXCEPT ![b] = 0], UNCHANGED issued
  PROVE  Flows'
<1>1. \A m, a : IssuedTo(issued', m, a) <=> IssuedTo(issued, m, a)
  BY DEF IssuedTo
<1>2. NumberedOK'
  BY DEF Flows, NumberedOK, NoncesOf
<1>3. SpentOK'
  BY DEF Flows, SpentOK, NoncesOf, IssuedTo
<1>4. CookiesOK'
  <2>1. SUFFICES ASSUME NEW a \in Browsers, jar'[a] # 0
                 PROVE  IssuedTo(issued', jar'[a], a) /\ jar'[a] \notin spent'
    BY DEF CookiesOK
  <2>2. a # b /\ jar'[a] = jar[a]
    BY <2>1 DEF O!TypeOK
  <2>3. IssuedTo(issued, jar[a], a) /\ jar[a] \notin spent
    BY <2>1, <2>2 DEF Flows, CookiesOK
  <2>4. jar[a] # n
    BY <2>2, <2>3, OneBrowser DEF Flows
  <2>5. QED
    BY <1>1, <2>2, <2>3, <2>4
<1>5. CallbacksOK'
  BY <1>1 DEF Flows, CallbacksOK, SameFlows
<1>6. QED
  BY <1>2, <1>3, <1>4, <1>5 DEF Flows

LEMMA SameCardinality == \A S : O!Cardinality(S) = Cardinality(S)
BY DEF O!Cardinality, Cardinality

\* Start: the number of tokens plus one is a nonce of no token.
LEMMA StartFlows ==
  ASSUME O!TypeOK, Flows, SpentOK, O!Start
  PROVE  Flows'
<1> DEFINE n == Cardinality(issued) + 1
<1>1. PICK b \in Browsers, p \in Providers :
        /\ n <= MaxFlows
        /\ jar' = [jar EXCEPT ![b] = n]
        /\ issued' = issued \cup {[nonce |-> n, provider |-> p, browser |-> b]}
        /\ UNCHANGED <<cb, spent>>
  BY SameCardinality DEF O!Start
<1> DEFINE t0 == [nonce |-> n, provider |-> p, browser |-> b]
<1>2. IsFiniteSet(issued) /\ Cardinality(issued) \in Nat
  BY FS_CardinalityType DEF Flows, NumberedOK
<1>3. \A t \in issued : t.nonce \in 1..Cardinality(issued)
  BY DEF Flows, NumberedOK, NoncesOf
<1>4. \A t \in issued : t.nonce # n
  BY <1>2, <1>3
<1>5. t0.nonce = n /\ t0.browser = b
  OBVIOUS
<1>6. t0 \notin issued
  BY <1>4, <1>5
<1>7. IsFiniteSet(issued') /\ Cardinality(issued') = n
  BY <1>1, <1>2, <1>6, FS_AddElement
<1>8. NoncesOf(issued') = NoncesOf(issued) \cup {n}
  BY <1>1, <1>5 DEF NoncesOf
<1>9. NumberedOK'
  <2>1. NoncesOf(issued') = 1..n
    BY <1>2, <1>8 DEF Flows, NumberedOK
  <2>2. \A t, u \in issued' : t.nonce = u.nonce => t = u
    BY <1>1, <1>4, <1>5 DEF Flows, NumberedOK
  <2>3. NoncesOf(issued)' = 1..Cardinality(issued')
    BY <1>7, <2>1 DEF NoncesOf
  <2>4. QED
    BY <1>7, <2>2, <2>3 DEF NumberedOK
<1>10. \A m, a : IssuedTo(issued, m, a) => IssuedTo(issued', m, a)
  BY <1>1 DEF IssuedTo
<1>11. n \notin spent
  BY <1>4 DEF Flows, SpentOK, NoncesOf
<1>12. CookiesOK'
  <2>1. SUFFICES ASSUME NEW a \in Browsers, jar'[a] # 0
                 PROVE  IssuedTo(issued', jar'[a], a) /\ jar'[a] \notin spent'
    BY DEF CookiesOK
  <2>2. CASE a = b
    <3>1. jar'[a] = n
      BY <1>1, <2>2 DEF O!TypeOK
    <3>2. IssuedTo(issued', n, b)
      BY <1>1, <1>5 DEF IssuedTo
    <3>3. QED
      BY <1>1, <1>11, <2>2, <3>1, <3>2
  <2>3. CASE a # b
    <3>1. jar'[a] = jar[a]
      BY <1>1, <2>3 DEF O!TypeOK
    <3>2. QED
      BY <1>1, <1>10, <2>1, <3>1 DEF Flows, CookiesOK
  <2>4. QED
    BY <2>2, <2>3
<1>13. CallbacksOK'
  BY <1>1, <1>10 DEF Flows, CallbacksOK
<1>14. SpentOK'
  BY <1>1, <1>8 DEF Flows, SpentOK, NoncesOf
<1>15. QED
  BY <1>9, <1>12, <1>13, <1>14 DEF Flows

-----------------------------------------------------------------------------
(* The steps                                                                 *)

LEMMA OAuthInit == O!Init => OAuthInv
<1> SUFFICES ASSUME O!Init PROVE OAuthInv
  OBVIOUS
<1>1. \A c \in Callbacks : cb[c] = O!Idle
  BY DEF O!Init
<1>2. issued = {} /\ IsFiniteSet(issued) /\ Cardinality(issued) = 0
  BY FS_EmptySet DEF O!Init
<1>3. NoncesOf({}) = {} /\ 1..0 = {}
  BY DEF NoncesOf
<1>4. Flows
  BY <1>1, <1>2, <1>3 DEF O!Init, Flows, NumberedOK, CookiesOK, CallbacksOK, SpentOK
<1>5. O!TypeOK
  BY OAuthConstants DEF O!Init, O!TypeOK, O!OAuthAssumption
<1>6. InsertsOK /\ AccountOK
  BY <1>1, IdleIsNotBusy DEF O!Init, InsertsOK, AccountOK
<1>7. QED
  BY <1>4, <1>5, <1>6 DEF OAuthInv

LEMMA BusyFields ==
  ASSUME O!TypeOK, NEW c \in Callbacks, cb[c].at # "idle"
  PROVE  /\ cb[c] # O!Idle /\ cb[c] \in O!Busy
         /\ cb[c].nonce \in O!Nonces /\ cb[c].browser \in Browsers
BY IdleIsNotBusy DEF O!TypeOK, O!Busy

\* A step that moves callbacks, and nothing that is kept of the flows or of the account.
LEMMA CallbacksMove ==
  ASSUME OAuthInv, NEW c \in Callbacks, cb[c].at # "idle",
         NEW w \in {"exchanging", "finding", "creating", "partial", "session"}, O!Goes(c, w),
         UNCHANGED <<jar, issued, sessions, spent, changes, faults>>
  PROVE  /\ Flows'
         /\ cb' \in [Callbacks -> {O!Idle} \cup O!Busy]
         /\ cb'[c].at = w /\ \A d \in Callbacks \ {c} : cb'[d] = cb[d]
BY BusyFields, GoesOn, GoesSame, FlowsStand DEF OAuthInv

\* A step that ends a callback with an answer.
LEMMA CallbackEnds ==
  ASSUME OAuthInv, NEW c \in Callbacks, cb[c].at # "idle",
         O!Ends(c, cb[c].browser), spent' = spent \cup {cb[c].nonce}, UNCHANGED issued
  PROVE  /\ Flows'
         /\ cb' \in [Callbacks -> {O!Idle} \cup O!Busy]
         /\ jar' \in [Browsers -> O!Nonces \cup {0}] /\ spent' \subseteq O!Nonces
         /\ cb'[c] = O!Idle /\ \A d \in Callbacks \ {c} : cb'[d] = cb[d]
<1>1. /\ cb[c] # O!Idle /\ cb[c].nonce \in O!Nonces /\ cb[c].browser \in Browsers
      /\ IssuedTo(issued, cb[c].nonce, cb[c].browser)
  BY BusyFields DEF OAuthInv, Flows, CallbacksOK
<1>2. /\ cb' = [cb EXCEPT ![c] = O!Idle] /\ jar' = [jar EXCEPT ![cb[c].browser] = 0]
  BY DEF O!Ends
<1>3. /\ cb' \in [Callbacks -> {O!Idle} \cup O!Busy]
      /\ cb'[c] = O!Idle /\ \A d \in Callbacks \ {c} : cb'[d] = cb[d]
  BY <1>2 DEF OAuthInv, O!TypeOK
<1>4. SameFlows
  BY <1>3 DEF SameFlows
<1>5. Flows'
  BY <1>1, <1>2, <1>4, FlowsAnswered DEF OAuthInv
<1>6. QED
  BY <1>1, <1>2, <1>3, <1>5 DEF OAuthInv, O!TypeOK

LEMMA StartStep == ASSUME OAuthInv, O!Start PROVE OAuthInv'
<1>1. Flows'
  BY StartFlows DEF OAuthInv, Flows
<1>2. PICK b \in Browsers, p \in Providers :
        LET n == Cardinality(issued) + 1
        IN /\ n <= MaxFlows
           /\ jar' = [jar EXCEPT ![b] = n]
           /\ issued' = issued \cup {[nonce |-> n, provider |-> p, browser |-> b]}
           /\ UNCHANGED <<cb, lock, inserts, user, sessions, spent, changes, faults>>
  BY SameCardinality DEF O!Start
<1>3. Cardinality(issued) + 1 \in O!Nonces
  BY OAuthConstants, <1>2, FS_CardinalityType DEF OAuthInv, Flows, NumberedOK, O!Nonces, O!OAuthAssumption
<1>4. O!TypeOK'
  BY <1>2, <1>3 DEF OAuthInv, O!TypeOK
<1>5. InsertsOK' /\ AccountOK'
  BY <1>2 DEF OAuthInv, InsertsOK, AccountOK
<1>6. QED
  BY <1>1, <1>4, <1>5 DEF OAuthInv

LEMMA AcceptedStep == ASSUME OAuthInv, NEW c \in Callbacks, O!CallbackAccepted(c) PROVE OAuthInv'
<1>1. PICK t \in issued, b \in Browsers, p \in Providers :
        /\ O!Matches(t, p, b)
        /\ cb' = [cb EXCEPT ![c] =
                    [at |-> "exchanging", nonce |-> t.nonce, provider |-> p, browser |-> b]]
  BY DEF O!CallbackAccepted
<1>2. cb[c] = O!Idle /\ UNCHANGED <<jar, issued, lock, inserts, user, sessions, spent, changes, faults>>
  BY DEF O!CallbackAccepted
<1> DEFINE new == [at |-> "exchanging", nonce |-> t.nonce, provider |-> p, browser |-> b]
<1>3. t.nonce \in O!Nonces /\ jar[b] = t.nonce /\ t.nonce # 0
  BY <1>1 DEF OAuthInv, O!TypeOK, O!Matches, O!Nonces
<1>4. new \in O!Busy
  BY <1>3 DEF O!Busy
<1>5. /\ cb' \in [Callbacks -> {O!Idle} \cup O!Busy]
      /\ cb'[c] = new /\ \A d \in Callbacks \ {c} : cb'[d] = cb[d]
  BY <1>1, <1>4 DEF OAuthInv, O!TypeOK
<1>6. IssuedTo(issued, new.nonce, new.browser)
  BY <1>3 DEF OAuthInv, Flows, CookiesOK
<1>7. Flows'
  <2>1. CallbacksOK'
    BY <1>2, <1>5, <1>6 DEF OAuthInv, Flows, CallbacksOK
  <2>2. NumberedOK' /\ CookiesOK' /\ SpentOK'
    BY <1>2 DEF OAuthInv, Flows, NumberedOK, CookiesOK, SpentOK
  <2>3. QED
    BY <2>1, <2>2 DEF Flows
<1>8. O!TypeOK'
  BY <1>2, <1>5 DEF OAuthInv, O!TypeOK
<1>9. InsertsOK'
  BY <1>2, <1>5, IdleIsNotBusy DEF OAuthInv, InsertsOK, O!TypeOK
<1>10. AccountOK'
  BY <1>2, <1>5 DEF OAuthInv, AccountOK
<1>11. QED
  BY <1>7, <1>8, <1>9, <1>10 DEF OAuthInv

LEMMA RefusedStep == ASSUME OAuthInv, O!CallbackRefused PROVE OAuthInv'
<1>1. PICK b \in Browsers :
        jar[b] # 0 /\ spent' = spent \cup {jar[b]} /\ jar' = [jar EXCEPT ![b] = 0]
  BY DEF O!CallbackRefused
<1>2. UNCHANGED <<issued, cb, lock, inserts, user, sessions, changes, faults>>
  BY DEF O!CallbackRefused
<1>3. Flows'
  <2>1. IssuedTo(issued, jar[b], b)
    BY <1>1 DEF OAuthInv, Flows, CookiesOK
  <2>2. SameFlows
    BY <1>2 DEF SameFlows
  <2>3. QED
    BY <1>1, <1>2, <2>1, <2>2, FlowsAnswered DEF OAuthInv
<1>4. O!TypeOK'
  BY <1>1, <1>2 DEF OAuthInv, O!TypeOK
<1>5. InsertsOK' /\ AccountOK'
  BY <1>2 DEF OAuthInv, InsertsOK, AccountOK
<1>6. QED
  BY <1>3, <1>4, <1>5 DEF OAuthInv

LEMMA ExchangedStep == ASSUME OAuthInv, NEW c \in Callbacks, O!Exchanged(c) PROVE OAuthInv'
<1>1. cb[c].at = "exchanging" /\ O!Goes(c, "finding")
      /\ UNCHANGED <<jar, issued, lock, inserts, user, sessions, spent, changes, faults>>
  BY DEF O!Exchanged
<1>2. /\ Flows' /\ cb' \in [Callbacks -> {O!Idle} \cup O!Busy]
      /\ cb'[c].at = "finding" /\ \A d \in Callbacks \ {c} : cb'[d] = cb[d]
  BY <1>1, CallbacksMove
<1>3. O!TypeOK'
  BY <1>1, <1>2 DEF OAuthInv, O!TypeOK
<1>4. InsertsOK'
  BY <1>1, <1>2 DEF OAuthInv, InsertsOK, O!TypeOK
<1>5. AccountOK'
  BY <1>1, <1>2 DEF OAuthInv, AccountOK
<1>6. QED
  BY <1>2, <1>3, <1>4, <1>5 DEF OAuthInv

LEMMA ExchangeFailsStep ==
  ASSUME OAuthInv, NEW c \in Callbacks, O!ExchangeFails(c) PROVE OAuthInv'
<1>1. cb[c].at = "exchanging"
      /\ UNCHANGED <<issued, lock, inserts, user, sessions, changes, faults>>
  BY DEF O!ExchangeFails
<1>2. /\ Flows' /\ cb' \in [Callbacks -> {O!Idle} \cup O!Busy]
      /\ jar' \in [Browsers -> O!Nonces \cup {0}] /\ spent' \subseteq O!Nonces
      /\ cb'[c] = O!Idle /\ \A d \in Callbacks \ {c} : cb'[d] = cb[d]
  BY <1>1, CallbackEnds DEF O!ExchangeFails
<1>3. O!TypeOK'
  BY <1>1, <1>2 DEF OAuthInv, O!TypeOK
<1>4. InsertsOK'
  BY <1>1, <1>2 DEF OAuthInv, InsertsOK, O!TypeOK
<1>5. AccountOK'
  BY <1>1, <1>2, IdleIsNotBusy DEF OAuthInv, AccountOK
<1>6. QED
  BY <1>2, <1>3, <1>4, <1>5 DEF OAuthInv

\* Find: an insert is sent under a lock that was free, so no other is waited for.
LEMMA FindStep == ASSUME OAuthInv, NEW c \in Callbacks, O!Find(c) PROVE OAuthInv'
<1>1. cb[c].at = "finding" /\ lock = Nobody
      /\ UNCHANGED <<jar, issued, user, sessions, spent, changes, faults>>
  BY DEF O!Find
<1>2. inserts \subseteq {Nobody}
  BY OAuthConstants, <1>1 DEF OAuthInv, InsertsOK, O!TypeOK, O!OAuthAssumption
<1>3. CASE user = Nobody
  <2>1. O!Goes(c, "creating") /\ inserts' = inserts \cup {c} /\ lock' = c
    BY <1>3 DEF O!Find
  <2>2. /\ Flows' /\ cb' \in [Callbacks -> {O!Idle} \cup O!Busy]
        /\ cb'[c].at = "creating" /\ \A d \in Callbacks \ {c} : cb'[d] = cb[d]
    BY <1>1, <2>1, CallbacksMove
  <2>3. O!TypeOK'
    BY <1>1, <2>1, <2>2 DEF OAuthInv, O!TypeOK
  <2>4. InsertsOK'
    BY <1>2, <2>1, <2>2 DEF InsertsOK
  <2>5. AccountOK'
    BY <1>1, <2>2 DEF OAuthInv, AccountOK
  <2>6. QED
    BY <2>2, <2>3, <2>4, <2>5 DEF OAuthInv
<1>4. CASE user # Nobody
  <2>1. O!Found \in {"partial", "session"}
    BY DEF O!Found
  <2>2. O!Goes(c, O!Found) /\ UNCHANGED <<inserts, lock>>
    BY <1>4 DEF O!Find
  <2>3. /\ Flows' /\ cb' \in [Callbacks -> {O!Idle} \cup O!Busy]
        /\ cb'[c].at = O!Found /\ \A d \in Callbacks \ {c} : cb'[d] = cb[d]
    BY <1>1, <2>1, <2>2, CallbacksMove
  <2>4. O!TypeOK'
    BY <1>1, <2>2, <2>3 DEF OAuthInv, O!TypeOK
  <2>5. InsertsOK'
    BY <1>2, <2>2 DEF InsertsOK
  <2>6. AccountOK'
    BY <1>1, <1>4, <2>3 DEF OAuthInv, AccountOK
  <2>7. QED
    BY <2>3, <2>4, <2>5, <2>6 DEF OAuthInv
<1>5. QED
  BY <1>3, <1>4

LEMMA RowIsAccount ==
  ASSUME NEW by \in {"register", "callback", "dropped"}
  PROVE  /\ O!Row(by) \in O!Accounts /\ O!Row(by) # Nobody
         /\ O!Row(by).ver = 0 /\ O!Row(by).by = by
<1>1. 0 \in 0..MaxChanges
  BY OAuthConstants DEF O!OAuthAssumption
<1>2. O!Row(by) \in O!Accounts /\ O!Row(by).ver = 0 /\ O!Row(by).by = by
  BY <1>1 DEF O!Row, O!Accounts
<1>3. QED
  BY OAuthConstants, <1>2 DEF O!OAuthAssumption

\* Create: whoever it is for, the callback that waits holds the lock.
LEMMA CreateStep == ASSUME OAuthInv, O!Create PROVE OAuthInv'
<1>1. PICK c \in inserts :
        /\ inserts' = inserts \ {c} /\ user = Nobody
        /\ user' = O!Row(IF c = Nobody THEN "dropped" ELSE "callback")
        /\ IF c = Nobody THEN UNCHANGED cb ELSE O!Goes(c, "session")
        /\ lock' = IF lock = c THEN Nobody ELSE lock
        /\ UNCHANGED <<jar, issued, sessions, spent, changes, faults>>
  BY DEF O!Create
<1>2. user' \in O!Accounts /\ user' # Nobody /\ user'.ver = 0
  BY <1>1, RowIsAccount
<1>3. sessions' = {}
  BY <1>1 DEF OAuthInv, AccountOK
<1>4. lock' \in Callbacks \cup {Nobody} /\ inserts' \subseteq Callbacks \cup {Nobody}
  BY <1>1 DEF OAuthInv, O!TypeOK
<1>5. CASE c = Nobody
  <2>1. UNCHANGED cb /\ lock' = lock
    BY <1>1, <1>5
  <2>2. Flows'
    BY <1>1, <2>1, FlowsStand DEF OAuthInv, SameFlows
  <2>3. O!TypeOK'
    BY <1>1, <1>2, <1>4, <2>1 DEF OAuthInv, O!TypeOK
  <2>4. InsertsOK'
    BY <1>1, <2>1 DEF OAuthInv, InsertsOK
  <2>5. AccountOK'
    BY <1>1, <1>2, <1>3 DEF OAuthInv, AccountOK, O!TypeOK
  <2>6. QED
    BY <2>2, <2>3, <2>4, <2>5 DEF OAuthInv
<1>6. CASE c # Nobody
  <2>1. c \in Callbacks /\ lock = c /\ cb[c].at = "creating" /\ O!Goes(c, "session")
    BY <1>1, <1>6 DEF OAuthInv, InsertsOK, O!TypeOK
  <2>2. /\ Flows' /\ cb' \in [Callbacks -> {O!Idle} \cup O!Busy]
        /\ cb'[c].at = "session" /\ \A d \in Callbacks \ {c} : cb'[d] = cb[d]
    BY <1>1, <2>1, CallbacksMove
  <2>3. O!TypeOK'
    BY <1>1, <1>2, <1>4, <2>2 DEF OAuthInv, O!TypeOK
  <2>4. InsertsOK'
    BY <1>1, <2>1 DEF OAuthInv, InsertsOK
  <2>5. AccountOK'
    BY <1>1, <1>2, <1>3 DEF AccountOK, OAuthInv, O!TypeOK
  <2>6. QED
    BY <2>2, <2>3, <2>4, <2>5 DEF OAuthInv
<1>7. QED
  BY <1>5, <1>6

LEMMA CreateTakenStep == ASSUME OAuthInv, O!CreateTaken PROVE OAuthInv'
<1>1. PICK c \in inserts :
        /\ inserts' = inserts \ {c} /\ user # Nobody
        /\ lock' = IF lock = c THEN Nobody ELSE lock
        /\ IF c = Nobody
             THEN UNCHANGED <<cb, jar, spent>>
             ELSE O!Ends(c, cb[c].browser) /\ spent' = spent \cup {cb[c].nonce}
        /\ UNCHANGED <<issued, user, sessions, changes, faults>>
  BY DEF O!CreateTaken
<1>2. lock' \in Callbacks \cup {Nobody} /\ inserts' \subseteq Callbacks \cup {Nobody}
  BY <1>1 DEF OAuthInv, O!TypeOK
<1>3. CASE c = Nobody
  <2>1. UNCHANGED <<cb, jar, spent>> /\ lock' = lock
    BY <1>1, <1>3
  <2>2. Flows'
    BY <1>1, <2>1, FlowsStand DEF OAuthInv, SameFlows
  <2>3. O!TypeOK'
    BY <1>1, <1>2, <2>1 DEF OAuthInv, O!TypeOK
  <2>4. InsertsOK'
    BY <1>1, <2>1 DEF OAuthInv, InsertsOK
  <2>5. AccountOK'
    BY <1>1, <2>1 DEF OAuthInv, AccountOK
  <2>6. QED
    BY <2>2, <2>3, <2>4, <2>5 DEF OAuthInv
<1>4. CASE c # Nobody
  <2>1. c \in Callbacks /\ lock = c /\ cb[c].at = "creating"
    BY <1>1, <1>4 DEF OAuthInv, InsertsOK, O!TypeOK
  <2>2. /\ Flows' /\ cb' \in [Callbacks -> {O!Idle} \cup O!Busy]
        /\ jar' \in [Browsers -> O!Nonces \cup {0}] /\ spent' \subseteq O!Nonces
        /\ cb'[c] = O!Idle /\ \A d \in Callbacks \ {c} : cb'[d] = cb[d]
    BY <1>1, <1>4, <2>1, CallbackEnds
  <2>3. O!TypeOK'
    BY <1>1, <1>2, <2>2 DEF OAuthInv, O!TypeOK
  <2>4. InsertsOK'
    BY <1>1, <2>1 DEF OAuthInv, InsertsOK
  <2>5. AccountOK'
    BY <1>1, <2>2, IdleIsNotBusy DEF OAuthInv, AccountOK
  <2>6. QED
    BY <2>2, <2>3, <2>4, <2>5 DEF OAuthInv
<1>5. QED
  BY <1>3, <1>4

LEMMA PartialStep == ASSUME OAuthInv, NEW c \in Callbacks, O!GivePartial(c) PROVE OAuthInv'
<1>1. cb[c].at = "partial"
      /\ UNCHANGED <<issued, lock, inserts, user, sessions, changes, faults>>
  BY DEF O!GivePartial
<1>2. /\ Flows' /\ cb' \in [Callbacks -> {O!Idle} \cup O!Busy]
      /\ jar' \in [Browsers -> O!Nonces \cup {0}] /\ spent' \subseteq O!Nonces
      /\ cb'[c] = O!Idle /\ \A d \in Callbacks \ {c} : cb'[d] = cb[d]
  BY <1>1, CallbackEnds DEF O!GivePartial
<1>3. O!TypeOK'
  BY <1>1, <1>2 DEF OAuthInv, O!TypeOK
<1>4. InsertsOK'
  BY <1>1, <1>2 DEF OAuthInv, InsertsOK, O!TypeOK
<1>5. AccountOK'
  BY <1>1, <1>2, IdleIsNotBusy DEF OAuthInv, AccountOK
<1>6. QED
  BY <1>2, <1>3, <1>4, <1>5 DEF OAuthInv

LEMMA SessionStep == ASSUME OAuthInv, NEW c \in Callbacks, O!GiveSession(c) PROVE OAuthInv'
<1>1. /\ cb[c].at = "session"
      /\ sessions' = sessions \cup {[ver |-> user.ver, overtaken |-> user.totp]}
      /\ UNCHANGED <<issued, lock, inserts, user, changes, faults>>
  BY DEF O!GiveSession
<1>2. /\ Flows' /\ cb' \in [Callbacks -> {O!Idle} \cup O!Busy]
      /\ jar' \in [Browsers -> O!Nonces \cup {0}] /\ spent' \subseteq O!Nonces
      /\ cb'[c] = O!Idle /\ \A d \in Callbacks \ {c} : cb'[d] = cb[d]
  BY <1>1, CallbackEnds DEF O!GiveSession
<1>3. user # Nobody /\ user \in O!Accounts
  BY <1>1 DEF OAuthInv, AccountOK, O!TypeOK
<1>4. user.ver \in 0..MaxChanges /\ user.totp \in BOOLEAN /\ user.ver <= user.ver
  BY <1>3 DEF O!Accounts
<1>5. O!TypeOK'
  BY <1>1, <1>2, <1>4 DEF OAuthInv, O!TypeOK
<1>6. InsertsOK'
  BY <1>1, <1>2 DEF OAuthInv, InsertsOK, O!TypeOK
<1>7. AccountOK'
  BY <1>1, <1>2, <1>3, <1>4, IdleIsNotBusy DEF OAuthInv, AccountOK
<1>8. QED
  BY <1>2, <1>5, <1>6, <1>7 DEF OAuthInv

-----------------------------------------------------------------------------
(* The account's own steps, and the world's                                  *)

LEMMA RegisterStep == ASSUME OAuthInv, O!Register PROVE OAuthInv'
<1>1. user = Nobody /\ user' = O!Row("register")
      /\ UNCHANGED <<jar, issued, cb, lock, inserts, sessions, spent, changes, faults>>
  BY DEF O!Register
<1>2. user' \in O!Accounts /\ user' # Nobody /\ user'.ver = 0
  BY <1>1, RowIsAccount
<1>3. Flows'
  BY <1>1, FlowsStand DEF OAuthInv, SameFlows
<1>4. O!TypeOK'
  BY <1>1, <1>2 DEF OAuthInv, O!TypeOK
<1>5. InsertsOK'
  BY <1>1 DEF OAuthInv, InsertsOK
<1>6. AccountOK'
  <2>1. sessions' = {} /\ user'.ver <= changes'
    BY <1>1, <1>2 DEF OAuthInv, AccountOK, O!TypeOK
  <2>2. QED
    BY <1>2, <2>1 DEF AccountOK
<1>7. QED
  BY <1>3, <1>4, <1>5, <1>6 DEF OAuthInv

\* A version goes up with every change, so there are no more versions than changes.
LEMMA Changed ==
  ASSUME OAuthInv, user # Nobody, changes < MaxChanges, changes' = changes + 1,
         NEW t \in BOOLEAN, user' = [user EXCEPT !.totp = t, !.ver = @ + 1],
         UNCHANGED <<jar, issued, cb, lock, inserts, sessions, spent, faults>>
  PROVE  OAuthInv' /\ user'.by = user.by /\ user'.ver = user.ver + 1
<1>1. user \in O!Accounts /\ user.ver \in 0..MaxChanges /\ user.ver <= changes
  BY DEF OAuthInv, O!TypeOK, AccountOK, O!Accounts
<1>2. changes \in 0..MaxChanges /\ MaxChanges \in Nat
  BY OAuthConstants DEF OAuthInv, O!TypeOK, O!OAuthAssumption
<1>3. user.ver + 1 \in 0..MaxChanges /\ changes' \in 0..MaxChanges /\ user.ver + 1 <= changes'
  BY <1>1, <1>2
<1>4. /\ user' \in O!Accounts /\ user'.by = user.by /\ user'.ver = user.ver + 1
  BY <1>1, <1>3 DEF O!Accounts
<1>5. user' # Nobody
  BY OAuthConstants, <1>4 DEF O!OAuthAssumption
<1>6. Flows'
  BY FlowsStand DEF OAuthInv, SameFlows
<1>7. O!TypeOK'
  BY <1>3, <1>4 DEF OAuthInv, O!TypeOK
<1>8. InsertsOK'
  BY DEF OAuthInv, InsertsOK
<1>9. AccountOK'
  <2>1. \A s \in sessions : s.ver \in 0..MaxChanges /\ s.ver <= user.ver
    BY DEF OAuthInv, AccountOK, O!TypeOK
  <2>2. \A s \in sessions : s.ver <= user'.ver
    BY <1>1, <1>4, <2>1
  <2>3. QED
    BY <1>3, <1>4, <1>5, <2>2 DEF OAuthInv, AccountOK
<1>10. QED
  BY <1>4, <1>6, <1>7, <1>8, <1>9 DEF OAuthInv

LEMMA TurnFactorStep ==
  ASSUME OAuthInv, O!TurnFactor
  PROVE  OAuthInv' /\ user'.by = user.by /\ user'.ver = user.ver + 1
<1>1. user \in O!Accounts
  BY DEF O!TurnFactor, OAuthInv, O!TypeOK
<1>2. (~user.totp) \in BOOLEAN
  BY <1>1 DEF O!Accounts
<1>3. user' = [user EXCEPT !.totp = ~user.totp, !.ver = @ + 1]
  BY DEF O!TurnFactor
<1>4. QED
  BY <1>2, <1>3, Changed DEF O!TurnFactor

LEMMA ChangePasswordStep ==
  ASSUME OAuthInv, O!ChangePassword
  PROVE  OAuthInv' /\ user'.by = user.by /\ user'.ver = user.ver + 1
<1>1. user \in O!Accounts
  BY DEF O!ChangePassword, OAuthInv, O!TypeOK
<1>2. user.totp \in BOOLEAN
  BY <1>1 DEF O!Accounts
<1>3. [user EXCEPT !.ver = @ + 1] = [user EXCEPT !.totp = user.totp, !.ver = @ + 1]
  BY <1>1 DEF O!Accounts
<1>4. QED
  BY <1>2, <1>3, Changed DEF O!ChangePassword

\* Disconnect: the guard goes with the handler, and its insert is nobody's from then on.
LEMMA DisconnectStep == ASSUME OAuthInv, NEW c \in Callbacks, O!Disconnect(c) PROVE OAuthInv'
<1>1. /\ cb' = [cb EXCEPT ![c] = O!Idle] /\ lock' = IF lock = c THEN Nobody ELSE lock
      /\ inserts' = IF c \in inserts THEN (inserts \ {c}) \cup {Nobody} ELSE inserts
      /\ faults < MaxFaults /\ faults' = faults + 1
      /\ UNCHANGED <<jar, issued, user, sessions, spent, changes>>
  BY DEF O!Disconnect
<1>2. /\ cb' \in [Callbacks -> {O!Idle} \cup O!Busy]
      /\ cb'[c] = O!Idle /\ \A d \in Callbacks \ {c} : cb'[d] = cb[d]
  BY <1>1 DEF OAuthInv, O!TypeOK
<1>3. Flows'
  <2>1. SameFlows
    BY <1>2 DEF SameFlows
  <2>2. QED
    BY <1>1, <2>1, FlowsStand DEF OAuthInv
<1>4. O!TypeOK'
  <2>1. faults' \in 0..MaxFaults
    BY OAuthConstants, <1>1 DEF OAuthInv, O!TypeOK, O!OAuthAssumption
  <2>2. lock' \in Callbacks \cup {Nobody} /\ inserts' \subseteq Callbacks \cup {Nobody}
    BY <1>1 DEF OAuthInv, O!TypeOK
  <2>3. QED
    BY <1>1, <1>2, <2>1, <2>2 DEF OAuthInv, O!TypeOK
<1>5. InsertsOK'
  <2>1. SUFFICES ASSUME NEW d \in inserts' \ {Nobody} PROVE lock' = d /\ cb'[d].at = "creating"
    BY DEF InsertsOK
  <2>2. d \in inserts /\ d # c
    BY <1>1, <2>1
  <2>3. lock = d /\ cb[d].at = "creating" /\ d \in Callbacks
    BY <2>1, <2>2 DEF OAuthInv, InsertsOK, O!TypeOK
  <2>4. QED
    BY <1>1, <1>2, <2>2, <2>3
<1>6. AccountOK'
  BY <1>1, <1>2, IdleIsNotBusy DEF OAuthInv, AccountOK
<1>7. QED
  BY <1>3, <1>4, <1>5, <1>6 DEF OAuthInv

LEMMA RestartStep == ASSUME OAuthInv, O!Restart PROVE OAuthInv'
<1>1. /\ cb' = [c \in Callbacks |-> O!Idle] /\ lock' = Nobody /\ inserts' = {}
      /\ faults < MaxFaults /\ faults' = faults + 1
      /\ UNCHANGED <<jar, issued, user, sessions, spent, changes>>
  BY DEF O!Restart
<1>2. \A c \in Callbacks : cb'[c] = O!Idle
  BY <1>1
<1>3. Flows'
  BY <1>1, <1>2, FlowsStand DEF OAuthInv, SameFlows
<1>4. O!TypeOK'
  <2>1. faults' \in 0..MaxFaults
    BY OAuthConstants, <1>1 DEF OAuthInv, O!TypeOK, O!OAuthAssumption
  <2>2. QED
    BY <1>1, <2>1 DEF OAuthInv, O!TypeOK
<1>5. InsertsOK' /\ AccountOK'
  BY <1>1, <1>2, IdleIsNotBusy DEF OAuthInv, InsertsOK, AccountOK
<1>6. QED
  BY <1>3, <1>4, <1>5 DEF OAuthInv

LEMMA StandsStill == ASSUME OAuthInv, UNCHANGED O!vars PROVE OAuthInv'
<1>1. UNCHANGED <<jar, issued, cb, lock, inserts, user, sessions, spent, changes, faults>>
  BY DEF O!vars
<1>2. Flows'
  BY <1>1, FlowsStand DEF OAuthInv, SameFlows
<1>3. O!TypeOK' /\ InsertsOK' /\ AccountOK'
  BY <1>1 DEF OAuthInv, O!TypeOK, InsertsOK, AccountOK
<1>4. QED
  BY <1>2, <1>3 DEF OAuthInv

LEMMA OAuthStep == OAuthInv /\ [O!Next]_(O!vars) => OAuthInv'
<1> SUFFICES ASSUME OAuthInv, [O!Next]_(O!vars) PROVE OAuthInv'
  OBVIOUS
<1>1. CASE O!Start
  BY <1>1, StartStep
<1>2. CASE O!CallbackRefused
  BY <1>2, RefusedStep
<1>3. CASE O!Create
  BY <1>3, CreateStep
<1>4. CASE O!CreateTaken
  BY <1>4, CreateTakenStep
<1>5. ASSUME NEW c \in Callbacks, O!CallbackAccepted(c) PROVE OAuthInv'
  BY <1>5, AcceptedStep
<1>6. ASSUME NEW c \in Callbacks, O!Exchanged(c) PROVE OAuthInv'
  BY <1>6, ExchangedStep
<1>7. ASSUME NEW c \in Callbacks, O!ExchangeFails(c) PROVE OAuthInv'
  BY <1>7, ExchangeFailsStep
<1>8. ASSUME NEW c \in Callbacks, O!Find(c) PROVE OAuthInv'
  BY <1>8, FindStep
<1>9. ASSUME NEW c \in Callbacks, O!GivePartial(c) PROVE OAuthInv'
  BY <1>9, PartialStep
<1>10. ASSUME NEW c \in Callbacks, O!GiveSession(c) PROVE OAuthInv'
  BY <1>10, SessionStep
<1>11. ASSUME NEW c \in Callbacks, O!Disconnect(c) PROVE OAuthInv'
  BY <1>11, DisconnectStep
<1>12. CASE O!Register
  BY <1>12, RegisterStep
<1>13. CASE O!TurnFactor
  BY <1>13, TurnFactorStep
<1>14. CASE O!ChangePassword
  BY <1>14, ChangePasswordStep
<1>15. CASE O!Restart
  BY <1>15, RestartStep
<1>16. CASE UNCHANGED O!vars
  BY <1>16, StandsStill
<1>17. QED
  BY <1>1, <1>2, <1>3, <1>4, <1>5, <1>6, <1>7, <1>8, <1>9, <1>10, <1>11, <1>12, <1>13,
     <1>14, <1>15, <1>16 DEF O!Next

LEMMA OAuthInvariant == O!Spec => []OAuthInv
<1>1. O!Init => OAuthInv
  BY OAuthInit
<1>2. OAuthInv /\ [O!Next]_(O!vars) => OAuthInv'
  BY OAuthStep
<1>3. QED
  BY <1>1, <1>2, PTL DEF O!Spec

-----------------------------------------------------------------------------
(* What it all comes to                                                      *)

\* Type correctness, for any browsers, callbacks and bounds: a nonce is a flow's number and
\* a session's version one the account had (start, callback).
THEOREM OAuthTypes == O!Spec => []O!TypeOK
<1>1. OAuthInv => O!TypeOK
  BY DEF OAuthInv
<1>2. QED
  BY <1>1, OAuthInvariant, PTL

LEMMA AgreeStep == OAuthInv /\ O!CallbacksAgree /\ [O!Next]_(O!vars) => O!CallbacksAgree'
<1> SUFFICES ASSUME OAuthInv, O!CallbacksAgree, [O!Next]_(O!vars),
                    NEW d \in inserts' \ {Nobody}, user' # Nobody
             PROVE  user'.by # "callback"
  BY DEF O!CallbacksAgree
<1>1. ASSUME d \in inserts, user # Nobody, user' = user PROVE user'.by # "callback"
  BY <1>1 DEF O!CallbacksAgree
<1>2. CASE O!Create
  <2>1. PICK c \in inserts : /\ inserts' = inserts \ {c}
                            /\ user' = O!Row(IF c = Nobody THEN "dropped" ELSE "callback")
    BY <1>2 DEF O!Create
  <2>2. c = Nobody
    BY <2>1 DEF OAuthInv, InsertsOK
  <2>3. QED
    BY <2>1, <2>2, RowIsAccount
<1>3. CASE O!CreateTaken
  BY <1>1, <1>3 DEF O!CreateTaken
<1>4. ASSUME NEW c \in Callbacks, O!Find(c) PROVE user'.by # "callback"
  BY <1>1, <1>4 DEF O!Find
<1>5. ASSUME NEW c \in Callbacks, O!Disconnect(c) PROVE user'.by # "callback"
  BY <1>1, <1>5 DEF O!Disconnect
<1>6. CASE O!Register
  BY <1>6, RowIsAccount DEF O!Register
<1>7. CASE O!TurnFactor
  BY <1>7, TurnFactorStep DEF O!TurnFactor, O!CallbacksAgree
<1>8. CASE O!ChangePassword
  BY <1>8, ChangePasswordStep DEF O!ChangePassword, O!CallbacksAgree
<1>9. CASE O!Restart
  BY <1>9 DEF O!Restart
<1>10. ASSUME UNCHANGED <<inserts, user>> PROVE user'.by # "callback"
  BY <1>1, <1>10
<1>11. QED
  BY <1>2, <1>3, <1>4, <1>5, <1>6, <1>7, <1>8, <1>9, <1>10
     DEF O!Next, O!Start, O!CallbackRefused, O!CallbackAccepted, O!Exchanged, O!ExchangeFails, O!GivePartial,
         O!GiveSession, O!vars

\* Of two callbacks for a new address none fails because of the other, however many there
\* are, whoever leaves and whatever else happens to the account (callback, whose guard of
\* the readers' lock lives through create_oauth_user).
THEOREM CallbacksDoAgree == O!Spec => []CallbacksAgree
<1>1. O!Init => O!CallbacksAgree
  BY DEF O!Init, O!CallbacksAgree
<1>2. OAuthInv /\ O!CallbacksAgree /\ [O!Next]_(O!vars) => O!CallbacksAgree'
  BY AgreeStep
<1>3. O!CallbacksAgree => CallbacksAgree
  BY DEF CallbacksAgree
<1>4. QED
  BY <1>1, <1>2, <1>3, OAuthInvariant, PTL DEF O!Spec

LEMMA FactorStep == OAuthInv /\ O!FactorStands /\ [O!Next]_(O!vars) => O!FactorStands'
<1> SUFFICES ASSUME OAuthInv, O!FactorStands, [O!Next]_(O!vars), user' # Nobody,
                    NEW s \in sessions', user'.totp, s.ver = user'.ver
             PROVE  s.overtaken
  BY DEF O!FactorStands
<1>1. ASSUME s \in sessions, user' = user PROVE s.overtaken
  BY <1>1 DEF O!FactorStands
<1>2. ASSUME s \in sessions, user # Nobody, user'.ver = user.ver + 1 PROVE FALSE
  <2>1. s.ver <= user.ver /\ user.ver \in Nat
    BY <1>2 DEF OAuthInv, AccountOK, O!TypeOK, O!Accounts
  <2>2. QED
    BY <1>2, <2>1
<1>3. CASE O!Create
  BY <1>3 DEF O!Create, OAuthInv, AccountOK
<1>4. ASSUME NEW c \in Callbacks, O!GiveSession(c) PROVE s.overtaken
  BY <1>1, <1>4 DEF O!GiveSession
<1>5. CASE O!Register
  BY <1>5 DEF O!Register, OAuthInv, AccountOK
<1>6. CASE O!TurnFactor
  BY <1>2, <1>6, TurnFactorStep DEF O!TurnFactor
<1>7. CASE O!ChangePassword
  BY <1>2, <1>7, ChangePasswordStep DEF O!ChangePassword
<1>8. ASSUME UNCHANGED <<sessions, user>> PROVE s.overtaken
  BY <1>1, <1>8
<1>9. QED
  BY <1>3, <1>4, <1>5, <1>6, <1>7, <1>8
     DEF O!Next, O!Start, O!CallbackRefused, O!CallbackAccepted, O!Exchanged, O!ExchangeFails, O!Find,
         O!CreateTaken, O!GivePartial, O!Disconnect, O!Restart, O!vars

\* No session of this path that is still good stands for an account with a second factor,
\* but one whose callback had looked for the row before the factor was turned on, whatever
\* the number of changes (callback, enable_totp, disable_totp, update_password_hash).
THEOREM FactorDoesStand == O!Spec => []FactorStands
<1>1. O!Init => O!FactorStands
  BY DEF O!Init, O!FactorStands
<1>2. OAuthInv /\ O!FactorStands /\ [O!Next]_(O!vars) => O!FactorStands'
  BY FactorStep
<1>3. O!FactorStands => FactorStands
  BY DEF FactorStands
<1>4. QED
  BY <1>1, <1>2, <1>3, OAuthInvariant, PTL DEF O!Spec

\* A callback gets past its state only in the browser its flow was begun in, for the same
\* provider, and never with a nonce that was answered: for any number of flows begun in any
\* number of browsers (verify_state, nonces_match, callback).
THEOREM NoncesAreSpent == O!Spec => NonceIsSpent
<1> DEFINE Past(c) ==
      cb[c] = O!Idle /\ cb'[c] # O!Idle =>
         /\ cb'[c].nonce \notin spent
         /\ \E t \in issued : /\ t.nonce = cb'[c].nonce
                              /\ t.browser = cb'[c].browser
                              /\ t.provider = cb'[c].provider
<1>1. ASSUME OAuthInv, NEW c \in Callbacks, O!CallbackAccepted(c) PROVE Past(c)
  <2>1. PICK t \in issued, b \in Browsers, p \in Providers :
          /\ O!Matches(t, p, b)
          /\ cb' = [cb EXCEPT ![c] =
                      [at |-> "exchanging", nonce |-> t.nonce, provider |-> p, browser |-> b]]
    BY <1>1 DEF O!CallbackAccepted
  <2>2. /\ cb'[c].nonce = t.nonce /\ cb'[c].browser = b /\ cb'[c].provider = p
    BY <1>1, <2>1 DEF OAuthInv, O!TypeOK
  <2>3. jar[b] = t.nonce /\ jar[b] # 0 /\ t.provider = p
    BY <1>1, <2>1 DEF OAuthInv, O!TypeOK, O!Matches, O!Nonces
  <2>4. t.nonce \notin spent /\ IssuedTo(issued, t.nonce, b)
    BY <1>1, <2>3 DEF OAuthInv, Flows, CookiesOK
  <2>5. t.browser = b
    BY <1>1, <2>4 DEF OAuthInv, Flows, NumberedOK, IssuedTo
  <2>6. QED
    BY <2>2, <2>3, <2>4, <2>5
<1>2. ASSUME OAuthInv, NEW c \in Callbacks, NEW d \in Callbacks, c # d, O!CallbackAccepted(d) PROVE cb'[c] = cb[c]
  <2>1. PICK new : cb' = [cb EXCEPT ![d] = new]
    BY <1>2 DEF O!CallbackAccepted
  <2>2. QED
    BY <1>2, <2>1 DEF OAuthInv, O!TypeOK
<1>3. ASSUME OAuthInv, [O!Next]_(O!vars), ~\E d \in Callbacks : O!CallbackAccepted(d)
      PROVE  SameFlows
  <2>1. ASSUME UNCHANGED cb PROVE SameFlows
    BY <2>1 DEF SameFlows
  <2>2. ASSUME cb' = [d \in Callbacks |-> O!Idle] PROVE SameFlows
    BY <2>2 DEF SameFlows
  <2>3. ASSUME NEW d \in Callbacks, cb' = [cb EXCEPT ![d] = O!Idle] PROVE SameFlows
    BY <1>3, <2>3 DEF SameFlows, OAuthInv, O!TypeOK
  <2>4. ASSUME NEW d \in Callbacks, cb[d].at # "idle",
               NEW w \in {"exchanging", "finding", "creating", "partial", "session"}, O!Goes(d, w)
        PROVE  SameFlows
    BY <1>3, <2>4, GoesSame, BusyFields DEF OAuthInv
  <2>5. CASE O!Start \/ O!CallbackRefused \/ O!Register \/ O!TurnFactor \/ O!ChangePassword \/ UNCHANGED O!vars
    BY <2>1, <2>5 DEF O!Start, O!CallbackRefused, O!Register, O!TurnFactor, O!ChangePassword, O!vars
  <2>6. CASE O!Restart
    BY <2>2, <2>6 DEF O!Restart
  <2>7. CASE O!Create
    BY <1>3, <2>1, <2>4, <2>7 DEF O!Create, OAuthInv, InsertsOK, O!TypeOK
  <2>8. CASE O!CreateTaken
    BY <1>3, <2>1, <2>3, <2>8 DEF O!CreateTaken, O!Ends, OAuthInv, InsertsOK, O!TypeOK
  <2>9. ASSUME NEW d \in Callbacks, O!Exchanged(d) PROVE SameFlows
    BY <2>4, <2>9 DEF O!Exchanged
  <2>10. ASSUME NEW d \in Callbacks, O!Find(d) PROVE SameFlows
    BY <2>4, <2>10 DEF O!Find, O!Found
  <2>11. ASSUME NEW d \in Callbacks, O!ExchangeFails(d) \/ O!GivePartial(d) \/ O!GiveSession(d) \/ O!Disconnect(d)
         PROVE  SameFlows
    BY <2>3, <2>11 DEF O!ExchangeFails, O!GivePartial, O!GiveSession, O!Disconnect, O!Ends
  <2>12. QED
    BY <1>3, <2>5, <2>6, <2>7, <2>8, <2>9, <2>10, <2>11 DEF O!Next
<1>4. OAuthInv /\ [O!Next]_(O!vars) => [\A c \in Callbacks : Past(c)]_(O!vars)
  <2> SUFFICES ASSUME OAuthInv, [O!Next]_(O!vars), NEW c \in Callbacks PROVE Past(c)
    OBVIOUS
  <2>1. CASE \E d \in Callbacks : O!CallbackAccepted(d)
    BY <1>1, <1>2, <2>1
  <2>2. CASE ~\E d \in Callbacks : O!CallbackAccepted(d)
    BY <1>3, <2>2 DEF SameFlows
  <2>3. QED
    BY <2>1, <2>2
<1>5. OAuthInv /\ [O!Next]_(O!vars) => [\A c \in Callbacks : Past(c)]_(O!vars)
  BY <1>4
<1>6. QED
  BY <1>5, OAuthInvariant, PTL DEF O!Spec, NonceIsSpent, O!NonceIsSpent
-----------------------------------------------------------------------------
(* The back off: what was weighed since the clock moved, by where the row of *)
(* failures stands. While a block lasts the requests that are still being     *)
(* hashed count as weighed; a delay that was lost lets as many in again.      *)

Batch == Cardinality(Tasks) + 1

HashedIn(f) == {t \in Tasks : f[t] = "hashing"}

Hashing == HashedIn(task)

LostIn(c) == {n \in FreeAttempts + 1..c : ~(BackoffSecs(n) > 0)}

Weighed(c, blocked, hashing) ==
  IF blocked
    THEN /\ c > FreeAttempts
         /\ spree + hashing <= FreeAttempts + (Cardinality(LostIn(c)) + 1) * Batch
    ELSE IF c > FreeAttempts
           THEN spree <= FreeAttempts + Cardinality(LostIn(c)) * Batch
           ELSE spree <= c

BackoffTypes ==
  /\ factor \in BOOLEAN
  /\ consecutive \in 0..MaxFailures
  /\ task \in [Tasks -> {"idle", "hashing"}]
  /\ spree \in Nat

BackoffInv == BackoffTypes /\ Weighed(consecutive, Blocked, Cardinality(Hashing))

\* The failures that start no block by their rule, and the one that always does.
LEMMA DelayOf ==
  /\ \A n \in 0..FreeAttempts : BackoffSecs(n) = 0
  /\ BackoffSecs(MaxFailures) > 0
<1> USE LoginBackoffAssumption
<1>1. \A n \in 0..FreeAttempts : BackoffSecs(n) = 0
  BY DEF BackoffSecs
<1>2. MaxFailures - FreeAttempts - 1 >= WordBits /\ ~(MaxFailures <= FreeAttempts)
  OBVIOUS
<1>3. BackoffSecs(MaxFailures) = MaxDelay
  BY <1>2, Zenon DEF BackoffSecs
<1>4. QED
  BY <1>1, <1>3

\* What one more failure adds to the lost ones.
LEMMA LostGrows ==
  ASSUME NEW c \in Nat, c >= FreeAttempts
  PROVE  /\ Cardinality(LostIn(c)) \in Nat
         /\ BackoffSecs(c + 1) > 0 => LostIn(c + 1) = LostIn(c)
         /\ ~(BackoffSecs(c + 1) > 0) => Cardinality(LostIn(c + 1)) = Cardinality(LostIn(c)) + 1
<1> USE LoginBackoffAssumption
<1>1. IsFiniteSet(LostIn(c))
  <2>1. LostIn(c) \subseteq FreeAttempts + 1..c
    BY DEF LostIn
  <2>2. IsFiniteSet(FreeAttempts + 1..c)
    BY FS_Interval
  <2>3. QED
    BY <2>1, <2>2, FS_Subset
<1>2. FreeAttempts + 1..c + 1 = (FreeAttempts + 1..c) \cup {c + 1} /\ c + 1 \notin FreeAttempts + 1..c
  OBVIOUS
<1>3. c + 1 \notin LostIn(c)
  BY <1>2 DEF LostIn
<1>4. BackoffSecs(c + 1) > 0 => LostIn(c + 1) = LostIn(c)
  BY <1>2, Zenon DEF LostIn
<1>5. ~(BackoffSecs(c + 1) > 0) => LostIn(c + 1) = LostIn(c) \cup {c + 1}
  BY <1>2, Zenon DEF LostIn
<1>6. QED
  BY <1>1, <1>3, <1>4, <1>5, FS_AddElement, FS_CardinalityType

LEMMA LostNat == \A c \in Nat : Cardinality(LostIn(c)) \in Nat
<1> SUFFICES ASSUME NEW c \in Nat PROVE Cardinality(LostIn(c)) \in Nat
  OBVIOUS
<1>1. LostIn(c) \subseteq FreeAttempts + 1..c
  BY DEF LostIn
<1>2. IsFiniteSet(FreeAttempts + 1..c)
  BY LoginBackoffAssumption, FS_Interval
<1>3. QED
  BY <1>1, <1>2, FS_Subset, FS_CardinalityType

\* Who is being hashed, and one less.
LEMMA HashingCounted ==
  ASSUME NEW f \in [Tasks -> {"idle", "hashing"}]
  PROVE  /\ Cardinality(HashedIn(f)) \in 0..Cardinality(Tasks) /\ Cardinality(Tasks) \in Nat
         /\ \A t \in Tasks : f[t] = "hashing" =>
              /\ Cardinality(HashedIn(f)) > 0
              /\ Cardinality(HashedIn(f) \ {t}) = Cardinality(HashedIn(f)) - 1
<1>1. IsFiniteSet(Tasks) /\ HashedIn(f) \subseteq Tasks
  BY LoginBackoffAssumption DEF HashedIn
<1>2. IsFiniteSet(HashedIn(f)) /\ Cardinality(HashedIn(f)) <= Cardinality(Tasks)
  BY <1>1, FS_Subset
<1>3. Cardinality(Tasks) \in Nat /\ Cardinality(HashedIn(f)) \in Nat
  BY <1>1, <1>2, FS_CardinalityType
<1>4. ASSUME NEW t \in Tasks, f[t] = "hashing"
      PROVE  /\ Cardinality(HashedIn(f)) > 0
             /\ Cardinality(HashedIn(f) \ {t}) = Cardinality(HashedIn(f)) - 1
  <2>1. t \in HashedIn(f)
    BY <1>4 DEF HashedIn
  <2>2. Cardinality(HashedIn(f) \ {t}) = Cardinality(HashedIn(f)) - 1
    BY <1>2, <2>1, FS_RemoveElement
  <2>3. Cardinality(HashedIn(f)) # 0
    BY <1>2, <2>1, FS_EmptySet
  <2>4. QED
    BY <1>3, <2>2, <2>3
<1>5. QED
  BY <1>2, <1>3, <1>4

\* A failure that is recorded, when the requests being hashed are no more than before,
\* and one less in a block.
LEMMA FailureWeighed ==
  ASSUME BackoffInv, RecordFailure,
         Cardinality(Hashing') \in 0..Cardinality(Tasks),
         Blocked => Cardinality(Hashing') = Cardinality(Hashing) - 1
  PROVE  /\ consecutive' \in 0..MaxFailures /\ spree' \in Nat
         /\ Weighed(consecutive, Blocked, Cardinality(Hashing))'
<1> USE LoginBackoffAssumption
<1> DEFINE c == consecutive
           d == consecutive'
           T == Cardinality(Tasks)
           L == Cardinality(LostIn(c))
           M == Cardinality(LostIn(d))
<1>1. c \in 0..MaxFailures /\ spree \in Nat /\ spree' = spree + 1 /\ d = (IF c < MaxFailures THEN c + 1 ELSE MaxFailures)
  BY DEF BackoffInv, BackoffTypes, RecordFailure
<1>2. Blocked' <=> BackoffSecs(d) > 0
  BY Zenon DEF RecordFailure, Blocked
<1>3. d \in 0..MaxFailures /\ spree' \in Nat /\ d > 0
  BY <1>1
<1>4. L \in Nat /\ M \in Nat /\ T \in Nat
  <2>1. c \in Nat /\ d \in Nat
    BY <1>1, <1>3
  <2>2. QED
    BY <2>1, LostNat, FS_CardinalityType
<1>5. Batch = T + 1 /\ (L + 1) * Batch = L * Batch + Batch /\ (M + 1) * Batch = M * Batch + Batch
      /\ L * Batch \in Nat /\ M * Batch \in Nat
  BY <1>4 DEF Batch
<1>6. Cardinality(Hashing) \in 0..T
  BY HashingCounted DEF BackoffInv, BackoffTypes, Hashing
<1>7. CASE d <= FreeAttempts
  <2>1. ~Blocked' /\ ~Blocked
    <3>1. BackoffSecs(d) = 0
      BY <1>3, <1>7, DelayOf
    <3>2. ~Blocked'
      BY <1>2, <3>1
    <3>3. ~(c > FreeAttempts)
      BY <1>1, <1>7
    <3>4. QED
      BY <3>2, <3>3 DEF BackoffInv, Weighed
  <2>2. spree <= c /\ d = c + 1
    BY <1>1, <1>7, <2>1 DEF BackoffInv, Weighed
  <2>3. spree' <= d
    BY <1>1, <2>2
  <2>4. QED
    BY <1>3, <1>7, <2>1, <2>3 DEF Weighed
<1>8. CASE d > FreeAttempts
  <2>1. /\ Blocked' => M = L
        /\ ~Blocked' => M = L + 1 /\ d = c + 1
        /\ c >= FreeAttempts
    <3>1. c >= FreeAttempts
      BY <1>1, <1>8
    <3>2. CASE d = c + 1
      <4>1. /\ BackoffSecs(d) > 0 => LostIn(d) = LostIn(c)
            /\ ~(BackoffSecs(d) > 0) => M = L + 1
        BY <1>1, <3>1, <3>2, LostGrows
      <4>2. QED
        BY <1>2, <3>1, <3>2, <4>1
    <3>3. CASE d # c + 1
      <4>1. d = MaxFailures /\ c = MaxFailures
        BY <1>1, <3>3
      <4>2. Blocked'
        BY <1>2, <4>1, DelayOf
      <4>3. QED
        BY <3>1, <4>1, <4>2
    <3>4. QED
      BY <3>2, <3>3
  <2>2. /\ Blocked => spree + Cardinality(Hashing) <= FreeAttempts + (L + 1) * Batch
        /\ ~Blocked => spree <= FreeAttempts + L * Batch
    <3>1. CASE c > FreeAttempts
      BY <3>1 DEF BackoffInv, Weighed
    <3>2. CASE ~(c > FreeAttempts)
      BY <1>1, <1>5, <3>2 DEF BackoffInv, Weighed
    <3>3. QED
      BY <3>1, <3>2
  <2>3. Blocked' => spree' + Cardinality(Hashing') <= FreeAttempts + (M + 1) * Batch
    BY <1>1, <1>4, <1>5, <1>6, <2>1, <2>2
  <2>4. ~Blocked' => spree' <= FreeAttempts + M * Batch
    BY <1>1, <1>4, <1>5, <1>6, <2>1, <2>2
  <2>5. QED
    BY <1>3, <1>8, <2>3, <2>4 DEF Weighed
<1>9. QED
  BY <1>3, <1>7, <1>8

LEMMA BackoffInit == Init => BackoffInv
<1> SUFFICES ASSUME Init PROVE BackoffInv
  OBVIOUS
<1>1. BackoffTypes
  BY LoginBackoffAssumption DEF Init, BackoffTypes
<1>2. ~Blocked /\ ~(consecutive > FreeAttempts) /\ spree <= consecutive
  BY LoginBackoffAssumption DEF Init, Blocked
<1>3. QED
  BY <1>1, <1>2 DEF BackoffInv, Weighed

\* A step that weighs nothing: there are no more requests in a block than before.
LEMMA NothingWeighed ==
  ASSUME BackoffInv, BackoffTypes', UNCHANGED <<consecutive, wait, spree>>,
         Blocked => Cardinality(Hashing') <= Cardinality(Hashing)
  PROVE  BackoffInv'
<1>1. Cardinality(Hashing) \in Nat /\ Cardinality(Hashing') \in Nat
  BY HashingCounted DEF BackoffInv, BackoffTypes, Hashing
<1>2. Blocked' = Blocked
  BY DEF Blocked
<1>3. Cardinality(LostIn(consecutive)) \in Nat /\ Batch \in Nat
  BY LostNat, LoginBackoffAssumption, FS_CardinalityType DEF BackoffInv, BackoffTypes, Batch
<1>4. (Cardinality(LostIn(consecutive)) + 1) * Batch \in Nat
  BY <1>3
<1>5. CASE Blocked
  <2>1. spree + Cardinality(Hashing') <= FreeAttempts + (Cardinality(LostIn(consecutive)) + 1) * Batch
    BY <1>1, <1>4, <1>5, LoginBackoffAssumption DEF BackoffInv, BackoffTypes, Weighed
  <2>2. QED
    BY <1>2, <1>5, <2>1 DEF BackoffInv, Weighed
<1>6. CASE ~Blocked
  BY <1>2, <1>6 DEF BackoffInv, Weighed
<1>7. QED
  BY <1>5, <1>6

\* A step after which nothing has been weighed.
LEMMA AllCleared ==
  ASSUME BackoffInv, BackoffTypes', spree' = 0, Blocked' => consecutive' > FreeAttempts
  PROVE  BackoffInv'
<1>1. Cardinality(Hashing') \in 0..Cardinality(Tasks) /\ Cardinality(Tasks) \in Nat
  BY HashingCounted DEF BackoffTypes, Hashing
<1> DEFINE L == Cardinality(LostIn(consecutive'))
<1>2. L \in Nat /\ Batch = Cardinality(Tasks) + 1 /\ consecutive' \in Nat
  BY LostNat, LoginBackoffAssumption DEF BackoffTypes, Batch
<1>3. L * Batch \in Nat /\ (L + 1) * Batch = L * Batch + Batch
  BY <1>1, <1>2
<1>4. Weighed(consecutive, Blocked, Cardinality(Hashing))'
  BY <1>1, <1>2, <1>3, LoginBackoffAssumption DEF Weighed
<1>5. QED
  BY <1>4 DEF BackoffInv

LEMMA BackoffStep == BackoffInv /\ [Next]_vars => BackoffInv'
<1> SUFFICES ASSUME BackoffInv, [Next]_vars PROVE BackoffInv'
  OBVIOUS
<1> USE DEF BackoffTypes
<1>1. BackoffTypes /\ Weighed(consecutive, Blocked, Cardinality(Hashing))
  BY DEF BackoffInv
<1>2. Blocked => consecutive > FreeAttempts
  BY <1>1 DEF Weighed
<1>3. ASSUME NEW t \in Tasks, Login(t) PROVE BackoffInv'
  <2>1. BackoffTypes' /\ UNCHANGED <<consecutive, wait, spree>> /\ ~Blocked
    BY <1>1, <1>3 DEF Login
  <2>2. QED
    BY <2>1, NothingWeighed
<1>4. ASSUME NEW t \in Tasks, task[t] = "hashing", task' = [task EXCEPT ![t] = "idle"]
      PROVE  /\ Hashing' = Hashing \ {t}
             /\ Cardinality(Hashing') = Cardinality(Hashing) - 1
             /\ Cardinality(Hashing') \in 0..Cardinality(Tasks)
  <2>1. Hashing' = Hashing \ {t}
    BY <1>1, <1>4 DEF Hashing, HashedIn
  <2>2. QED
    BY <1>1, <1>4, <2>1, HashingCounted DEF Hashing
<1>5. ASSUME NEW t \in Tasks, LoginFails(t) PROVE BackoffInv'
  <2>1. RecordFailure /\ task[t] = "hashing" /\ task' = [task EXCEPT ![t] = "idle"] /\ factor' = factor
    BY <1>5 DEF LoginFails
  <2>2. /\ consecutive' \in 0..MaxFailures /\ spree' \in Nat
        /\ Weighed(consecutive, Blocked, Cardinality(Hashing))'
    BY <1>4, <2>1, FailureWeighed
  <2>3. task' \in [Tasks -> {"idle", "hashing"}]
    BY <1>1, <2>1
  <2>4. QED
    BY <1>1, <2>1, <2>2, <2>3 DEF BackoffInv
<1>6. ASSUME NEW t \in Tasks, task[t] = "hashing", task' = [task EXCEPT ![t] = "idle"],
             factor' = factor, UNCHANGED <<consecutive, wait, spree>>
      PROVE  BackoffInv'
  <2>1. BackoffTypes'
    BY <1>1, <1>6
  <2>2. Cardinality(Hashing) \in Nat
    BY <1>1, HashingCounted DEF Hashing
  <2>3. Cardinality(Hashing') = Cardinality(Hashing) - 1
    BY <1>4, <1>6
  <2>4. Cardinality(Hashing') <= Cardinality(Hashing)
    BY <2>2, <2>3
  <2>5. QED
    BY <1>6, <2>1, <2>4, NothingWeighed
<1>7. ASSUME ClearFailures, factor' = factor, task' \in [Tasks -> {"idle", "hashing"}]
      PROVE  BackoffInv'
  <2>1. BackoffTypes' /\ spree' = 0
    BY <1>1, <1>7, LoginBackoffAssumption DEF ClearFailures
  <2>2. ~Blocked'
    BY <1>7 DEF ClearFailures, Blocked
  <2>3. QED
    BY <2>1, <2>2, AllCleared
<1>8. ASSUME NEW t \in Tasks, LoginSucceeds(t) PROVE BackoffInv'
  <2>1. task[t] = "hashing" /\ task' = [task EXCEPT ![t] = "idle"] /\ factor' = factor
    BY <1>8 DEF LoginSucceeds
  <2>2. task' \in [Tasks -> {"idle", "hashing"}]
    BY <1>1, <2>1
  <2>3. CASE factor
    BY <1>6, <1>8, <2>1, <2>3 DEF LoginSucceeds
  <2>4. CASE ~factor
    BY <1>7, <1>8, <2>1, <2>2, <2>4 DEF LoginSucceeds
  <2>5. QED
    BY <2>3, <2>4
<1>9. ASSUME NEW t \in Tasks, LoginEnds(t) PROVE BackoffInv'
  BY <1>6, <1>9 DEF LoginEnds
<1>10. ASSUME NEW right \in BOOLEAN, Login2fa(right) PROVE BackoffInv'
  <2>1. UNCHANGED <<factor, task>> /\ ~Blocked /\ Hashing' = Hashing
    BY <1>10 DEF Login2fa, Hashing
  <2>2. CASE right
    BY <1>1, <1>7, <1>10, <2>1, <2>2 DEF Login2fa
  <2>3. CASE ~right
    <3>1. RecordFailure
      BY <1>10, <2>3 DEF Login2fa
    <3>2. Cardinality(Hashing') \in 0..Cardinality(Tasks)
      BY <1>1, <2>1, HashingCounted DEF Hashing
    <3>3. /\ consecutive' \in 0..MaxFailures /\ spree' \in Nat
          /\ Weighed(consecutive, Blocked, Cardinality(Hashing))'
      BY <2>1, <3>1, <3>2, FailureWeighed
    <3>4. QED
      BY <1>1, <2>1, <3>3 DEF BackoffInv
  <2>4. QED
    BY <2>2, <2>3
<1>11. ASSUME FactorChanges PROVE BackoffInv'
  <2>1. BackoffTypes' /\ UNCHANGED <<consecutive, wait, spree>> /\ Hashing' = Hashing
    BY <1>1, <1>11 DEF FactorChanges, Hashing
  <2>2. Cardinality(Hashing') <= Cardinality(Hashing)
    BY <1>1, <2>1, HashingCounted DEF Hashing
  <2>3. QED
    BY <2>1, <2>2, NothingWeighed
<1>12. ASSUME Tick PROVE BackoffInv'
  <2>1. BackoffTypes' /\ spree' = 0 /\ consecutive' = consecutive
    BY <1>1, <1>12 DEF Tick
  <2>2. Blocked' => Blocked
    BY <1>12 DEF Tick, Blocked
  <2>3. QED
    BY <1>2, <2>1, <2>2, AllCleared
<1>13. ASSUME Restart PROVE BackoffInv'
  <2>1. task' \in [Tasks -> {"idle", "hashing"}]
    BY <1>13 DEF Restart
  <2>2. QED
    BY <1>7, <1>13, <2>1 DEF Restart, ClearFailures
<1>14. ASSUME UNCHANGED vars PROVE BackoffInv'
  <2>1. BackoffTypes' /\ UNCHANGED <<consecutive, wait, spree>> /\ Hashing' = Hashing
    BY <1>1, <1>14 DEF vars, Hashing
  <2>2. Cardinality(Hashing') <= Cardinality(Hashing)
    BY <1>1, <2>1, HashingCounted DEF Hashing
  <2>3. QED
    BY <2>1, <2>2, NothingWeighed
<1>15. QED
  BY <1>3, <1>5, <1>8, <1>9, <1>10, <1>11, <1>12, <1>13, <1>14 DEF Next

\* The types of the back off but for how long a block lasts, whose values are sums of bits,
\* and what was weighed at once.
LEMMA BackoffInvariant == Spec => []BackoffInv
<1>1. Init => BackoffInv
  BY BackoffInit
<1>2. BackoffInv /\ [Next]_vars => BackoffInv'
  BY BackoffStep
<1>3. QED
  BY <1>1, <1>2, PTL DEF Spec

\* However many requests are handled at once, in one moment no more wrong answers are
\* weighed than the free ones, and a batch of them for each block begun in it.
THEOREM GuessesAreBounded == Spec => []GuessesAtOnce
<1>1. BackoffInv => GuessesAtOnce
  <2> SUFFICES ASSUME BackoffInv PROVE GuessesAtOnce
    OBVIOUS
  <2> DEFINE L == Cardinality(LostIn(consecutive))
  <2>1. Lost = L
    BY DEF Lost, LostIn
  <2>2. /\ Cardinality(Hashing) \in Nat /\ Cardinality(Tasks) \in Nat
        /\ consecutive \in Nat /\ spree \in Nat
    BY HashingCounted DEF BackoffInv, BackoffTypes, Hashing
  <2>3. L \in Nat /\ Batch = Cardinality(Tasks) + 1
    BY <2>2, LostNat DEF Batch
  <2>4. (L + 1) * Batch = L * Batch + Batch /\ L * Batch \in Nat
    BY <2>2, <2>3
  <2>5. spree <= FreeAttempts + (L + 1) * Batch
    BY <2>2, <2>3, <2>4, LoginBackoffAssumption DEF BackoffInv, Weighed
  <2>6. QED
    BY <2>1, <2>3, <2>5 DEF GuessesAtOnce
<1>2. QED
  BY <1>1, BackoffInvariant, PTL

-----------------------------------------------------------------------------
\* Each behaviour of the run that takes the two together is one of either.
THEOREM SignInIsBoth == MCSpec => Spec /\ O!Spec
<1>1. MCInit => Init /\ O!Init
  BY DEF MCInit
<1>2. [MCNext]_allVars => [Next]_vars /\ [O!Next]_(O!vars)
  <2>1. UNCHANGED allVars => UNCHANGED vars /\ UNCHANGED O!vars
    BY DEF allVars, backoff, oauth, vars, O!vars
  <2>2. MCNext => [Next]_vars /\ [O!Next]_(O!vars)
    BY DEF MCNext, backoff, oauth, vars, O!vars
  <2>3. QED
    BY <2>1, <2>2
<1>3. QED
  BY <1>1, <1>2, PTL DEF MCSpec, Spec, O!Spec
=============================================================================
