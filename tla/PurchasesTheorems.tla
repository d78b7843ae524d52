------------------------- MODULE PurchasesTheorems --------------------------
(***************************************************************************)
(* What a PRO account stands for, and who owns a purchase, for any number  *)
(* of accounts, purchases and requests.                                    *)
(***************************************************************************)
EXTENDS Purchases, TLAPS

Row  == [subscription : {"FREE", "PRO"}, purchase_token : Tokens \cup {NULL}, expiry : Nat]
Play == [paid : BOOLEAN, acknowledged : BOOLEAN, expiry : 0 .. MaxTime]

Kinds == {"verify", "restore"}

Session ==
  [pc : {"idle"}]
    \cup [pc : {"ready"}, user : Users, image : Row]
    \cup [pc : {"ask"}, kind : Kinds, user : Users, image : Row, token : Tokens]
    \cup [pc : {"owner", "acknowledge", "write"}, kind : Kinds, user : Users, image : Row,
          token : Tokens, response : Play]

Typed ==
  /\ user \in [Users -> Row \cup {NoUser}]
  /\ play \in [Tokens -> Play]
  /\ now \in Nat
  /\ oneWorker \in BOOLEAN
  /\ sess \in [Requests -> Session]

Vouched(t)   == \E e \in 1 .. MaxTime : <<t, e>> \in answers
Confirmed(t) == play[t].acknowledged \/ t \in lost

\* PRO comes with a purchase, and the purchase was paid for and acknowledged.
RowOK(u) ==
  /\ user[u].subscription = "PRO" => user[u].purchase_token # NULL
  /\ user[u].purchase_token # NULL =>
       Vouched(user[u].purchase_token) /\ Confirmed(user[u].purchase_token)

Asked(r) == sess[r].pc \in {"owner", "acknowledge", "write"}

\* A row never loses the purchase an image of it has; what is written at the end
\* was vouched for when Google was asked, and confirmed before the write.
SessionOK(r) ==
  /\ sess[r].pc # "idle" /\ user[sess[r].user] # NoUser =>
       /\ sess[r].image.purchase_token # NULL => user[sess[r].user].purchase_token # NULL
       /\ sess[r].image.subscription = "PRO" => sess[r].image.purchase_token # NULL
  /\ Asked(r) =>
       /\ Vouched(sess[r].token)
       /\ sess[r].response.acknowledged => play[sess[r].token].acknowledged
  /\ sess[r].pc = "write" => Confirmed(sess[r].token)

PurchasesInv ==
  /\ Typed
  /\ \A u \in Live : RowOK(u)
  /\ \A r \in Requests : SessionOK(r)

-----------------------------------------------------------------------------
\* A row is not the missing row.
LEMMA NoUserIsNoRow == NoUser \notin Row
BY DEF NoUser, Row

\* What a session carries once Google may be asked.
LEMMA SessionByPc ==
  ASSUME NEW s \in Session
  PROVE  /\ s.pc # "idle" => s.user \in Users /\ s.image \in Row
         /\ s.pc \in {"ask", "owner", "acknowledge", "write"} => s.token \in Tokens
         /\ s.pc \in {"owner", "acknowledge", "write"} => s.response \in Play
BY DEF Session

\* A step that writes no row: answers and acknowledgements only grow, and one
\* session goes on.
LEMMA RowsKept ==
  ASSUME PurchasesInv, UNCHANGED <<user, oneWorker>>, now' \in Nat,
         play' \in [Tokens -> Play],
         \A t \in Tokens : play[t].acknowledged => play'[t].acknowledged,
         answers \subseteq answers', lost \subseteq lost',
         sess' \in [Requests -> Session],
         \A r \in Requests : sess'[r] = sess[r] \/ SessionOK(r)'
  PROVE  PurchasesInv'
<1>1. Typed'
  BY DEF PurchasesInv, Typed
<1>2. Live' = Live
  BY DEF Live
<1>3. \A t \in Tokens : (Vouched(t) => Vouched(t)') /\ (Confirmed(t) => Confirmed(t)')
  BY DEF Vouched, Confirmed
<1>4. \A u \in Live' : RowOK(u)'
  <2> SUFFICES ASSUME NEW u \in Live PROVE RowOK(u)'
    BY <1>2
  <2>1. RowOK(u) /\ user[u].purchase_token \in Tokens \cup {NULL}
    BY DEF PurchasesInv, Typed, Live, Row
  <2> QED
    BY <1>3, <2>1 DEF RowOK
<1>5. \A r \in Requests : SessionOK(r)'
  <2> SUFFICES ASSUME NEW r \in Requests, sess'[r] = sess[r] PROVE SessionOK(r)'
    OBVIOUS
  <2>1. SessionOK(r) /\ (sess[r].pc \in {"ask", "owner", "acknowledge", "write"} =>
                           sess[r].token \in Tokens)
    BY SessionByPc DEF PurchasesInv, Typed
  <2> QED
    BY <1>3, <2>1 DEF SessionOK, Asked
<1> QED
  BY <1>1, <1>4, <1>5 DEF PurchasesInv

\* A request that ends without having written.
LEMMA IdleSession ==
  ASSUME NEW r \in Requests, PurchasesInv, Goto(r, Idle)
  PROVE  /\ sess' \in [Requests -> Session]
         /\ \A q \in Requests : sess'[q] = sess[q] \/ SessionOK(q)'
<1>1. Idle \in Session
  BY DEF Idle, Session
<1>2. sess' = [sess EXCEPT ![r] = Idle] /\ sess \in [Requests -> Session]
  BY DEF Goto, PurchasesInv, Typed
<1>3. sess'[r].pc = "idle"
  BY <1>2 DEF Idle
<1> QED
  BY <1>1, <1>2, <1>3 DEF SessionOK, Asked

\* A request that goes on as s.
LEMMA NextSession ==
  ASSUME NEW r \in Requests, PurchasesInv, NEW s \in Session, Goto(r, s)
  PROVE  /\ sess' \in [Requests -> Session] /\ sess'[r] = s
         /\ \A q \in Requests \ {r} : sess'[q] = sess[q]
BY DEF Goto, PurchasesInv, Typed

\* A request is authenticated: it loads the row.
LEMMA AuthenticateStep ==
  ASSUME PurchasesInv, NEW r \in Requests, NEW u \in Users, Authenticate(r, u)
  PROVE  PurchasesInv'
<1> DEFINE s == [pc |-> "ready", user |-> u, image |-> user[u]]
<1>1. user[u] \in Row /\ RowOK(u) /\ s \in Session
  BY DEF Authenticate, PurchasesInv, Typed, Live, Session
<1>2. Goto(r, s) /\ UNCHANGED <<user, play, now, answers, lost, oneWorker>>
  BY DEF Authenticate
<1>3. s.pc = "ready" /\ s.user = u /\ s.image = user[u]
  OBVIOUS
<1> HIDE DEF s
<1>4. sess' \in [Requests -> Session] /\ sess'[r] = s /\ \A q \in Requests \ {r} : sess'[q] = sess[q]
  BY <1>1, <1>2, NextSession
<1>5. SessionOK(r)'
  BY <1>1, <1>2, <1>3, <1>4 DEF SessionOK, Asked, RowOK
<1> QED
  BY <1>2, <1>4, <1>5, RowsKept DEF PurchasesInv, Typed

\* The handler is entered.
LEMMA BeginStep ==
  ASSUME PurchasesInv, NEW r \in Requests, NEW t \in Tokens, Begin(r, t)
  PROVE  PurchasesInv'
<1>1. PICK kind \in Kinds :
        Goto(r, [pc |-> "ask", kind |-> kind, user |-> sess[r].user,
                 image |-> sess[r].image, token |-> t])
  BY DEF Begin, Kinds
<1> DEFINE s == [pc |-> "ask", kind |-> kind, user |-> sess[r].user,
                 image |-> sess[r].image, token |-> t]
<1>2. sess[r].pc = "ready" /\ sess[r].user \in Users /\ sess[r].image \in Row /\ SessionOK(r)
  BY SessionByPc DEF Begin, PurchasesInv, Typed
<1>3. s \in Session
  BY <1>2 DEF Session
<1>4. UNCHANGED <<user, play, now, answers, lost, oneWorker>>
  BY DEF Begin
<1>5. s.pc = "ask" /\ s.user = sess[r].user /\ s.image = sess[r].image
  OBVIOUS
<1>6. Goto(r, s)
  BY <1>1
<1> HIDE DEF s
<1>7. sess' \in [Requests -> Session] /\ sess'[r] = s /\ \A q \in Requests \ {r} : sess'[q] = sess[q]
  BY <1>3, <1>6, NextSession
<1>8. SessionOK(r)'
  BY <1>2, <1>4, <1>5, <1>7 DEF SessionOK, Asked
<1> QED
  BY <1>4, <1>7, <1>8, RowsKept DEF PurchasesInv, Typed

\* Google vouches for a purchase that is accepted.
LEMMA AskStep ==
  ASSUME PurchasesInv, NEW r \in Requests, Ask(r)
  PROVE  PurchasesInv'
<1>0. PICK t \in Tokens : t = sess[r].token
  BY SessionByPc DEF Ask, PurchasesInv, Typed
<1> DEFINE s == [pc |-> IF sess[r].kind = "restore" THEN "owner" ELSE "acknowledge",
                 kind |-> sess[r].kind, user |-> sess[r].user, image |-> sess[r].image,
                 token |-> t, response |-> play[t]]
<1>1. /\ sess[r].pc = "ask" /\ sess[r].user \in Users /\ sess[r].image \in Row
      /\ t \in Tokens /\ SessionOK(r) /\ play[t] \in Play /\ now \in Nat
      /\ play \in [Tokens -> Play] /\ sess[r] \in Session
  BY SessionByPc DEF Ask, PurchasesInv, Typed
<1>2. UNCHANGED <<user, play, now, lost, oneWorker>>
  BY DEF Ask
<1>3. CASE Goto(r, Idle) /\ UNCHANGED answers
  BY <1>1, <1>2, <1>3, IdleSession, RowsKept
<1>4. CASE /\ Accepted(t) /\ Goto(r, s)
           /\ answers' = IF play[t].paid THEN answers \cup {<<t, play[t].expiry>>} ELSE answers
  <2>1. sess[r].kind \in Kinds
    BY <1>1 DEF Session
  <2>2. s \in Session
    <3> DEFINE c == IF sess[r].kind = "restore" THEN "owner" ELSE "acknowledge"
    <3>1. c \in {"owner", "acknowledge", "write"}
      OBVIOUS
    <3>2. s = [pc |-> c, kind |-> sess[r].kind, user |-> sess[r].user, image |-> sess[r].image,
               token |-> t, response |-> play[t]]
      OBVIOUS
    <3> HIDE DEF c, s
    <3> QED
      BY <1>1, <2>1, <3>1, <3>2 DEF Session
  <2>3. /\ s.pc \in {"owner", "acknowledge"} /\ s.user = sess[r].user
        /\ s.image = sess[r].image /\ s.token = t /\ s.response = play[t]
    OBVIOUS
  <2>4. play[t].paid /\ play[t].expiry \in 1 .. MaxTime
    BY <1>1, <1>4, BoundAssumption DEF Accepted, Play
  <2>5. <<t, play[t].expiry>> \in answers' /\ answers \subseteq answers'
    BY <1>4, <2>4
  <2> HIDE DEF s
  <2>6. sess' \in [Requests -> Session] /\ sess'[r] = s
        /\ \A q \in Requests \ {r} : sess'[q] = sess[q]
    BY <1>4, <2>2, NextSession
  <2>7. Vouched(t)'
    BY <2>4, <2>5 DEF Vouched
  <2>8. SessionOK(r)'
    BY <1>0, <1>1, <1>2, <2>3, <2>6, <2>7 DEF SessionOK, Asked
  <2> QED
    BY <1>1, <1>2, <2>5, <2>6, <2>8, RowsKept
<1> QED
  BY <1>0, <1>3, <1>4 DEF Ask

\* restore looks for another owner last.
LEMMA CheckOwnerStep ==
  ASSUME PurchasesInv, NEW r \in Requests, CheckOwner(r)
  PROVE  PurchasesInv'
<1> DEFINE s == [sess[r] EXCEPT !.pc = "acknowledge"]
<1>1. UNCHANGED <<user, play, now, answers, lost, oneWorker>> /\ sess[r].pc = "owner"
      /\ sess[r] \in Session /\ SessionOK(r)
  BY DEF CheckOwner, PurchasesInv, Typed
<1>2. CASE Goto(r, Idle)
  BY <1>1, <1>2, IdleSession, RowsKept DEF PurchasesInv, Typed
<1>3. CASE Goto(r, s)
  <2>1. /\ s \in Session /\ s.pc = "acknowledge" /\ s.user = sess[r].user
        /\ s.image = sess[r].image /\ s.token = sess[r].token /\ s.response = sess[r].response
    BY <1>1 DEF Session
  <2> HIDE DEF s
  <2>2. sess' \in [Requests -> Session] /\ sess'[r] = s
        /\ \A q \in Requests \ {r} : sess'[q] = sess[q]
    BY <1>3, <2>1, NextSession
  <2>3. SessionOK(r)'
    BY <1>1, <2>1, <2>2 DEF SessionOK, Asked, Vouched
  <2> QED
    BY <1>1, <2>2, <2>3, RowsKept DEF PurchasesInv, Typed
<1> QED
  BY <1>2, <1>3 DEF CheckOwner

\* A purchase is acknowledged, or the failure to do so is known, before the write.
LEMMA AcknowledgeStep ==
  ASSUME PurchasesInv, NEW r \in Requests, Acknowledge(r)
  PROVE  PurchasesInv'
<1>0. PICK t \in Tokens : t = sess[r].token
  BY SessionByPc DEF Acknowledge, PurchasesInv, Typed
<1> DEFINE s == [sess[r] EXCEPT !.pc = "write"]
<1>1. /\ sess[r].pc = "acknowledge" /\ t \in Tokens /\ sess[r] \in Session /\ SessionOK(r)
      /\ play \in [Tokens -> Play] /\ now \in Nat
  BY SessionByPc DEF Acknowledge, PurchasesInv, Typed
<1>2. UNCHANGED <<user, now, answers, oneWorker>>
  BY DEF Acknowledge
<1>3. /\ s \in Session /\ s.pc = "write" /\ s.user = sess[r].user
      /\ s.image = sess[r].image /\ s.token = t /\ s.response = sess[r].response
  BY <1>0, <1>1 DEF Session
<1> HIDE DEF s
<1>4. /\ Goto(r, s) \/ Goto(r, Idle)
      /\ \/ ~NeedsAck(sess[r]) /\ UNCHANGED <<play, lost>>
         \/ play' = [play EXCEPT ![t].acknowledged = TRUE] /\ UNCHANGED lost
         \/ lost' = lost \cup {t} /\ UNCHANGED play
  BY <1>0 DEF Acknowledge, s
<1>5. /\ play' \in [Tokens -> Play]
      /\ \A x \in Tokens : play[x].acknowledged => play'[x].acknowledged
      /\ lost \subseteq lost'
      /\ Confirmed(t)'
  <2>1. CASE ~NeedsAck(sess[r]) /\ UNCHANGED <<play, lost>>
    BY <1>0, <1>1, <2>1 DEF NeedsAck, SessionOK, Asked, Confirmed
  <2>2. CASE play' = [play EXCEPT ![t].acknowledged = TRUE] /\ UNCHANGED lost
    <3> DEFINE p == [play[t] EXCEPT !.acknowledged = TRUE]
    <3>1. p \in Play /\ p.acknowledged /\ play' = [play EXCEPT ![t] = p]
      BY <1>1, <2>2 DEF Play
    <3> HIDE DEF p
    <3> QED
      BY <1>1, <2>2, <3>1 DEF Confirmed
  <2>3. CASE lost' = lost \cup {t} /\ UNCHANGED play
    BY <1>1, <2>3 DEF Confirmed
  <2> QED
    BY <1>4, <2>1, <2>2, <2>3
<1>6. CASE Goto(r, Idle)
  BY <1>1, <1>2, <1>5, <1>6, IdleSession, RowsKept
<1>7. CASE Goto(r, s)
  <2>1. sess' \in [Requests -> Session] /\ sess'[r] = s
        /\ \A q \in Requests \ {r} : sess'[q] = sess[q]
    BY <1>3, <1>7, NextSession
  <2>2. SessionOK(r)'
    BY <1>0, <1>1, <1>2, <1>3, <1>5, <2>1 DEF SessionOK, Asked, Vouched
  <2> QED
    BY <1>1, <1>2, <1>5, <2>1, <2>2, RowsKept
<1> QED
  BY <1>4, <1>6, <1>7

\* The row that is written names a purchase that was vouched for and confirmed: the
\* one of this request, or the one it already had.
LEMMA WriteStep ==
  ASSUME PurchasesInv, NEW r \in Requests, Write(r)
  PROVE  PurchasesInv'
<1> DEFINE s == sess[r]
           u == s.user
<1>1. /\ s.pc = "write" /\ s \in Session /\ u \in Users /\ s.image \in Row /\ s.token \in Tokens
      /\ s.response \in Play /\ SessionOK(r) /\ now \in Nat
      /\ user \in [Users -> Row \cup {NoUser}] /\ play \in [Tokens -> Play]
      /\ NULL \notin Tokens
  BY SessionByPc, NullAssumption DEF Write, PurchasesInv, Typed
<1>2. UNCHANGED <<play, now, answers, lost, oneWorker>> /\ Goto(r, Idle)
  BY DEF Write
<1>3. sess' \in [Requests -> Session] /\ \A q \in Requests : sess'[q] = sess[q] \/ sess'[q].pc = "idle"
  <2>1. sess' = [sess EXCEPT ![r] = Idle] /\ sess \in [Requests -> Session] /\ Idle \in Session
    BY <1>2 DEF Goto, PurchasesInv, Typed, Idle, Session
  <2> QED
    BY <2>1 DEF Idle
<1>4. CASE user[u] = NoUser
  <2>1. user' = user
    BY <1>4 DEF Write
  <2>2. \A q \in Requests : sess'[q] = sess[q] \/ SessionOK(q)'
    BY <1>3 DEF SessionOK, Asked
  <2> QED
    BY <1>1, <1>2, <1>3, <2>1, <2>2, RowsKept
<1>5. CASE user[u] # NoUser
  <2> DEFINE w == Flushed(s, user[u])
  <2>1. user[u] \in Row /\ u \in Live /\ RowOK(u)
    BY <1>1, <1>5 DEF PurchasesInv, Live
  <2>2. user' = [user EXCEPT ![u] = w]
    BY <1>5 DEF Write
  <2>3. /\ w \in Row
        /\ w.purchase_token \in {s.token, user[u].purchase_token}
        /\ w.purchase_token # s.token =>
             s.token = s.image.purchase_token /\ w.purchase_token = user[u].purchase_token
    <3> DEFINE b == Column("PRO", s.image.subscription, user[u].subscription)
               k == Column(s.token, s.image.purchase_token, user[u].purchase_token)
               e == Column(s.response.expiry, s.image.expiry, user[u].expiry)
    <3>1. b \in {"FREE", "PRO"} /\ k \in Tokens \cup {NULL} /\ e \in Nat
      BY <1>1, <2>1, BoundAssumption DEF Column, Row, Play
    <3>2. /\ k \in {s.token, user[u].purchase_token}
          /\ k # s.token => s.token = s.image.purchase_token /\ k = user[u].purchase_token
      BY DEF Column
    <3>3. w = [subscription |-> b, purchase_token |-> k, expiry |-> e]
      BY DEF Flushed
    <3> HIDE DEF b, k, e, w, s, u
    <3> QED
      BY <3>1, <3>2, <3>3 DEF Row
  <2> HIDE DEF w
  <2>4. Vouched(s.token) /\ Confirmed(s.token)
    BY <1>1 DEF SessionOK, Asked
  <2>5. /\ w.purchase_token # NULL
        /\ Vouched(w.purchase_token) /\ Confirmed(w.purchase_token)
    BY <1>1, <1>5, <2>1, <2>3, <2>4 DEF SessionOK, RowOK
  <2>6. /\ user' \in [Users -> Row \cup {NoUser}] /\ user'[u] = w /\ w # NoUser
        /\ \A v \in Users \ {u} : user'[v] = user[v]
    BY <1>1, <2>2, <2>3, NoUserIsNoRow
  <2> HIDE DEF s, u
  <2>7. Live' = Live
    BY <1>1, <1>5, <2>6 DEF Live
  <2>8. Typed'
    BY <1>2, <1>3, <2>6 DEF PurchasesInv, Typed
  <2>9. \A t : (Vouched(t)' <=> Vouched(t)) /\ (Confirmed(t)' <=> Confirmed(t))
    BY <1>2 DEF Vouched, Confirmed
  <2>10. \A v \in Live' : RowOK(v)'
    <3> SUFFICES ASSUME NEW v \in Live PROVE RowOK(v)'
      BY <2>7
    <3>1. RowOK(v) /\ v \in Users
      BY DEF PurchasesInv, Live
    <3>2. CASE v = u
      BY <2>5, <2>6, <2>9, <3>2 DEF RowOK
    <3>3. CASE v # u
      BY <2>6, <2>9, <3>1, <3>3 DEF RowOK
    <3> QED
      BY <3>2, <3>3
  <2>11. \A q \in Requests : SessionOK(q)'
    <3> SUFFICES ASSUME NEW q \in Requests, sess'[q] = sess[q] PROVE SessionOK(q)'
      BY <1>3 DEF SessionOK, Asked
    <3>1. SessionOK(q) /\ (sess[q].pc # "idle" => sess[q].user \in Users)
      BY SessionByPc DEF PurchasesInv, Typed
    <3>2. \A v \in Users : user'[v] # NoUser =>
            user[v] # NoUser /\ (user[v].purchase_token # NULL => user'[v].purchase_token # NULL)
      BY <1>5, <2>5, <2>6
    <3> QED
      BY <1>2, <2>9, <3>1, <3>2 DEF SessionOK, Asked
  <2> QED
    BY <2>8, <2>10, <2>11 DEF PurchasesInv
<1> QED
  BY <1>4, <1>5

\* Deletion takes a row away and nothing else.
LEMMA DeleteStep ==
  ASSUME PurchasesInv, NEW u \in Users, DeleteAccount(u)
  PROVE  PurchasesInv'
<1>1. /\ user \in [Users -> Row \cup {NoUser}] /\ user' = [user EXCEPT ![u] = NoUser]
      /\ UNCHANGED <<play, now, sess, answers, lost, oneWorker>>
  BY DEF DeleteAccount, PurchasesInv, Typed
<1>2. /\ user' \in [Users -> Row \cup {NoUser}]
      /\ \A v \in Users : user'[v] = user[v] \/ user'[v] = NoUser
  BY <1>1
<1>3. Typed'
  BY <1>1, <1>2 DEF PurchasesInv, Typed
<1>4. \A v \in Live' : RowOK(v)'
  BY <1>1, <1>2 DEF PurchasesInv, Live, RowOK, Vouched, Confirmed
<1>5. \A q \in Requests : SessionOK(q)'
  <2> SUFFICES ASSUME NEW q \in Requests PROVE SessionOK(q)'
    OBVIOUS
  <2>1. SessionOK(q) /\ (sess[q].pc # "idle" => sess[q].user \in Users)
    BY SessionByPc DEF PurchasesInv, Typed
  <2> QED
    BY <1>1, <1>2, <2>1 DEF SessionOK, Asked, Vouched, Confirmed
<1> QED
  BY <1>3, <1>4, <1>5 DEF PurchasesInv

\* At Google a purchase changes, but never back to unacknowledged.
LEMMA PlayChangesStep ==
  ASSUME PurchasesInv, NEW t \in Tokens, PlayChanges(t)
  PROVE  PurchasesInv'
<1>1. PICK paid \in BOOLEAN, expiry \in now .. MaxTime :
        play' = [play EXCEPT ![t].paid = paid, ![t].expiry = expiry]
  BY DEF PlayChanges
<1> DEFINE p == [play[t] EXCEPT !.paid = paid, !.expiry = expiry]
<1>2. play \in [Tokens -> Play] /\ now \in Nat /\ sess \in [Requests -> Session]
  BY DEF PurchasesInv, Typed
<1>3. p \in Play /\ p.acknowledged = play[t].acknowledged
  <2>1. play[t] \in Play /\ expiry \in 0 .. MaxTime
    BY <1>2, BoundAssumption
  <2> QED
    BY <2>1 DEF Play
<1>4. play' = [play EXCEPT ![t] = p]
  BY <1>1
<1> HIDE DEF p
<1>5. /\ play' \in [Tokens -> Play]
      /\ \A x \in Tokens : play[x].acknowledged => play'[x].acknowledged
  BY <1>2, <1>3, <1>4
<1>6. UNCHANGED <<user, now, sess, answers, lost, oneWorker>>
  BY DEF PlayChanges
<1> QED
  BY <1>2, <1>5, <1>6, RowsKept

\* Everybody is free at first.
LEMMA PurchasesStart == Init => PurchasesInv
<1> SUFFICES ASSUME Init PROVE PurchasesInv
  OBVIOUS
<1>1. Free \in Row /\ Free.subscription # "PRO" /\ Free.purchase_token = NULL
  BY DEF Free, Row
<1>2. Typed
  BY <1>1, BoundAssumption DEF Init, Typed, Play, Idle, Session
<1>3. \A u \in Live : RowOK(u)
  BY <1>1 DEF Init, RowOK, Live
<1>4. \A r \in Requests : SessionOK(r)
  BY DEF Init, SessionOK, Asked, Idle
<1> QED
  BY <1>2, <1>3, <1>4 DEF PurchasesInv

\* Every step keeps the invariant.
LEMMA PurchasesStep == PurchasesInv /\ [Next]_vars => PurchasesInv'
<1> SUFFICES ASSUME PurchasesInv, [Next]_vars PROVE PurchasesInv'
  OBVIOUS
<1>1. ASSUME NEW r \in Requests, NEW u \in Users, Authenticate(r, u) PROVE PurchasesInv'
  BY <1>1, AuthenticateStep
<1>2. ASSUME NEW r \in Requests, NEW t \in Tokens, Begin(r, t) PROVE PurchasesInv'
  BY <1>2, BeginStep
<1>3. ASSUME NEW r \in Requests, Ask(r) PROVE PurchasesInv'
  BY <1>3, AskStep
<1>4. ASSUME NEW r \in Requests, CheckOwner(r) PROVE PurchasesInv'
  BY <1>4, CheckOwnerStep
<1>5. ASSUME NEW r \in Requests, Acknowledge(r) PROVE PurchasesInv'
  BY <1>5, AcknowledgeStep
<1>6. ASSUME NEW r \in Requests, Write(r) PROVE PurchasesInv'
  BY <1>6, WriteStep
<1>7. ASSUME NEW u \in Users, DeleteAccount(u) PROVE PurchasesInv'
  BY <1>7, DeleteStep
<1>8. ASSUME NEW t \in Tokens, PlayChanges(t) PROVE PurchasesInv'
  BY <1>8, PlayChangesStep
<1>9. CASE Pass \/ UNCHANGED vars
  <2>1. /\ now' \in Nat /\ UNCHANGED <<user, play, sess, answers, lost, oneWorker>>
        /\ sess \in [Requests -> Session] /\ play \in [Tokens -> Play]
    BY <1>9 DEF Pass, vars, PurchasesInv, Typed
  <2> QED
    BY <2>1, RowsKept
<1> QED
  BY <1>1, <1>2, <1>3, <1>4, <1>5, <1>6, <1>7, <1>8, <1>9 DEF Next

\* The inductive invariant of purchases.
THEOREM PurchasesInvariant == Spec => []PurchasesInv
BY PurchasesStart, PurchasesStep, PTL DEF Spec

\* An account that verify or restore made PRO has a purchase Google vouched for,
\* whatever the requests that wrote its row had loaded.
THEOREM ProIsPaid == Spec => []ProMeansPaid
<1>1. PurchasesInv => ProMeansPaid
  BY DEF PurchasesInv, RowOK, Vouched, ProMeansPaid
<1> QED
  BY <1>1, PurchasesInvariant, PTL

\* Its purchase was acknowledged, or acknowledging it failed.
THEOREM ProIsAcknowledged == Spec => []ProAcknowledged
<1>1. PurchasesInv => ProAcknowledged
  BY DEF PurchasesInv, RowOK, Confirmed, ProAcknowledged
<1> QED
  BY <1>1, PurchasesInvariant, PTL

-----------------------------------------------------------------------------
(* One process: a purchase has one owner. *)

Busy(r) == sess[r].pc \notin {"idle", "ready"}

\* The owner of the token has been looked at, and nobody else can have got it since.
Cleared(r) ==
  \/ sess[r].pc = "ask" /\ sess[r].kind = "verify"
  \/ sess[r].pc \in {"acknowledge", "write"}

OwnedInv ==
  oneWorker =>
    /\ \A q, r \in Requests : Busy(q) /\ Busy(r) => q = r
    /\ \A r \in Requests : Cleared(r) => ~LinkedToOther(sess[r].user, sess[r].token)
    /\ TokenOwnedOnce

\* Nobody gets a purchase by a deletion.
LEMMA LinksOnlyGo ==
  ASSUME \A v \in Users : user'[v] = user[v] \/ user'[v] = NoUser
  PROVE  /\ \A u, t : LinkedToOther(u, t)' => LinkedToOther(u, t)
         /\ TokenOwnedOnce /\ UNCHANGED oneWorker => TokenOwnedOnce'
<1>1. \A v \in Live' : v \in Live /\ user'[v] = user[v]
  BY DEF Live
<1>2. ASSUME NEW u, NEW t, LinkedToOther(u, t)' PROVE LinkedToOther(u, t)
  BY <1>1, <1>2 DEF LinkedToOther
<1>3. ASSUME TokenOwnedOnce, UNCHANGED oneWorker PROVE TokenOwnedOnce'
  BY <1>1, <1>3 DEF TokenOwnedOnce
<1> QED
  BY <1>2, <1>3

\* A step of no request.
LEMMA OwnedWithoutRequest ==
  ASSUME OwnedInv, UNCHANGED <<oneWorker, sess>>,
         \A v \in Users : user'[v] = user[v] \/ user'[v] = NoUser
  PROVE  OwnedInv'
BY LinksOnlyGo DEF OwnedInv, Busy, Cleared

\* A step of one request that writes no row: it enters its handler when no other
\* request is in one, and is cleared when it has just looked or was before.
LEMMA OwnedKept ==
  ASSUME OwnedInv, NEW r \in Requests, UNCHANGED <<oneWorker, user>>,
         \A q \in Requests \ {r} : sess'[q] = sess[q],
         oneWorker /\ Busy(r)' => Busy(r) \/ \A q \in Requests : ~Busy(q),
         oneWorker /\ Cleared(r)' => ~LinkedToOther(sess'[r].user, sess'[r].token)
  PROVE  OwnedInv'
<1> SUFFICES ASSUME oneWorker PROVE OwnedInv'
  BY DEF OwnedInv
<1>1. \A u, t : LinkedToOther(u, t)' <=> LinkedToOther(u, t)
  BY DEF LinkedToOther, Live
<1>2. TokenOwnedOnce'
  BY LinksOnlyGo DEF OwnedInv
<1>3. \A q \in Requests \ {r} : (Busy(q)' <=> Busy(q)) /\ (Cleared(q)' <=> Cleared(q))
  BY DEF Busy, Cleared
<1>4. \A p, q \in Requests : Busy(p)' /\ Busy(q)' => p = q
  BY <1>3 DEF OwnedInv
<1>5. \A q \in Requests : Cleared(q)' => ~LinkedToOther(sess'[q].user, sess'[q].token)
  BY <1>3 DEF OwnedInv
<1>6. \A q \in Requests : Cleared(q)' => ~LinkedToOther(sess[q].user, sess[q].token)'
  <2> SUFFICES ASSUME NEW q \in Requests, Cleared(q)' 
               PROVE  ~LinkedToOther(sess[q].user, sess[q].token)'
    OBVIOUS
  <2>1. ~LinkedToOther(sess'[q].user, sess'[q].token)
    BY <1>5
  <2> QED
    BY <2>1 DEF LinkedToOther, Live
<1> QED
  BY <1>2, <1>4, <1>6 DEF OwnedInv

\* Entering a handler.
LEMMA BeginOwned ==
  ASSUME PurchasesInv, OwnedInv, NEW r \in Requests, NEW t \in Tokens, Begin(r, t)
  PROVE  OwnedInv'
<1>1. PICK kind \in {"verify", "restore"} :
        /\ kind = "verify" => ~LinkedToOther(sess[r].user, t)
        /\ Goto(r, [pc |-> "ask", kind |-> kind, user |-> sess[r].user,
                    image |-> sess[r].image, token |-> t])
  BY DEF Begin
<1>2. /\ sess'[r].pc = "ask" /\ sess'[r].kind = kind /\ sess'[r].user = sess[r].user
      /\ sess'[r].token = t /\ \A q \in Requests \ {r} : sess'[q] = sess[q]
  BY <1>1 DEF Goto, PurchasesInv, Typed
<1>3. UNCHANGED <<oneWorker, user>> /\ (oneWorker => \A q \in Requests : ~Busy(q))
  BY DEF Begin, Busy
<1>4. Cleared(r)' => ~LinkedToOther(sess'[r].user, sess'[r].token)
  BY <1>1, <1>2 DEF Cleared
<1> QED
  BY <1>2, <1>3, <1>4, OwnedKept

\* Google answers, the owner is looked at by restore, the purchase is acknowledged.
LEMMA OnwardOwned ==
  ASSUME PurchasesInv, OwnedInv, NEW r \in Requests,
         Ask(r) \/ CheckOwner(r) \/ Acknowledge(r)
  PROVE  OwnedInv'
<1>1. sess \in [Requests -> Session] /\ sess[r] \in Session
  BY DEF PurchasesInv, Typed
<1>2. UNCHANGED <<oneWorker, user>> /\ Busy(r)
  BY DEF Ask, CheckOwner, Acknowledge, Busy
<1>3. \A q \in Requests \ {r} : sess'[q] = sess[q]
  BY <1>1 DEF Ask, CheckOwner, Acknowledge, Goto
<1>4. oneWorker /\ Cleared(r) => ~LinkedToOther(sess[r].user, sess[r].token)
  BY DEF OwnedInv
<1>5. oneWorker /\ Cleared(r)' => ~LinkedToOther(sess'[r].user, sess'[r].token)
  <2>1. CASE Goto(r, Idle)
    BY <1>1, <2>1 DEF Goto, Idle, Cleared
  <2>2. CASE Ask(r) /\ ~Goto(r, Idle)
    <3>1. /\ sess[r].pc = "ask" /\ sess'[r].user = sess[r].user /\ sess'[r].token = sess[r].token
          /\ sess'[r].pc = IF sess[r].kind = "restore" THEN "owner" ELSE "acknowledge"
      BY <1>1, <2>2 DEF Ask, Goto
    <3>2. sess[r].kind \in {"verify", "restore"}
      BY <1>1, <3>1 DEF Session, Kinds
    <3> QED
      BY <1>4, <3>1, <3>2 DEF Cleared
  <2>3. CASE CheckOwner(r) /\ ~Goto(r, Idle)
    <3>1. ~LinkedToOther(sess[r].user, sess[r].token)
          /\ sess' = [sess EXCEPT ![r] = [sess[r] EXCEPT !.pc = "acknowledge"]]
      BY <2>3 DEF CheckOwner, Goto
    <3>2. sess'[r].user = sess[r].user /\ sess'[r].token = sess[r].token
      BY <1>1, <3>1
    <3> QED
      BY <3>1, <3>2
  <2>4. CASE Acknowledge(r) /\ ~Goto(r, Idle)
    <3>1. sess[r].pc = "acknowledge"
          /\ sess' = [sess EXCEPT ![r] = [sess[r] EXCEPT !.pc = "write"]]
      BY <2>4 DEF Acknowledge, Goto
    <3>2. sess'[r].user = sess[r].user /\ sess'[r].token = sess[r].token
      BY <1>1, <3>1
    <3> QED
      BY <1>4, <3>1, <3>2 DEF Cleared
  <2> QED
    BY <2>1, <2>2, <2>3, <2>4
<1> QED
  BY <1>2, <1>3, <1>5, OwnedKept

\* The write: the row names the token that is cleared, or the one it had.
LEMMA WriteOwned ==
  ASSUME PurchasesInv, OwnedInv, NEW r \in Requests, Write(r)
  PROVE  OwnedInv'
<1> SUFFICES ASSUME oneWorker PROVE OwnedInv'
  BY DEF Write, OwnedInv
<1>0. PICK u \in Users, t \in Tokens : u = sess[r].user /\ t = sess[r].token
  BY SessionByPc DEF Write, PurchasesInv, Typed
<1>1. /\ sess[r].pc = "write" /\ UNCHANGED oneWorker
      /\ sess \in [Requests -> Session] /\ user \in [Users -> Row \cup {NoUser}]
      /\ NULL \notin Tokens /\ ~LinkedToOther(u, t)
  BY <1>0, NullAssumption DEF Write, PurchasesInv, Typed, OwnedInv, Cleared
<1>2. sess'[r].pc = "idle" /\ \A q \in Requests \ {r} : sess'[q] = sess[q]
  BY <1>1 DEF Write, Goto, Idle
<1>3. \A q \in Requests : ~Busy(q)' /\ ~Cleared(q)'
  <2> SUFFICES ASSUME NEW q \in Requests PROVE ~Busy(q)' /\ ~Cleared(q)'
    OBVIOUS
  <2>1. CASE q = r
    BY <1>2, <2>1 DEF Busy, Cleared
  <2>2. CASE q # r
    BY <1>1, <1>2, <2>2 DEF OwnedInv, Busy, Cleared
  <2> QED
    BY <2>1, <2>2
<1>4. TokenOwnedOnce'
  <2>1. CASE user[u] = NoUser
    BY <1>0, <1>1, <2>1, LinksOnlyGo DEF Write, OwnedInv
  <2>2. CASE user[u] # NoUser
    <3>1. /\ \A v \in Users \ {u} : user'[v] = user[v]
          /\ user'[u] = Flushed(sess[r], user[u])
      BY <1>0, <1>1, <2>2 DEF Write
    <3>2. user'[u].purchase_token \in {t, user[u].purchase_token}
      BY <1>0, <3>1 DEF Flushed, Column
    <3>3. u \in Live /\ Live' \subseteq Live
      BY <2>2, <3>1 DEF Live
    <3>4. \A v \in Live \ {u} : /\ user'[v] = user[v] /\ user[v].purchase_token # t
                              /\ \/ user[v].purchase_token = NULL
                                 \/ user[v].purchase_token # user[u].purchase_token
      BY <1>1, <3>1, <3>3 DEF Live, LinkedToOther, OwnedInv, TokenOwnedOnce
    <3>5. \A v \in Live \ {u} : \/ user'[v].purchase_token = NULL
                              \/ user'[v].purchase_token # user'[u].purchase_token
      BY <3>2, <3>4
    <3>6. \A v, w \in Live : v # w => \/ user[v].purchase_token = NULL
                                    \/ user[v].purchase_token # user[w].purchase_token
      BY DEF OwnedInv, TokenOwnedOnce
    <3>7. ASSUME NEW v \in Live, NEW w \in Live, v # w
          PROVE  \/ user'[v].purchase_token = NULL
                 \/ user'[v].purchase_token # user'[w].purchase_token
      <4>1. CASE v = u
        BY <3>5, <3>7, <4>1
      <4>2. CASE w = u
        BY <3>5, <3>7, <4>2
      <4>3. CASE v # u /\ w # u
        BY <3>4, <3>6, <3>7, <4>3
      <4> QED
        BY <4>1, <4>2, <4>3
    <3> QED
      BY <3>3, <3>7 DEF TokenOwnedOnce
  <2> QED
    BY <2>1, <2>2
<1> QED
  BY <1>3, <1>4 DEF OwnedInv

\* Every step keeps purchases apart.
LEMMA OwnedStep == PurchasesInv /\ OwnedInv /\ [Next]_vars => OwnedInv'
<1> SUFFICES ASSUME PurchasesInv, OwnedInv, [Next]_vars PROVE OwnedInv'
  OBVIOUS
<1>1. ASSUME NEW r \in Requests, NEW u \in Users, Authenticate(r, u) PROVE OwnedInv'
  <2>1. sess'[r].pc = "ready" /\ \A q \in Requests \ {r} : sess'[q] = sess[q]
    BY <1>1 DEF Authenticate, Goto, PurchasesInv, Typed
  <2>2. ~Busy(r)' /\ ~Cleared(r)' /\ UNCHANGED <<oneWorker, user>>
    BY <1>1, <2>1 DEF Busy, Cleared, Authenticate
  <2> QED
    BY <2>1, <2>2, OwnedKept
<1>2. ASSUME NEW r \in Requests, NEW t \in Tokens, Begin(r, t) PROVE OwnedInv'
  BY <1>2, BeginOwned
<1>3. ASSUME NEW r \in Requests, Ask(r) \/ CheckOwner(r) \/ Acknowledge(r) PROVE OwnedInv'
  BY <1>3, OnwardOwned
<1>4. ASSUME NEW r \in Requests, Write(r) PROVE OwnedInv'
  BY <1>4, WriteOwned
<1>5. ASSUME NEW u \in Users, DeleteAccount(u) PROVE OwnedInv'
  <2>1. \A v \in Users : user'[v] = user[v] \/ user'[v] = NoUser
    BY <1>5 DEF DeleteAccount, PurchasesInv, Typed
  <2> QED
    BY <1>5, <2>1, OwnedWithoutRequest DEF DeleteAccount
<1>6. CASE Pass \/ (\E t \in Tokens : PlayChanges(t)) \/ UNCHANGED vars
  BY <1>6, OwnedWithoutRequest DEF Pass, PlayChanges, vars
<1> QED
  BY <1>1, <1>2, <1>3, <1>4, <1>5, <1>6 DEF Next

\* In a deployment of one process no purchase belongs to two accounts, however
\* many accounts verify it, restore it and are deleted, in any order.
THEOREM PurchaseHasOneOwner == Spec => []TokenOwnedOnce
<1>1. Init => OwnedInv
  <2> SUFFICES ASSUME Init PROVE OwnedInv
    OBVIOUS
  <2>1. \A r \in Requests : sess[r].pc = "idle"
    BY DEF Init, Idle
  <2>2. \A u \in Live : user[u].purchase_token = NULL
    BY DEF Init, Free, Live
  <2> QED
    BY <2>1, <2>2 DEF OwnedInv, Busy, Cleared, TokenOwnedOnce
<1>2. OwnedInv => TokenOwnedOnce
  BY DEF OwnedInv, TokenOwnedOnce
<1> QED
  BY <1>1, <1>2, PurchasesInvariant, OwnedStep, PTL DEF Spec
=============================================================================
