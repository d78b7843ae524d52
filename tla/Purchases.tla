------------------------------ MODULE Purchases ------------------------------
(***************************************************************************)
(* Google Play subscriptions: verify_subscription_purchase and             *)
(* restore_subscription_purchase against the rows of users and what Google *)
(* says of a purchase token.                                               *)
(*                                                                         *)
(* A request is authenticated in a thread, which loads the user's row; its *)
(* handler is a coroutine that never awaits, so a worker process runs one  *)
(* handler at a time, and other workers run theirs between any two of its  *)
(* queries and calls.                                                      *)
(***************************************************************************)
EXTENDS Naturals, FiniteSets

CONSTANTS
  Users, Tokens,
  NULL,        \* an empty purchase_token
  Requests,
  Alone,       \* may be {TRUE}, {FALSE} or both: all requests are served by one process
  MaxTime      \* bound: the clock

ASSUME NullAssumption == NULL \notin Tokens
ASSUME BoundAssumption == MaxTime \in Nat /\ Alone \subseteq BOOLEAN

VARIABLES
  user,     \* [Users -> row, or NoUser once the account is deleted]
  play,     \* what Google Play knows of each purchase
  now,
  oneWorker,  \* the deployment
  sess,     \* the session of each request
  answers,  \* history: <<token, expiry>> that Google has vouched for
  lost      \* history: tokens whose acknowledgement failed

vars == <<user, play, now, oneWorker, sess, answers, lost>>

NoUser == [none |-> TRUE]
Idle   == [pc |-> "idle"]
Free   == [subscription |-> "FREE", purchase_token |-> NULL, expiry |-> 0]
Live   == {u \in Users : user[u] # NoUser}

Goto(r, record) == sess' = [sess EXCEPT ![r] = record]

\* get_current_user, in a thread of its own: the row as the session knows it.
Authenticate(r, u) ==
  /\ sess[r].pc = "idle" /\ u \in Live
  /\ Goto(r, [pc |-> "ready", user |-> u, image |-> user[u]])
  /\ UNCHANGED <<user, play, now, answers, lost, oneWorker>>

\* Mutant of LinkedToOther: only accounts still paying are looked at.
LinkedToActive(u, t) ==
  \E v \in Live \ {u} : user[v].purchase_token = t /\ user[v].expiry > now

\* The query linked_to_other.
LinkedToOther(u, t) == \E v \in Live \ {u} : user[v].purchase_token = t

\* The event loop enters a handler.  verify looks at the owner of the token
\* before it asks Google, restore afterwards.
Begin(r, t) ==
  /\ sess[r].pc = "ready"
  /\ oneWorker => \A q \in Requests : sess[q].pc \in {"idle", "ready"}
  /\ \E kind \in {"verify", "restore"} :
       /\ kind = "verify" => ~LinkedToOther(sess[r].user, t)
       /\ Goto(r, [pc |-> "ask", kind |-> kind, user |-> sess[r].user,
                   image |-> sess[r].image, token |-> t])
  /\ UNCHANGED <<user, play, now, answers, lost, oneWorker>>

\* Mutant of Accepted: any payment state will do.
AcceptedUnpaid(t) == play[t].expiry > now

\* _verify_google_play_purchase: not expired, and paid for, in trial or without
\* a payment state.
Accepted(t) == play[t].expiry > now /\ play[t].paid

\* The call to Google Play; it may fail, or the purchase be refused.
Ask(r) ==
  LET s == sess[r]
      t == s.token
  IN  /\ s.pc = "ask"
      /\ \/ /\ Accepted(t)
            /\ Goto(r, [pc |-> IF s.kind = "restore" THEN "owner" ELSE "acknowledge",
                        kind |-> s.kind, user |-> s.user, image |-> s.image,
                        token |-> t, response |-> play[t]])
            /\ answers' = IF play[t].paid THEN answers \cup {<<t, play[t].expiry>>}
                                          ELSE answers
         \/ /\ Goto(r, Idle)
            /\ UNCHANGED answers
      /\ UNCHANGED <<user, play, now, lost, oneWorker>>

CheckOwner(r) ==
  /\ sess[r].pc = "owner"
  /\ Goto(r, IF LinkedToOther(sess[r].user, sess[r].token) THEN Idle
             ELSE [sess[r] EXCEPT !.pc = "acknowledge"])
  /\ UNCHANGED <<user, play, now, answers, lost, oneWorker>>

\* Mutant of NeedsAck: a restored purchase is taken to be acknowledged.
NeedsAckOnce(s) == ~s.response.acknowledged /\ s.kind = "verify"

NeedsAck(s) == ~s.response.acknowledged

\* acknowledge(): a refusal is logged and passed over, another error ends the
\* request; either may have reached Google or not.
Acknowledge(r) ==
  LET t == sess[r].token
      onward == [sess[r] EXCEPT !.pc = "write"]
  IN  /\ sess[r].pc = "acknowledge"
      /\ \/ /\ ~NeedsAck(sess[r])
            /\ Goto(r, onward)
            /\ UNCHANGED <<play, lost, oneWorker>>
         \/ /\ NeedsAck(sess[r])
            /\ play' = [play EXCEPT ![t].acknowledged = TRUE]
            /\ Goto(r, onward) \/ Goto(r, Idle)
            /\ UNCHANGED lost
         \/ /\ NeedsAck(sess[r])
            /\ lost' = lost \cup {t}
            /\ Goto(r, onward) \/ Goto(r, Idle)
            /\ UNCHANGED play
      /\ UNCHANGED <<user, now, answers, oneWorker>>

\* A column is written when its value differs from the image.
Column(value, image, present) == IF value # image THEN value ELSE present

\* The row after the flush of what the handler assigned to the user object.
Flushed(s, row) ==
  [subscription   |-> Column("PRO", s.image.subscription, row.subscription),
   purchase_token |-> Column(s.token, s.image.purchase_token, row.purchase_token),
   expiry         |-> Column(s.response.expiry, s.image.expiry, row.expiry)]

\* The commit fails when the row is gone.
Write(r) ==
  LET s == sess[r]
  IN  /\ s.pc = "write"
      /\ user' = IF user[s.user] = NoUser THEN user
                 ELSE [user EXCEPT ![s.user] = Flushed(s, @)]
      /\ Goto(r, Idle)
      /\ UNCHANGED <<play, now, answers, lost, oneWorker>>

\* delete_user, here one step: it takes the row away.
DeleteAccount(u) ==
  /\ u \in Live
  /\ user' = [user EXCEPT ![u] = NoUser]
  /\ UNCHANGED <<play, now, sess, answers, lost, oneWorker>>

\* At Google: a purchase is made or renewed, or its payment is pending.
PlayChanges(t) ==
  /\ \E paid \in BOOLEAN, expiry \in now .. MaxTime :
       /\ expiry >= play[t].expiry
       /\ play' = [play EXCEPT ![t].paid = paid, ![t].expiry = expiry]
  /\ UNCHANGED <<user, now, sess, answers, lost, oneWorker>>

Pass ==
  /\ now < MaxTime
  /\ now' = now + 1
  /\ UNCHANGED <<user, play, sess, answers, lost, oneWorker>>

Init ==
  /\ user = [u \in Users |-> Free]
  /\ play = [t \in Tokens |-> [paid |-> FALSE, acknowledged |-> FALSE, expiry |-> 0]]
  /\ now = 0 /\ oneWorker \in Alone
  /\ sess = [r \in Requests |-> Idle]
  /\ answers = {} /\ lost = {}

Next ==
  \/ \E r \in Requests :
       \/ \E u \in Users : Authenticate(r, u)
       \/ \E t \in Tokens : Begin(r, t)
       \/ Ask(r) \/ CheckOwner(r) \/ Acknowledge(r) \/ Write(r)
  \/ \E u \in Users : DeleteAccount(u)
  \/ \E t \in Tokens : PlayChanges(t)
  \/ Pass

Spec == Init /\ [][Next]_vars

-----------------------------------------------------------------------------
(* Properties. *)

\* Served by one process, a purchase belongs to one account, whichever of the two
\* endpoints linked it and in whatever order accounts verify, restore and are
\* deleted.  (Two processes may link it to two accounts: nothing locks the token.)
TokenOwnedOnce ==
  oneWorker =>
    \A u, v \in Live :
      u # v => user[u].purchase_token = NULL \/ user[u].purchase_token # user[v].purchase_token

\* An account is PRO by a purchase Google has vouched for, also when the row was
\* written by several requests with images of different age.
ProMeansPaid ==
  \A u \in Live : user[u].subscription = "PRO" =>
    \E e \in 1 .. MaxTime : <<user[u].purchase_token, e>> \in answers

\* A purchase that made an account PRO has been acknowledged, or Google was asked
\* to and the call failed: unacknowledged purchases are refunded.
ProAcknowledged ==
  \A u \in Live : user[u].subscription = "PRO" =>
    play[user[u].purchase_token].acknowledged \/ user[u].purchase_token \in lost
=============================================================================
