-------------------------- MODULE AccountsTheorems --------------------------
(***************************************************************************)
(* Who is signed in, what Google is linked to and which reset links count, *)
(* for any number of addresses, requests and accounts and any lifetimes.   *)
(***************************************************************************)
EXTENDS Accounts, TLAPS

\* A row of users.
Row == [email : Emails, password : Passwords \cup {NULL}, google_id : GoogleIds \cup {NULL},
        is_verified : BOOLEAN, password_updated_at : Nat \cup {NULL}]

Mailed == [type : {"verify", "reset"}, sub : Emails, exp : Nat, pwd_at : Nat, at : Nat]

Session ==
  [pc : {"idle"}]
    \cup [pc : {"signup"}, email : Emails, password : Passwords]
    \cup [pc : {"link"}, id : Ids, email : Emails, google : GoogleIds]
    \cup [pc : {"google"}, email : Emails, google : GoogleIds]
    \cup [pc : {"reset"}, id : Ids, password : Passwords, link : Mailed, seen : Nat]

Typed ==
  /\ users \in [Ids -> Row \cup {NoUser}]
  /\ lastId \in 0 .. MaxAccounts
  /\ access \subseteq 1 .. lastId
  /\ links \subseteq Mailed
  /\ now \in Nat /\ now >= Start
  /\ sess \in [Requests -> Session]
  /\ changed \in [Ids -> Nat]

\* Ids are given in order; verified means proven, and so does signed in.
RowOK(i) ==
  /\ i <= lastId
  /\ users[i].is_verified => users[i].email \in proven
  /\ users[i].google_id # NULL => users[i].is_verified
  /\ i \in access => users[i].is_verified

\* Addresses are unique.
Unique == \A i, j \in Live : users[i].email = users[j].email => i = j

\* A reset found no change of the password since its link was mailed, but for the
\* tolerated seconds.
AttemptOK(s) == s.pc = "reset" => s.seen <= s.link.at + Tolerance

\* The second half of a request still finds what the first half saw, or no row.
SessionOK(x) ==
  /\ sess[x].pc = "google" => sess[x].email \in proven
  /\ sess[x].pc = "link" =>
       /\ sess[x].id <= lastId
       /\ sess[x].id \in Live => users[sess[x].id].is_verified
  /\ AttemptOK(sess[x])

\* A password has the time of its last change, in the past; a Google account has
\* none.
StampOK(i) ==
  /\ changed[i] <= now
  /\ users[i].password_updated_at # NULL =>
       users[i].password_updated_at = changed[i] /\ changed[i] >= Start
  /\ users[i].password # NULL => users[i].password_updated_at # NULL

\* A reset link carries a time not after its own, and the time of the last change
\* when there was none since.
LinkOK(link) ==
  link.type = "reset" =>
    /\ Start <= link.pwd_at /\ link.pwd_at <= link.at /\ link.at <= now
    /\ \A i \in ByEmail(link.sub) :
         changed[i] < link.at /\ users[i].password # NULL => link.pwd_at = changed[i]

AccountsInv ==
  /\ Typed
  /\ \A i \in Live : RowOK(i)
  /\ Unique
  /\ \A x \in Requests : SessionOK(x)
  /\ \A i \in Live : StampOK(i)
  /\ \A link \in links : LinkOK(link)

-----------------------------------------------------------------------------
\* A row is not the missing row.
LEMMA NoUserIsNoRow == NoUser \notin Row
BY DEF NoUser, Row

\* What a session is by its program counter.
LEMMA SessionByPc ==
  ASSUME NEW s \in Session
  PROVE  /\ s.pc = "signup" => s.email \in Emails /\ s.password \in Passwords
         /\ s.pc = "link" => s.id \in Ids /\ s.email \in Emails /\ s.google \in GoogleIds
         /\ s.pc = "google" => s.email \in Emails /\ s.google \in GoogleIds
         /\ s.pc = "reset" => s.id \in Ids /\ s.password \in Passwords /\ s.link \in Mailed
BY DEF Session

\* A step that writes no row and adds no link, whatever its request does next.
LEMMA RowsKept ==
  ASSUME AccountsInv, UNCHANGED <<rows, links, changed>>,
         now' \in Nat, now' >= now,
         proven \subseteq proven', 
         sess' \in [Requests -> Session],
         \A x \in Requests : sess'[x] = sess[x] \/ SessionOK(x)',
         access' \subseteq 1 .. lastId,
         \A i \in access' \ access : i \in Live => users[i].is_verified
  PROVE  AccountsInv'
<1>1. Typed'
  <2>1. Start \in Nat
    BY TimesAssumption DEF Start
  <2>2. now' >= Start
    BY <2>1 DEF AccountsInv, Typed
  <2> QED
    BY <2>1, <2>2 DEF AccountsInv, Typed, rows, Ids, Start
<1>2. Live' = Live /\ \A e : ByEmail(e)' = ByEmail(e)
  BY DEF Live, ByEmail, rows
<1>3. \A i \in Live' : RowOK(i)'
  BY <1>2 DEF AccountsInv, RowOK, rows
<1>4. Unique'
  BY <1>2 DEF AccountsInv, Unique, rows
<1>5. \A x \in Requests : SessionOK(x)'
  BY <1>2 DEF AccountsInv, SessionOK, AttemptOK, rows
<1>6. \A i \in Live' : StampOK(i)'
  <2> SUFFICES ASSUME NEW i \in Live' PROVE StampOK(i)'
    OBVIOUS
  <2>1. i \in Ids /\ StampOK(i) /\ changed[i] \in Nat /\ now \in Nat
    BY <1>2 DEF AccountsInv, Typed, Live
  <2> QED
    BY <2>1 DEF StampOK, rows, Start
<1>7. \A link \in links' : LinkOK(link)'
  <2> SUFFICES ASSUME NEW link \in links' PROVE LinkOK(link)'
    OBVIOUS
  <2>1. LinkOK(link) /\ link \in Mailed /\ now \in Nat
    BY DEF AccountsInv, Typed
  <2> QED
    BY <1>2, <2>1 DEF LinkOK, Mailed, rows, Start
<1> QED
  BY <1>1, <1>3, <1>4, <1>5, <1>6, <1>7 DEF AccountsInv

\* A row that is changed: verified, linked, or given another password.
LEMMA RowUpdated ==
  ASSUME AccountsInv, NEW i \in Live, NEW r \in Row,
         users' = [users EXCEPT ![i] = r],
         UNCHANGED <<lastId, links, now>>,
         proven \subseteq proven',
         r.email = users[i].email,
         users[i].is_verified => r.is_verified,
         r.is_verified => r.email \in proven',
         r.google_id # NULL => r.is_verified,
         \/ /\ changed' = changed /\ r.password = users[i].password
            /\ r.password_updated_at = users[i].password_updated_at
         \/ changed' = [changed EXCEPT ![i] = now] /\ r.password_updated_at = now,
         sess' \in [Requests -> Session],
         \A x \in Requests : sess'[x] = sess[x] \/ sess'[x].pc = "idle",
         access' \subseteq 1 .. lastId,
         \A j \in access' \ access : j = i /\ r.is_verified
  PROVE  AccountsInv'
<1>1. /\ users \in [Ids -> Row \cup {NoUser}] /\ i \in Ids /\ users[i] # NoUser
      /\ now \in Nat /\ now >= Start /\ Start \in Nat /\ changed \in [Ids -> Nat]
      /\ r # NoUser /\ NULL \notin Nat
  BY NoUserIsNoRow, TimesAssumption, NullAssumption DEF AccountsInv, Typed, Live, Start
<1>2. users' \in [Ids -> Row \cup {NoUser}] /\ changed' \in [Ids -> Nat]
  BY <1>1
<1>3. /\ users'[i] = r /\ changed'[i] \in {changed[i], now}
      /\ \A j \in Ids \ {i} : users'[j] = users[j] /\ changed'[j] = changed[j]
  BY <1>1
<1>4. Live' = Live
  BY <1>1, <1>3 DEF Live, Ids
<1>5. \A j \in Live : users'[j].email = users[j].email
  BY <1>3 DEF Live
<1>6. \A e : ByEmail(e)' = ByEmail(e)
  BY <1>4, <1>5 DEF ByEmail
<1>7. Typed'
  BY <1>1, <1>2 DEF AccountsInv, Typed, Ids, Start
<1>8. \A j \in Live' : RowOK(j)'
  <2> SUFFICES ASSUME NEW j \in Live PROVE RowOK(j)'
    BY <1>4
  <2>1. RowOK(j) /\ j \in Ids
    BY DEF AccountsInv, Live
  <2>2. CASE j = i
    BY <1>3, <2>1, <2>2 DEF RowOK
  <2>3. CASE j # i
    BY <1>3, <2>1, <2>3 DEF RowOK
  <2> QED
    BY <2>2, <2>3
<1>9. Unique'
  BY <1>4, <1>5 DEF AccountsInv, Unique
<1>10. \A x \in Requests : SessionOK(x)'
  <2> SUFFICES ASSUME NEW x \in Requests, sess'[x] = sess[x] PROVE SessionOK(x)'
    BY DEF SessionOK, AttemptOK
  <2>1. SessionOK(x)
    BY DEF AccountsInv
  <2>2. \A j \in Live : users[j].is_verified => users'[j].is_verified
    BY <1>3 DEF Live
  <2> QED
    BY <1>4, <2>1, <2>2 DEF SessionOK, AttemptOK
<1>11. \A j \in Live' : StampOK(j)'
  <2> SUFFICES ASSUME NEW j \in Live PROVE StampOK(j)'
    BY <1>4
  <2>1. StampOK(j) /\ j \in Ids /\ StampOK(i)
    BY DEF AccountsInv, Live
  <2>2. CASE j = i
    <3>1. CASE /\ changed' = changed /\ r.password = users[i].password
               /\ r.password_updated_at = users[i].password_updated_at
      BY <1>3, <2>1, <2>2, <3>1 DEF StampOK, Start
    <3>2. CASE changed' = [changed EXCEPT ![i] = now] /\ r.password_updated_at = now
      <4>1. changed'[i] = now
        BY <1>1, <3>2
      <4> QED
        BY <1>1, <1>3, <2>2, <3>2, <4>1 DEF StampOK, Start
    <3> QED
      BY <3>1, <3>2
  <2>3. CASE j # i
    BY <1>3, <2>1, <2>3 DEF StampOK, Start
  <2> QED
    BY <2>2, <2>3
<1>12. \A link \in links' : LinkOK(link)'
  <2> SUFFICES ASSUME NEW link \in links, link.type = "reset" PROVE LinkOK(link)'
    BY DEF LinkOK
  <2>1. LinkOK(link) /\ link.at \in Nat
    BY DEF AccountsInv, Typed, Mailed
  <2>2. ASSUME NEW j \in ByEmail(link.sub), changed'[j] < link.at, users'[j].password # NULL
        PROVE  link.pwd_at = changed'[j]
    <3>1. j \in Ids
      BY DEF ByEmail, Live
    <3>2. changed'[j] = changed[j] /\ users'[j].password = users[j].password
      BY <1>1, <1>3, <2>1, <2>2, <3>1 DEF LinkOK
    <3> QED
      BY <2>1, <2>2, <3>2 DEF LinkOK
  <2> QED
    BY <1>6, <2>1, <2>2 DEF LinkOK, Start
<1> QED
  BY <1>7, <1>8, <1>9, <1>10, <1>11, <1>12 DEF AccountsInv

\* A row that is inserted, under the next id, for an address nobody has.
LEMMA RowInserted ==
  ASSUME AccountsInv, NEW r \in Row, NEW n, n = lastId + 1, n \in Ids, lastId' = n,
         ByEmail(r.email) = {},
         users' \in [Ids -> Row \cup {NoUser}], changed' \in [Ids -> Nat],
         users'[n] = r, changed'[n] = now,
         \A j \in Ids \ {n} : users'[j] = users[j] /\ changed'[j] = changed[j],
         UNCHANGED <<now, proven>>,
         r.is_verified => r.email \in proven,
         r.google_id # NULL => r.is_verified,
         \/ r.password_updated_at = now
         \/ r.password_updated_at = NULL /\ r.password = NULL,
         links' \subseteq Mailed,
         \A link \in links' \ links : link.type = "verify",
         sess' \in [Requests -> Session],
         \A x \in Requests : sess'[x] = sess[x] \/ sess'[x].pc = "idle",
         access' \subseteq access \cup {n},
         n \in access' => r.is_verified
  PROVE  AccountsInv'
<1>1. /\ lastId \in Nat /\ MaxAccounts \in Nat /\ n \in 1 .. MaxAccounts
      /\ now \in Nat /\ now >= Start /\ Start \in Nat
      /\ r # NoUser /\ NULL \notin Nat /\ access \subseteq 1 .. lastId
  BY NoUserIsNoRow, TimesAssumption, NullAssumption, CountAssumption
     DEF AccountsInv, Typed, Ids, Start
<1>2. n \notin Live /\ Live \subseteq 1 .. lastId
  BY <1>1 DEF AccountsInv, RowOK, Live, Ids
<1>6. Live' = Live \cup {n} /\ \A j \in Live : users'[j] = users[j] /\ changed'[j] = changed[j]
  BY <1>1, <1>2 DEF Live
<1>7. Typed'
  BY <1>1 DEF AccountsInv, Typed, Ids, Start
<1>8. \A j \in Live' : RowOK(j)'
  <2>1. RowOK(n)'
    BY <1>1 DEF RowOK
  <2>2. ASSUME NEW j \in Live PROVE RowOK(j)'
    <3>1. RowOK(j) /\ j \in 1 .. lastId /\ j # n /\ users'[j] = users[j]
      BY <1>2, <1>6 DEF AccountsInv
    <3>2. j \in access' => j \in access
      BY <3>1
    <3> QED
      BY <1>1, <3>1, <3>2 DEF RowOK
  <2> QED
    BY <1>6, <2>1, <2>2
<1>9. Unique'
  BY <1>6 DEF AccountsInv, Unique, ByEmail
<1>10. \A x \in Requests : SessionOK(x)'
  <2> SUFFICES ASSUME NEW x \in Requests, sess'[x] = sess[x] PROVE SessionOK(x)'
    BY DEF SessionOK, AttemptOK
  <2>1. SessionOK(x)
    BY DEF AccountsInv
  <2>2. sess[x].pc = "link" => sess[x].id # n /\ sess[x].id <= lastId'
    <3>1. sess[x].pc = "link" => sess[x].id \in Ids
      BY SessionByPc DEF AccountsInv, Typed
    <3> QED
      BY <1>1, <2>1, <3>1 DEF SessionOK, Ids
  <2> QED
    BY <1>6, <2>1, <2>2 DEF SessionOK, AttemptOK
<1>11. \A j \in Live' : StampOK(j)'
  <2>1. StampOK(n)'
    BY <1>1 DEF StampOK, Start
  <2>2. ASSUME NEW j \in Live PROVE StampOK(j)'
    BY <1>6, <2>2 DEF AccountsInv, StampOK, Start
  <2> QED
    BY <1>6, <2>1, <2>2
<1>12. \A link \in links' : LinkOK(link)'
  <2> SUFFICES ASSUME NEW link \in links, link.type = "reset" PROVE LinkOK(link)'
    BY DEF LinkOK
  <2>1. LinkOK(link) /\ link.at \in Nat
    BY DEF AccountsInv, Typed, Mailed
  <2>2. ASSUME NEW j \in ByEmail(link.sub)', changed'[j] < link.at, users'[j].password # NULL
        PROVE  link.pwd_at = changed'[j]
    <3>1. j # n
      BY <1>1, <2>1, <2>2 DEF LinkOK
    <3>2. j \in ByEmail(link.sub) /\ users'[j] = users[j] /\ changed'[j] = changed[j]
      BY <1>6, <2>2, <3>1 DEF ByEmail
    <3> QED
      BY <2>1, <2>2, <3>2 DEF LinkOK
  <2> QED
    BY <2>1, <2>2 DEF LinkOK, Start
<1> QED
  BY <1>7, <1>8, <1>9, <1>10, <1>11, <1>12 DEF AccountsInv

\* An account that is deleted.
LEMMA RowDeleted ==
  ASSUME AccountsInv, NEW i \in Live, Delete(i)
  PROVE  AccountsInv'
<1>1. users \in [Ids -> Row \cup {NoUser}] /\ i \in Ids
  BY DEF AccountsInv, Typed, Live
<1>2. users' \in [Ids -> Row \cup {NoUser}] /\ users'[i] = NoUser
  BY <1>1 DEF Delete
<1>3. Live' = Live \ {i} /\ \A j \in Live' : users'[j] = users[j]
  BY <1>1, <1>2 DEF Delete, Live, Ids
<1>4. UNCHANGED <<lastId, access, links, now, sess, proven, changed>>
  BY DEF Delete, hist
<1>5. Typed'
  BY <1>2, <1>4 DEF AccountsInv, Typed, Ids, Start
<1>6. \A j \in Live' : RowOK(j)' /\ StampOK(j)'
  BY <1>3, <1>4 DEF AccountsInv, RowOK, StampOK, Start
<1>7. Unique'
  BY <1>3 DEF AccountsInv, Unique
<1>8. \A x \in Requests : SessionOK(x)'
  BY <1>3, <1>4 DEF AccountsInv, SessionOK, AttemptOK
<1>9. \A e : \A j \in ByEmail(e)' : j \in ByEmail(e) /\ users'[j] = users[j]
  BY <1>3 DEF ByEmail
<1>10. \A link \in links' : LinkOK(link)'
  BY <1>4, <1>9 DEF AccountsInv, LinkOK, Start
<1> QED
  BY <1>5, <1>6, <1>7, <1>8, <1>10 DEF AccountsInv

\* A reset link that is mailed.
LEMMA LinkAdded ==
  ASSUME AccountsInv, NEW e \in Emails, Forgot(e)
  PROVE  AccountsInv'
<1>1. PICK i \in ByEmail(e) :
        links' = links \cup
          {Link("reset", e, ResetLife,
                IF users[i].password_updated_at = NULL THEN now
                ELSE users[i].password_updated_at)}
  BY DEF Forgot
<1> DEFINE t == IF users[i].password_updated_at = NULL THEN now
                ELSE users[i].password_updated_at
           link == Link("reset", e, ResetLife, t)
<1>2. /\ i \in Live /\ users[i].email = e /\ i \in Ids
      /\ now \in Nat /\ now >= Start /\ Start \in Nat /\ changed \in [Ids -> Nat] /\ StampOK(i)
  BY <1>1, TimesAssumption DEF ByEmail, Live, AccountsInv, Typed, Start
<1>3. t \in Nat /\ Start <= t /\ t <= now
  BY <1>2 DEF StampOK
<1>4. /\ link \in Mailed /\ link.type = "reset" /\ link.sub = e
      /\ link.pwd_at = t /\ link.at = now
  BY <1>2, <1>3, TimesAssumption DEF Link, Mailed
<1>5. \A j \in ByEmail(e) : j = i
  BY <1>2 DEF AccountsInv, Unique, ByEmail
<1>6. users[i].password # NULL => t = changed[i]
  BY <1>2 DEF StampOK
<1>7. links' = links \cup {link}
  BY <1>1
<1> HIDE DEF link
<1>8. LinkOK(link)
  BY <1>2, <1>3, <1>4, <1>5, <1>6 DEF LinkOK
<1>9. UNCHANGED <<users, lastId, access, now, sess, proven, changed>>
  BY DEF Forgot, rows, hist
<1>10. Typed'
  BY <1>4, <1>7, <1>9 DEF AccountsInv, Typed, Ids, Start
<1>11. Live' = Live /\ \A a : ByEmail(a)' = ByEmail(a)
  BY <1>9 DEF Live, ByEmail
<1>12. (\A j \in Live' : RowOK(j)' /\ StampOK(j)') /\ Unique'
  BY <1>9, <1>11 DEF AccountsInv, RowOK, StampOK, Unique, Start
<1>13. \A x \in Requests : SessionOK(x)'
  BY <1>9, <1>11 DEF AccountsInv, SessionOK, AttemptOK
<1>14. \A l \in links' : LinkOK(l)'
  BY <1>7, <1>8, <1>9, <1>11 DEF AccountsInv, LinkOK, Start
<1> QED
  BY <1>10, <1>12, <1>13, <1>14 DEF AccountsInv

-----------------------------------------------------------------------------
\* An INSERT either leaves rows and stamps alone or fills the next id.
LEMMA InsertFacts ==
  ASSUME AccountsInv, NEW x, NEW r, Insert(x, r)
  PROVE  \/ UNCHANGED <<rows, changed>>
         \/ LET n == lastId + 1
            IN  /\ n \in Ids /\ lastId' = n /\ ByEmail(r.email) = {}
                /\ users' = [users EXCEPT ![n] = r]
                /\ changed' = [changed EXCEPT ![n] = now]
                /\ users'[n] = r /\ changed'[n] = now
                /\ \A j \in Ids \ {n} : users'[j] = users[j] /\ changed'[j] = changed[j]
<1>1. CASE UNCHANGED <<rows, changed>>
  BY <1>1
<1>2. CASE ~UNCHANGED <<rows, changed>>
  <2>1. /\ ByEmail(r.email) = {} /\ lastId < MaxAccounts /\ lastId' = lastId + 1
        /\ users' = [users EXCEPT ![lastId + 1] = r]
        /\ changed' = [changed EXCEPT ![lastId + 1] = now]
    BY <1>2 DEF Insert
  <2>2. lastId + 1 \in Ids /\ users \in [Ids -> Row \cup {NoUser}] /\ changed \in [Ids -> Nat]
    BY <2>1, CountAssumption DEF AccountsInv, Typed, Ids
  <2> QED
    BY <2>1, <2>2
<1> QED
  BY <1>1, <1>2

\* A sign-up that has read that its address is free.
LEMMA SignupCheckStep ==
  ASSUME AccountsInv, NEW x \in Requests, SignupCheck(x)
  PROVE  AccountsInv'
<1>1. PICK e \in Emails, p \in Passwords :
        sess' = [sess EXCEPT ![x] = [pc |-> "signup", email |-> e, password |-> p]]
  BY DEF SignupCheck, Goto
<1>2. [pc |-> "signup", email |-> e, password |-> p] \in Session
  BY DEF Session
<1>3. sess' \in [Requests -> Session] /\ \A y \in Requests : sess'[y] = sess[y] \/ SessionOK(y)'
  BY <1>1, <1>2 DEF AccountsInv, Typed, SessionOK, AttemptOK
<1> QED
  BY <1>3, RowsKept DEF SignupCheck, AccountsInv, Typed, hist, rows

\* A login with a password enters a verified account.
LEMMA LoginStep ==
  ASSUME AccountsInv, NEW i \in Ids, NEW p \in Passwords, Login(i, p)
  PROVE  AccountsInv'
<1>1. i \in 1 .. lastId /\ users[i].is_verified
  BY CountAssumption DEF Login, AccountsInv, Typed, RowOK, Ids
<1>2. access' \subseteq 1 .. lastId /\ \A j \in access' \ access : users[j].is_verified
  BY <1>1 DEF Login, AccountsInv, Typed
<1>3. sess' \in [Requests -> Session] /\ \A y \in Requests : sess'[y] = sess[y]
  BY DEF Login, AccountsInv, Typed
<1> QED
  BY <1>2, <1>3, RowsKept DEF Login, AccountsInv, Typed, hist, rows

\* Time passes.
LEMMA PassStep ==
  ASSUME AccountsInv, Pass
  PROVE  AccountsInv'
<1>1. sess' \in [Requests -> Session] /\ \A y \in Requests : sess'[y] = sess[y]
  BY DEF Pass, AccountsInv, Typed
<1>2. now' \in Nat /\ now' >= now /\ access' \subseteq 1 .. lastId /\ access' = access
  BY DEF Pass, AccountsInv, Typed
<1> QED
  BY <1>1, <1>2, RowsKept DEF Pass, hist, rows

\* Signing in with Google enters a verified account, or remembers one that may be
\* linked, or an address that is free.
LEMMA GoogleLoginStep ==
  ASSUME AccountsInv, NEW x \in Requests, NEW g \in GoogleIds, NEW e \in Emails,
         GoogleLogin(x, g, e)
  PROVE  AccountsInv'
<1>1. /\ g # NULL /\ sess \in [Requests -> Session] /\ access \subseteq 1 .. lastId
      /\ lastId \in Nat /\ Live \subseteq 1 .. lastId /\ now \in Nat
  BY NullAssumption, CountAssumption DEF AccountsInv, Typed, RowOK, Live, Ids
<1>2. UNCHANGED <<rows, links, now, changed>> /\ proven' = proven \cup {e}
  BY DEF GoogleLogin
<1>3. CASE \E i \in Live :
             /\ users[i].google_id = g
             /\ access' = access \cup {i} /\ sess' = sess
  <2>1. PICK i \in Live : users[i].google_id = g /\ access' = access \cup {i} /\ sess' = sess
    BY <1>3
  <2>2. users[i].is_verified
    BY <1>1, <2>1 DEF AccountsInv, RowOK
  <2>3. access' \subseteq 1 .. lastId /\ \A j \in access' \ access : users[j].is_verified
    BY <1>1, <2>1, <2>2
  <2> QED
    BY <1>1, <1>2, <2>1, <2>3, RowsKept
<1>4. CASE \E i \in ByEmail(e) :
             /\ users[i].is_verified
             /\ Goto(x, [pc |-> "link", id |-> i, email |-> e, google |-> g])
             /\ access' = access
  <2>1. PICK i \in ByEmail(e) :
          /\ users[i].is_verified /\ access' = access
          /\ sess' = [sess EXCEPT ![x] = [pc |-> "link", id |-> i, email |-> e, google |-> g]]
    BY <1>4 DEF Goto
  <2>2. i \in Live /\ i \in Ids
    BY DEF ByEmail, Live
  <2>3. [pc |-> "link", id |-> i, email |-> e, google |-> g] \in Session
    BY <2>2 DEF Session
  <2>4. sess' \in [Requests -> Session] /\ (\A y \in Requests \ {x} : sess'[y] = sess[y])
        /\ sess'[x] = [pc |-> "link", id |-> i, email |-> e, google |-> g]
    BY <1>1, <2>1, <2>3
  <2>5. i <= lastId
    BY <2>2 DEF AccountsInv, RowOK
  <2>6. SessionOK(x)'
    BY <1>2, <2>1, <2>4, <2>5 DEF SessionOK, AttemptOK, rows
  <2> QED
    BY <1>1, <1>2, <2>1, <2>4, <2>6, RowsKept
<1>5. CASE Goto(x, [pc |-> "google", email |-> e, google |-> g]) /\ access' = access
  <2>1. [pc |-> "google", email |-> e, google |-> g] \in Session
    BY DEF Session
  <2>2. sess' \in [Requests -> Session] /\ (\A y \in Requests \ {x} : sess'[y] = sess[y])
        /\ sess'[x] = [pc |-> "google", email |-> e, google |-> g]
    BY <1>1, <1>5, <2>1 DEF Goto
  <2>3. SessionOK(x)'
    BY <1>2, <2>2 DEF SessionOK, AttemptOK
  <2> QED
    BY <1>1, <1>2, <1>5, <2>2, <2>3, RowsKept
<1> QED
  BY <1>1, <1>3, <1>4, <1>5 DEF GoogleLogin, ByGoogle, ByEmail, Linkable

\* A sign-up writes its row and mails a link of another kind than reset.
LEMMA SignupWriteStep ==
  ASSUME AccountsInv, NEW x \in Requests, SignupWrite(x)
  PROVE  AccountsInv'
<1> DEFINE r == [email |-> sess[x].email, password |-> sess[x].password,
                 google_id |-> NULL, is_verified |-> FALSE, password_updated_at |-> now]
           link == Link("verify", sess[x].email, VerifyLife, 0)
<1>1. /\ sess[x].email \in Emails /\ sess[x].password \in Passwords
      /\ sess \in [Requests -> Session] /\ now \in Nat /\ access \subseteq 1 .. lastId
      /\ lastId \in Nat
  BY SessionByPc, CountAssumption DEF SignupWrite, AccountsInv, Typed
<1>2. r \in Row /\ link \in Mailed /\ link.type = "verify"
  BY <1>1, TimesAssumption DEF Row, Mailed, Link
<1>3. sess' \in [Requests -> Session] /\ \A y \in Requests : sess'[y] = sess[y] \/ sess'[y].pc = "idle"
  BY <1>1 DEF SignupWrite, Goto, Idle, Session
<1>4. Insert(x, r) /\ UNCHANGED <<access, now, proven>>
  BY DEF SignupWrite
<1>5. links' = links \/ (links' = links \cup {link} /\ lastId' # lastId)
  BY DEF SignupWrite, Inserted
<1>6. /\ r.email = sess[x].email /\ ~r.is_verified /\ r.google_id = NULL
      /\ r.password_updated_at = now
  OBVIOUS
<1> HIDE DEF r, link
<1>7. CASE UNCHANGED <<rows, changed>>
  <2>1. links' = links
    BY <1>5, <1>7 DEF rows
  <2>2. \A y \in Requests : sess'[y] = sess[y] \/ SessionOK(y)'
    BY <1>3 DEF SessionOK, AttemptOK
  <2> QED
    BY <1>1, <1>3, <1>4, <1>7, <2>1, <2>2, RowsKept
<1>8. CASE ~UNCHANGED <<rows, changed>>
  <2>1. /\ lastId + 1 \in Ids /\ lastId' = lastId + 1 /\ ByEmail(r.email) = {}
        /\ users' = [users EXCEPT ![lastId + 1] = r]
        /\ changed' = [changed EXCEPT ![lastId + 1] = now]
        /\ users'[lastId + 1] = r /\ changed'[lastId + 1] = now
        /\ \A j \in Ids \ {lastId + 1} : users'[j] = users[j] /\ changed'[j] = changed[j]
    BY <1>4, <1>8, InsertFacts
  <2>2. users' \in [Ids -> Row \cup {NoUser}] /\ changed' \in [Ids -> Nat]
    BY <1>1, <1>2, <2>1 DEF AccountsInv, Typed
  <2>3. links' \subseteq Mailed /\ \A l \in links' \ links : l.type = "verify"
    BY <1>2, <1>5 DEF AccountsInv, Typed
  <2>4. access' = access /\ lastId + 1 \notin access
    BY <1>1, <1>4
  <2> DEFINE n == lastId + 1
  <2>5. n = lastId + 1
    OBVIOUS
  <2> HIDE DEF n
  <2> QED
    BY <1>2, <1>3, <1>4, <1>6, <2>1, <2>2, <2>3, <2>4, <2>5, RowInserted
<1> QED
  BY <1>7, <1>8

\* Google vouches for the address of the account it makes.
LEMMA GoogleWriteStep ==
  ASSUME AccountsInv, NEW x \in Requests, GoogleWrite(x)
  PROVE  AccountsInv'
<1> DEFINE r == [email |-> sess[x].email, password |-> NULL, google_id |-> sess[x].google,
                 is_verified |-> TRUE, password_updated_at |-> NULL]
<1>1. /\ sess[x].email \in Emails /\ sess[x].google \in GoogleIds /\ sess[x].email \in proven
      /\ sess \in [Requests -> Session] /\ now \in Nat /\ access \subseteq 1 .. lastId
      /\ lastId \in Nat
  BY SessionByPc, CountAssumption DEF GoogleWrite, AccountsInv, Typed, SessionOK
<1>2. r \in Row
  BY <1>1 DEF Row
<1>3. sess' \in [Requests -> Session] /\ \A y \in Requests : sess'[y] = sess[y] \/ sess'[y].pc = "idle"
  BY <1>1 DEF GoogleWrite, Goto, Idle, Session
<1>4. Insert(x, r) /\ UNCHANGED <<links, now, proven>>
  BY DEF GoogleWrite
<1>5. access' = access \cup (IF lastId' # lastId THEN {lastId'} ELSE {})
  BY DEF GoogleWrite, Inserted
<1>6. /\ r.email \in proven /\ r.is_verified
      /\ r.password_updated_at = NULL /\ r.password = NULL
  BY <1>1
<1> HIDE DEF r
<1>7. CASE UNCHANGED <<rows, changed>>
  <2>1. access' = access
    BY <1>5, <1>7 DEF rows
  <2>2. \A y \in Requests : sess'[y] = sess[y] \/ SessionOK(y)'
    BY <1>3 DEF SessionOK, AttemptOK
  <2> QED
    BY <1>1, <1>3, <1>4, <1>7, <2>1, <2>2, RowsKept
<1>8. CASE ~UNCHANGED <<rows, changed>>
  <2>1. /\ lastId + 1 \in Ids /\ lastId' = lastId + 1 /\ ByEmail(r.email) = {}
        /\ users' = [users EXCEPT ![lastId + 1] = r]
        /\ changed' = [changed EXCEPT ![lastId + 1] = now]
        /\ users'[lastId + 1] = r /\ changed'[lastId + 1] = now
        /\ \A j \in Ids \ {lastId + 1} : users'[j] = users[j] /\ changed'[j] = changed[j]
    BY <1>4, <1>8, InsertFacts
  <2>2. users' \in [Ids -> Row \cup {NoUser}] /\ changed' \in [Ids -> Nat]
    BY <1>1, <1>2, <2>1 DEF AccountsInv, Typed
  <2>3. links' \subseteq Mailed /\ links' = links
    BY <1>4 DEF AccountsInv, Typed
  <2>4. access' \subseteq access \cup {lastId + 1}
    BY <1>5, <2>1
  <2> DEFINE n == lastId + 1
  <2>5. n = lastId + 1
    OBVIOUS
  <2> HIDE DEF n
  <2> QED
    BY <1>2, <1>3, <1>4, <1>6, <2>1, <2>2, <2>3, <2>4, <2>5, RowInserted
<1> QED
  BY <1>7, <1>8

\* The link is written to the row that was read, which is verified still.
LEMMA GoogleLinkStep ==
  ASSUME AccountsInv, NEW x \in Requests, GoogleLink(x)
  PROVE  AccountsInv'
<1>1. /\ sess[x].google \in GoogleIds /\ sess \in [Requests -> Session] /\ now \in Nat
      /\ users \in [Ids -> Row \cup {NoUser}] /\ access \subseteq 1 .. lastId /\ lastId \in Nat
      /\ SessionOK(x) /\ sess[x].pc = "link"
  BY SessionByPc, CountAssumption DEF GoogleLink, AccountsInv, Typed
<1>2. sess' \in [Requests -> Session] /\ \A y \in Requests : sess'[y] = sess[y] \/ sess'[y].pc = "idle"
  BY <1>1 DEF GoogleLink, Goto, Idle, Session
<1>3. UNCHANGED <<lastId, links, now, proven, changed>>
  BY DEF GoogleLink, hist
<1>4. CASE UNCHANGED <<users, access>>
  <2>1. \A y \in Requests : sess'[y] = sess[y] \/ SessionOK(y)'
    BY <1>2 DEF SessionOK, AttemptOK
  <2> QED
    BY <1>1, <1>2, <1>3, <1>4, <2>1, RowsKept DEF rows
<1>5. CASE \E i \in LinkTargets(x) :
             /\ users' = [users EXCEPT ![i].google_id = sess[x].google]
             /\ access' = access \cup {i}
  <2>1. PICK i \in LinkTargets(x) :
          /\ users' = [users EXCEPT ![i].google_id = sess[x].google]
          /\ access' = access \cup {i}
    BY <1>5
  <2>2. i \in Live /\ i \in Ids /\ users[i] \in Row /\ users[i].is_verified /\ RowOK(i)
    BY <1>1 DEF LinkTargets, SessionOK, Live, AccountsInv
  <2> DEFINE r == [users[i] EXCEPT !.google_id = sess[x].google]
  <2>3. /\ r \in Row /\ r.email = users[i].email /\ r.is_verified = users[i].is_verified
        /\ r.password = users[i].password
        /\ r.password_updated_at = users[i].password_updated_at
    BY <1>1, <2>2 DEF Row
  <2>4. users' = [users EXCEPT ![i] = r]
    BY <2>1
  <2> HIDE DEF r
  <2>5. i \in 1 .. lastId /\ users[i].email \in proven
    BY <1>1, <2>2 DEF RowOK, Ids
  <2>6. access' \subseteq 1 .. lastId /\ \A j \in access' \ access : j = i
    BY <1>1, <2>1, <2>5
  <2> QED
    BY <1>2, <1>3, <2>2, <2>3, <2>4, <2>5, <2>6, RowUpdated
<1> QED
  BY <1>4, <1>5 DEF GoogleLink

\* A reset link that passes the check was mailed after the last change, but for the
\* tolerated seconds.
LEMMA CheckedLink ==
  ASSUME AccountsInv, NEW link \in links, link.type = "reset",
         NEW i \in ByEmail(link.sub), Unspent(i, link)
  PROVE  changed[i] <= link.at + Tolerance
<1>1. /\ i \in Live /\ changed[i] \in Nat /\ link.at \in Nat /\ link.pwd_at \in Nat
      /\ StampOK(i) /\ LinkOK(link) /\ Tolerance \in Nat /\ Start = Tolerance + 1
  BY TimesAssumption DEF ByEmail, Live, AccountsInv, Typed, Mailed, Start
<1>2. Start <= link.pwd_at /\ link.pwd_at <= link.at
  BY <1>1 DEF LinkOK
<1>3. CASE users[i].password_updated_at = NULL
  <2>1. PasswordTime(i) = 0
    BY <1>3 DEF PasswordTime
  <2> QED
    BY <1>1, <1>2, <2>1 DEF Unspent
<1>4. CASE users[i].password_updated_at # NULL
  <2>1. PasswordTime(i) = changed[i]
    BY <1>1, <1>4 DEF PasswordTime, StampOK
  <2>2. changed[i] <= link.pwd_at + Tolerance
    BY <1>1, <2>1 DEF Unspent
  <2> QED
    BY <1>1, <1>2, <2>2
<1> QED
  BY <1>3, <1>4

\* A reset link is looked at; what the request will write is typed.
LEMMA ResetCheckStep ==
  ASSUME AccountsInv, NEW x \in Requests, NEW link \in links, ResetCheck(x, link)
  PROVE  AccountsInv'
<1>1. PICK i \in ByEmail(link.sub), p \in Passwords :
        /\ Unspent(i, link)
        /\ sess' = [sess EXCEPT ![x] = [pc |-> "reset", id |-> i, password |-> p,
                                        link |-> link, seen |-> changed[i]]]
  BY DEF ResetCheck, Goto
<1> PICK s : s = [pc |-> "reset", id |-> i, password |-> p, link |-> link, seen |-> changed[i]]
  OBVIOUS
<1>2. s \in Session
  BY DEF Session, ByEmail, Live, AccountsInv, Typed
<1>3. changed[i] <= link.at + Tolerance
  BY <1>1, CheckedLink DEF ResetCheck, Valid
<1>4. UNCHANGED <<now, changed>> /\ now \in Nat /\ sess \in [Requests -> Session]
  BY DEF ResetCheck, hist, AccountsInv, Typed
<1>5. sess' \in [Requests -> Session] /\ sess'[x] = s
        /\ \A y \in Requests \ {x} : sess'[y] = sess[y]
  BY <1>1, <1>2, <1>4
<1>6. SessionOK(x)'
  BY <1>3, <1>4, <1>5 DEF SessionOK, AttemptOK
<1> QED
  BY <1>5, <1>6, RowsKept DEF ResetCheck, AccountsInv, Typed, hist, rows

\* The password and its time are written together.
LEMMA ResetWriteStep ==
  ASSUME AccountsInv, NEW x \in Requests, ResetWrite(x)
  PROVE  AccountsInv'
<1> DEFINE i == sess[x].id
<1>1. /\ sess[x].password \in Passwords /\ i \in Ids /\ sess \in [Requests -> Session]
      /\ now \in Nat /\ users \in [Ids -> Row \cup {NoUser}] /\ access \subseteq 1 .. lastId
  BY SessionByPc DEF ResetWrite, AccountsInv, Typed
<1>2. sess' \in [Requests -> Session] /\ \A y \in Requests : sess'[y] = sess[y] \/ sess'[y].pc = "idle"
  BY <1>1 DEF ResetWrite, Goto, Idle, Session
<1>3. UNCHANGED <<lastId, access, links, now, proven>>
  BY DEF ResetWrite
<1>4. CASE i \notin Live
  <2>1. UNCHANGED <<users, changed>>
    BY <1>4 DEF ResetWrite
  <2>2. \A y \in Requests : sess'[y] = sess[y] \/ SessionOK(y)'
    BY <1>2 DEF SessionOK, AttemptOK
  <2> QED
    BY <1>1, <1>2, <1>3, <2>1, <2>2, RowsKept DEF rows
<1>5. CASE i \in Live
  <2> DEFINE r == [users[i] EXCEPT !.password = sess[x].password, !.password_updated_at = now]
  <2>1. users[i] \in Row /\ RowOK(i)
    BY <1>1, <1>5 DEF Live, AccountsInv
  <2>2. /\ r \in Row /\ r.email = users[i].email /\ r.is_verified = users[i].is_verified
        /\ r.google_id = users[i].google_id /\ r.password_updated_at = now
    BY <1>1, <2>1 DEF Row
  <2>3. users' = [users EXCEPT ![i] = r] /\ changed' = [changed EXCEPT ![i] = now]
    BY <1>5 DEF ResetWrite
  <2> HIDE DEF r, i
  <2> QED
    BY <1>1, <1>2, <1>3, <1>5, <2>1, <2>2, <2>3, RowUpdated DEF RowOK
<1> QED
  BY <1>4, <1>5

\* Whoever follows a verification link has shown to own the address.
LEMMA VerifyEmailStep ==
  ASSUME AccountsInv, NEW link \in links, VerifyEmail(link)
  PROVE  AccountsInv'
<1>1. PICK i \in ByEmail(link.sub) : users' = [users EXCEPT ![i].is_verified = TRUE]
  BY DEF VerifyEmail
<1> DEFINE r == [users[i] EXCEPT !.is_verified = TRUE]
<1>2. /\ i \in Live /\ users[i] \in Row /\ RowOK(i) /\ users[i].email = link.sub
      /\ sess \in [Requests -> Session] /\ access \subseteq 1 .. lastId
  BY DEF ByEmail, Live, AccountsInv, Typed
<1>3. /\ r \in Row /\ r.email = users[i].email /\ r.is_verified
      /\ r.google_id = users[i].google_id /\ r.password = users[i].password
      /\ r.password_updated_at = users[i].password_updated_at
  BY <1>2 DEF Row
<1>4. users' = [users EXCEPT ![i] = r]
  BY <1>1
<1>5. UNCHANGED <<lastId, access, links, now, sess, changed>> /\ proven' = proven \cup {link.sub}
  BY DEF VerifyEmail
<1> HIDE DEF r
<1> QED
  BY <1>2, <1>3, <1>4, <1>5, RowUpdated

\* Nobody has an account at first.
LEMMA AccountsStart == Init => AccountsInv
<1> SUFFICES ASSUME Init PROVE AccountsInv
  OBVIOUS
<1>1. Live = {}
  BY DEF Init, Live
<1>2. Typed
  BY TimesAssumption, CountAssumption DEF Init, Typed, Start, Idle, Session
<1>3. \A x \in Requests : SessionOK(x)
  BY DEF Init, SessionOK, AttemptOK, Idle
<1> QED
  BY <1>1, <1>2, <1>3 DEF Init, AccountsInv, Unique

\* Every step keeps the invariant.
LEMMA AccountsStep == AccountsInv /\ [Next]_vars => AccountsInv'
<1> SUFFICES ASSUME AccountsInv, [Next]_vars PROVE AccountsInv'
  OBVIOUS
<1>1. ASSUME NEW x \in Requests, SignupCheck(x) PROVE AccountsInv'
  BY <1>1, SignupCheckStep
<1>2. ASSUME NEW x \in Requests, SignupWrite(x) PROVE AccountsInv'
  BY <1>2, SignupWriteStep
<1>3. ASSUME NEW x \in Requests, GoogleLink(x) PROVE AccountsInv'
  BY <1>3, GoogleLinkStep
<1>4. ASSUME NEW x \in Requests, GoogleWrite(x) PROVE AccountsInv'
  BY <1>4, GoogleWriteStep
<1>5. ASSUME NEW x \in Requests, ResetWrite(x) PROVE AccountsInv'
  BY <1>5, ResetWriteStep
<1>6. ASSUME NEW x \in Requests, NEW g \in GoogleIds, NEW e \in Emails, GoogleLogin(x, g, e)
      PROVE  AccountsInv'
  BY <1>6, GoogleLoginStep
<1>7. ASSUME NEW x \in Requests, NEW link \in links, ResetCheck(x, link) PROVE AccountsInv'
  BY <1>7, ResetCheckStep
<1>8. ASSUME NEW link \in links, VerifyEmail(link) PROVE AccountsInv'
  BY <1>8, VerifyEmailStep
<1>9. ASSUME NEW i \in Ids, NEW p \in Passwords, Login(i, p) PROVE AccountsInv'
  BY <1>9, LoginStep
<1>10. ASSUME NEW e \in Emails, Forgot(e) PROVE AccountsInv'
  BY <1>10, LinkAdded
<1>11. ASSUME NEW i \in Ids, Delete(i) PROVE AccountsInv'
  BY <1>11, RowDeleted DEF Delete
<1>12. CASE Pass
  BY <1>12, PassStep
<1>13. CASE UNCHANGED vars
  <2>1. sess \in [Requests -> Session] /\ now \in Nat /\ access \subseteq 1 .. lastId
    BY DEF AccountsInv, Typed
  <2>2. UNCHANGED <<rows, links, changed, now, proven, sess, access>>
    BY <1>13 DEF vars, hist
  <2> QED
    BY <2>1, <2>2, RowsKept
<1> QED
  BY <1>1, <1>2, <1>3, <1>4, <1>5, <1>6, <1>7, <1>8, <1>9, <1>10, <1>11, <1>12, <1>13 DEF Next

\* The inductive invariant of the accounts.
THEOREM AccountsInvariant == Spec => []AccountsInv
BY AccountsStart, AccountsStep, PTL DEF Spec

\* Whoever holds an access token signed in to an account whose address had been
\* proven, however many requests overlap (create_user, login, google_login).
THEOREM SignInsProven == Spec => []OnlyProvenSignIn
<1>1. AccountsInv => OnlyProvenSignIn
  BY DEF AccountsInv, RowOK, OnlyProvenSignIn
<1> QED
  BY <1>1, AccountsInvariant, PTL

\* google_login links a Google identity to verified accounts only.
THEOREM LinksAreVerified == Spec => []LinkedIsVerified
<1>1. AccountsInv => LinkedIsVerified
  BY DEF AccountsInv, RowOK, LinkedIsVerified
<1> QED
  BY <1>1, AccountsInvariant, PTL

\* A link from forgot_password that has changed no password is not refused as used
\* by reset_password, when its account has a password.
THEOREM FreshLinksUnspent == Spec => []FreshLinkUnspent
<1>1. ASSUME AccountsInv PROVE FreshLinkUnspent
  <2> SUFFICES ASSUME NEW link \in links, NEW i \in ByEmail(link.sub), link.type = "reset",
                      link.at > changed[i], users[i].password # NULL
               PROVE  Unspent(i, link)
    BY DEF FreshLinkUnspent
  <2>1. i \in Live /\ changed[i] \in Nat /\ link.at \in Nat /\ Tolerance \in Nat
    BY <1>1, TimesAssumption DEF ByEmail, Live, AccountsInv, Typed, Mailed
  <2>2. link.pwd_at = changed[i]
    BY <1>1, <2>1 DEF AccountsInv, LinkOK
  <2>3. users[i].password_updated_at # NULL /\ users[i].password_updated_at = changed[i]
    BY <1>1, <2>1 DEF AccountsInv, StampOK
  <2>4. PasswordTime(i) = changed[i]
    BY <2>3 DEF PasswordTime
  <2> QED
    BY <2>1, <2>2, <2>4 DEF Unspent
<1> QED
  BY <1>1, AccountsInvariant, PTL

\* A link changes a password that was changed since it was mailed only from a
\* request that was already under way (reset_password), but for the tolerated seconds.
THEOREM LinksChangeOnce == Spec => LinkChangesOnce
<1> DEFINE Once ==
      \A x \in Requests :
        LET s == sess[x]
        IN  s.pc = "reset" /\ sess'[x].pc = "idle" /\ s.id \in Live
              => \/ changed[s.id] <= s.link.at + Tolerance
                 \/ changed[s.id] # s.seen
<1>1. AccountsInv => Once
  BY DEF AccountsInv, SessionOK, AttemptOK
<1>2. AccountsInv /\ [Next]_vars => [Once]_vars
  BY <1>1
<1>3. LinkChangesOnce <=> [][Once]_vars
  BY DEF LinkChangesOnce
<1> HIDE DEF Once
<1> QED
  BY <1>2, <1>3, AccountsInvariant, PTL DEF Spec
=============================================================================
