------------------------------ MODULE Accounts ------------------------------
(***************************************************************************)
(* Sign-up, e-mail verification, login with a password or with Google,     *)
(* password reset and deletion: the rows of users and the tokens in        *)
(* circulation.  Tokens are signed and stateless, so one that was issued   *)
(* stays in the hands of its owner; what a token still does is decided by  *)
(* its expiry and by the row it finds.                                     *)
(*                                                                         *)
(* Sign-up, the link to Google and the reset read a row, do slow work      *)
(* (bcrypt, a round trip) and write: they are two steps, and the unique    *)
(* columns of users decide between those that collide.                     *)
(***************************************************************************)
EXTENDS Integers, FiniteSets

CONSTANTS
  Emails, GoogleIds, Passwords,
  NULL,         \* an empty column
  Requests,     \* request threads
  VerifyLife,   \* lifetime of a verification link (24 hours)
  ResetLife,    \* lifetime of a reset link (10 minutes)
  Tolerance,    \* the seconds two time stamps may differ (5)
  MailFails,    \* a mail may fail to go out
  MaxAccounts,  \* bound: rows ever inserted
  MaxTime       \* bound: the clock

ASSUME NullAssumption  == NULL \notin Emails \cup GoogleIds \cup Passwords \cup Nat
ASSUME TimesAssumption == {VerifyLife, ResetLife, Tolerance, MaxTime} \subseteq Nat
ASSUME CountAssumption == MaxAccounts \in Nat /\ MailFails \in BOOLEAN

VARIABLES
  users,    \* [1..MaxAccounts -> row or NoUser]; ids are never given twice
  lastId,
  access,   \* ids for which access tokens are out
  links,    \* verification and reset links that were mailed
  now,
  sess,     \* what each request thread is doing
  proven,   \* history: addresses whose mailbox somebody has shown to own
  changed   \* history: [id -> when its password was last set]

rows == <<users, lastId>>
hist == <<proven, changed>>
vars == <<rows, access, links, now, sess, hist>>

Ids    == 1 .. MaxAccounts
NoUser == [none |-> TRUE]
Idle   == [pc |-> "idle"]

Live == {i \in Ids : users[i] # NoUser}

\* query(User).filter(User.email == email).first(); the column is unique.
ByEmail(e)  == {i \in Live : users[i].email = e}
ByGoogle(g) == {i \in Live : users[i].google_id = g}

Goto(x, record) == sess' = [sess EXCEPT ![x] = record]

Link(type, e, life, pwd_at) ==
  [type |-> type, sub |-> e, exp |-> now + life, pwd_at |-> pwd_at, at |-> now]

\* verify_token: the signature, the expiry and the type.
Valid(link, type) == link \in links /\ link.type = type /\ now <= link.exp

\* INSERT of a users row; a unique column that is taken refuses it.
Insert(x, row) ==
  IF ByEmail(row.email) = {} /\ (row.google_id = NULL \/ ByGoogle(row.google_id) = {})
  THEN /\ lastId < MaxAccounts
       /\ lastId' = lastId + 1
       /\ users' = [users EXCEPT ![lastId + 1] = row]
       /\ changed' = [changed EXCEPT ![lastId + 1] = now]
  ELSE UNCHANGED <<rows, changed>>

Inserted == lastId' # lastId

-----------------------------------------------------------------------------
(* Sign-up and verification. *)

SignupCheck(x) ==
  /\ sess[x].pc = "idle"
  /\ \E e \in Emails, p \in Passwords :
       /\ ByEmail(e) = {}
       /\ Goto(x, [pc |-> "signup", email |-> e, password |-> p])
  /\ UNCHANGED <<rows, access, links, now, hist>>

\* create_user commits the row before it mails the link; when the mail fails
\* the request answers 500 and the row stays.
SignupWrite(x) ==
  /\ sess[x].pc = "signup"
  /\ Insert(x, [email |-> sess[x].email, password |-> sess[x].password,
                google_id |-> NULL, is_verified |-> FALSE, password_updated_at |-> now])
  /\ \/ links' = links \cup (IF Inserted THEN {Link("verify", sess[x].email, VerifyLife, 0)}
                                         ELSE {})
     \/ MailFails /\ Inserted /\ UNCHANGED links
  /\ Goto(x, Idle)
  /\ UNCHANGED <<access, now, proven>>

VerifyEmail(link) ==
  /\ Valid(link, "verify")
  /\ \E i \in ByEmail(link.sub) : users' = [users EXCEPT ![i].is_verified = TRUE]
  /\ proven' = proven \cup {link.sub}
  /\ UNCHANGED <<lastId, access, links, now, sess, changed>>

-----------------------------------------------------------------------------
(* Signing in. *)

Login(i, p) ==
  /\ i \in Live
  /\ users[i].password # NULL /\ users[i].password = p
  /\ users[i].is_verified
  /\ access' = access \cup {i}
  /\ UNCHANGED <<rows, links, now, sess, hist>>

\* Mutant of Linkable: an account found by its address is linked as it is.
LinkableUnverified(i, g) == users[i].google_id \in {NULL, g}

\* May account i, found by its address, be signed in to with Google id g?
Linkable(i, g) ==
  IF users[i].google_id = NULL THEN users[i].is_verified ELSE users[i].google_id = g

\* google_login looks for the Google id first, then for the address; otherwise
\* it inserts a row.  Google vouches for the address.
GoogleLogin(x, g, e) ==
  /\ sess[x].pc = "idle"
  /\ proven' = proven \cup {e}
  /\ \/ \E i \in ByGoogle(g) :
          /\ users[i].email = e
          /\ access' = access \cup {i}
          /\ UNCHANGED sess
     \/ /\ ByGoogle(g) = {}
        /\ \E i \in ByEmail(e) :
             /\ Linkable(i, g)
             /\ IF users[i].google_id = NULL
                THEN /\ Goto(x, [pc |-> "link", id |-> i, email |-> e, google |-> g])
                     /\ UNCHANGED access
                ELSE /\ access' = access \cup {i}
                     /\ UNCHANGED sess
     \/ /\ ByGoogle(g) = {} /\ ByEmail(e) = {}
        /\ Goto(x, [pc |-> "google", email |-> e, google |-> g])
        /\ UNCHANGED access
  /\ UNCHANGED <<rows, links, now, changed>>

\* Mutant of LinkTargets: the row is looked up again by its address.
LinkTargetsByEmail(x) == ByEmail(sess[x].email)

\* The row that the link is written to: the one that was read, by its id.
LinkTargets(x) == {sess[x].id} \cap Live

\* UPDATE of the row that was read: gone, or the Google id taken, is a 500.
GoogleLink(x) ==
  /\ sess[x].pc = "link"
  /\ \/ \E i \in LinkTargets(x) :
          /\ ByGoogle(sess[x].google) \subseteq {i}
          /\ users' = [users EXCEPT ![i].google_id = sess[x].google]
          /\ access' = access \cup {i}
     \/ /\ \/ LinkTargets(x) = {}
           \/ ~(ByGoogle(sess[x].google) \subseteq LinkTargets(x))
        /\ UNCHANGED <<users, access>>
  /\ Goto(x, Idle)
  /\ UNCHANGED <<lastId, links, now, hist>>

GoogleWrite(x) ==
  /\ sess[x].pc = "google"
  /\ Insert(x, [email |-> sess[x].email, password |-> NULL, google_id |-> sess[x].google,
                is_verified |-> TRUE, password_updated_at |-> NULL])
  /\ access' = access \cup (IF Inserted THEN {lastId'} ELSE {})
  /\ Goto(x, Idle)
  /\ UNCHANGED <<links, now, proven>>

-----------------------------------------------------------------------------
(* Password reset, deletion, time. *)

\* Mutant of Forgot: the link carries the time of the request.
ForgotByNow(e) ==
  /\ ByEmail(e) # {}
  /\ links' = links \cup {Link("reset", e, ResetLife, now)}
  /\ UNCHANGED <<rows, access, now, sess, hist>>

\* forgot_password: the link carries the time of the last password change.
Forgot(e) ==
  /\ \E i \in ByEmail(e) :
       links' = links \cup
         {Link("reset", e, ResetLife,
               IF users[i].password_updated_at = NULL THEN now
               ELSE users[i].password_updated_at)}
  /\ UNCHANGED <<rows, access, now, sess, hist>>

PasswordTime(i) ==
  IF users[i].password_updated_at = NULL THEN 0 ELSE users[i].password_updated_at

\* Otherwise the answer is "Token already used".
Unspent(i, link) ==
  LET apart == PasswordTime(i) - link.pwd_at
  IN  apart <= Tolerance /\ -apart <= Tolerance

\* The request compares and hashes passwords before it writes; seen is the last change
\* at the time of the check, kept for what is said about it.
ResetCheck(x, link) ==
  /\ sess[x].pc = "idle" /\ Valid(link, "reset")
  /\ \E i \in ByEmail(link.sub), p \in Passwords :
       /\ Unspent(i, link)
       /\ p # users[i].password
       /\ Goto(x, [pc |-> "reset", id |-> i, password |-> p, link |-> link,
                  seen |-> changed[i]])
  /\ UNCHANGED <<rows, access, links, now, hist>>

\* Mutant of ResetWrite: the time of the change is not kept.
ResetWriteUndated(x) ==
  LET i == sess[x].id
  IN  /\ sess[x].pc = "reset"
      /\ IF i \in Live
         THEN /\ users' = [users EXCEPT ![i].password = sess[x].password]
              /\ changed' = [changed EXCEPT ![i] = now]
         ELSE UNCHANGED <<users, changed>>
      /\ Goto(x, Idle)
      /\ UNCHANGED <<lastId, access, links, now, proven>>

\* UPDATE of password and time stamp; a row that is gone is a 500.
ResetWrite(x) ==
  LET i == sess[x].id
  IN  /\ sess[x].pc = "reset"
      /\ IF i \in Live
         THEN /\ users' = [users EXCEPT ![i].password = sess[x].password,
                                        ![i].password_updated_at = now]
              /\ changed' = [changed EXCEPT ![i] = now]
         ELSE UNCHANGED <<users, changed>>
      /\ Goto(x, Idle)
      /\ UNCHANGED <<lastId, access, links, now, proven>>

\* delete_user: AccountDeletion has its statements.
Delete(i) ==
  /\ i \in access \cap Live
  /\ users' = [users EXCEPT ![i] = NoUser]
  /\ UNCHANGED <<lastId, access, links, now, sess, hist>>

Pass ==
  /\ now < MaxTime
  /\ now' = now + 1
  /\ UNCHANGED <<rows, access, links, sess, hist>>

-----------------------------------------------------------------------------
\* Time stamps are far from the epoch: time 0 is before any Tolerance.
Start == Tolerance + 1

Init ==
  /\ users = [i \in Ids |-> NoUser] /\ lastId = 0
  /\ access = {} /\ links = {} /\ now = Start
  /\ sess = [x \in Requests |-> Idle]
  /\ proven = {} /\ changed = [i \in Ids |-> 0]

Next ==
  \/ \E x \in Requests :
       \/ SignupCheck(x) \/ SignupWrite(x) \/ GoogleLink(x) \/ GoogleWrite(x)
       \/ ResetWrite(x)
       \/ \E g \in GoogleIds, e \in Emails : GoogleLogin(x, g, e)
       \/ \E link \in links : ResetCheck(x, link)
  \/ \E link \in links : VerifyEmail(link)
  \/ \E i \in Ids, p \in Passwords : Login(i, p)
  \/ \E e \in Emails : Forgot(e)
  \/ \E i \in Ids : Delete(i)
  \/ Pass

Spec == Init /\ [][Next]_vars

-----------------------------------------------------------------------------
(* Properties. *)

\* Whoever holds an access token signed in to an account whose address had been
\* proven: also when Google signs in to, or is linked with, an account that was
\* made with a password, and when accounts are deleted and made again between
\* the two halves of a request.
OnlyProvenSignIn ==
  \A i \in access \cap Live : users[i].is_verified /\ users[i].email \in proven

\* A Google identity is linked to verified accounts only, although the account
\* that was verified may be gone, and its address taken by a new one, when the
\* link is written.
LinkedIsVerified ==
  \A i \in Live : users[i].google_id # NULL => users[i].is_verified

\* A reset link is good for one change, as far as reset_password sees to it: a
\* request writes over a password that was changed since its link was mailed only
\* when that change came while the request was under way, for two requests that are
\* checked before either writes both count, or within the few seconds that rounding
\* the time stamps may cost.
LinkChangesOnce ==
  [][\A x \in Requests :
       LET s == sess[x]
       IN  s.pc = "reset" /\ sess'[x].pc = "idle" /\ s.id \in Live
             => \/ changed[s.id] <= s.link.at + Tolerance
                \/ changed[s.id] # s.seen]_vars

\* A reset link of an account with a password, that was mailed and has changed no
\* password, is not refused as used.  (For an account made with Google it is: one
\* handler takes the missing time stamp for now, the other for 0.)
FreshLinkUnspent ==
  \A link \in links : \A i \in ByEmail(link.sub) :
    link.type = "reset" /\ link.at > changed[i] /\ users[i].password # NULL => Unspent(i, link)
=============================================================================
