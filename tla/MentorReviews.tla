---------------------------- MODULE MentorReviews ----------------------------
(***************************************************************************)
(* The daily review of one user and its cache in mentor_reviews:           *)
(* generate_daily_review beside trades that are committed and other        *)
(* requests for the same review.                                           *)
(*                                                                         *)
(* A review costs a call to a language model that takes seconds, so it is  *)
(* kept with the number of trades and the last trade it was made for.      *)
(* What is computed from the trades is not told apart here: a summary is   *)
(* the set of trades it was computed from; holdings and prices, which the  *)
(* cache's key does not mention, are left out.                             *)
(***************************************************************************)
EXTENDS Naturals, FiniteSets, Sequences

CONSTANTS
  Requests,
  MaxCommits,   \* bound: trades, numbered in the order of created_at and id
  MaxRows       \* bound: rows of mentor_reviews

ASSUME CommitsAssumption == MaxCommits \in Nat /\ MaxRows \in Nat

VARIABLES
  committed,  \* the committed trades
  reviews,    \* the rows of mentor_reviews by id
  sess,       \* the session of each request
  served,     \* history: the last answer, or Idle
  overlap     \* history: a review was saved while another was being made

reviewVars == <<committed, reviews, sess, served, overlap>>

Idle == [pc |-> "idle"]

Goto(x, record) == sess' = [sess EXCEPT ![x] = record]

\* The trade that comes first in the order of created_at and id, descending.
LastOf(s) == IF s = {} THEN 0 ELSE CHOOSE t \in s : \A u \in s : u <= t

-----------------------------------------------------------------------------
(* The trading side: ids and time stamps are drawn before the commit, so     *)
(* trades may become visible in another order.                               *)

TradeCommits(t) ==
  /\ t \notin committed
  /\ committed' = committed \cup {t}
  /\ UNCHANGED <<reviews, sess, served, overlap>>

-----------------------------------------------------------------------------
(* generate_daily_review. *)

ReadCount(x) ==
  /\ sess[x].pc = "idle"
  /\ \E force \in BOOLEAN :
       Goto(x, [pc |-> "last", force |-> force, seen |-> committed,
                trade_count |-> Cardinality(committed)])
  /\ UNCHANGED <<committed, reviews, served, overlap>>

ReadLast(x) ==
  /\ sess[x].pc = "last"
  /\ Goto(x, [pc |-> "lookup", force |-> sess[x].force, seen |-> sess[x].seen,
              trade_count |-> sess[x].trade_count, last_trade_id |-> LastOf(committed)])
  /\ UNCHANGED <<committed, reviews, served, overlap>>

\* Mutant of IsCacheValid: the last trade is taken to say how many there are.
IsCacheValidByLast(row, s) ==
  /\ ~s.force /\ ~row.stale
  /\ row.last_trade_id = s.last_trade_id
  /\ row.source = "ai" /\ row.schema = "new"

IsCacheValid(row, s) ==
  /\ ~s.force /\ ~row.stale
  /\ row.trade_count = s.trade_count /\ row.last_trade_id = s.last_trade_id
  /\ row.source = "ai" /\ row.schema = "new"

\* The newest row is the cached review: it is answered, or kept as the image of
\* the row to overwrite.
Lookup(x) ==
  LET n == Len(reviews)
      s == sess[x]
  IN  /\ s.pc = "lookup"
      /\ IF n > 0 /\ IsCacheValid(reviews[n], s)
         THEN /\ served' = [hit |-> TRUE, response |-> reviews[n].response, seen |-> s.seen]
              /\ Goto(x, Idle)
         ELSE /\ Goto(x, [pc |-> "load", trade_count |-> s.trade_count,
                          last_trade_id |-> s.last_trade_id,
                          row |-> n, image |-> IF n > 0 THEN reviews[n] ELSE Idle])
              /\ UNCHANGED served
      /\ UNCHANGED <<committed, reviews, overlap>>

\* generate_summary reads the trades once more.
LoadTrades(x) ==
  /\ sess[x].pc = "load"
  /\ Goto(x, [pc |-> "await", trade_count |-> sess[x].trade_count,
              last_trade_id |-> sess[x].last_trade_id, row |-> sess[x].row,
              image |-> sess[x].image, summary |-> committed])
  /\ UNCHANGED <<committed, reviews, served, overlap>>

\* The provider answers, or fails: no key, rate limit, time-out, connection,
\* server error, empty or malformed text.  Every failure ends in the fallback.
Answers == {"ai", "deterministic_fallback"}

\* Mutant of Composed: the source is kept from the row that is overwritten.
ComposedKeepingSource(s, source) ==
  [summary |-> s.summary, response |-> [log |-> s.summary, by |-> source],
   source |-> IF s.row > 0 THEN s.image.source ELSE source,
   schema |-> "new", trade_count |-> s.trade_count, last_trade_id |-> s.last_trade_id,
   stale |-> FALSE]

\* The row a request leaves: the coaching is of the summary it was given.
Composed(s, source) ==
  [summary |-> s.summary, response |-> [log |-> s.summary, by |-> source],
   source |-> source, schema |-> "new", trade_count |-> s.trade_count,
   last_trade_id |-> s.last_trade_id, stale |-> FALSE]

\* response_json, one column: the coaching, its schema and _coaching_source.
ResponseJson == {"response", "source", "schema"}

\* UPDATE of the columns in which a new row differs from the image.  Two coachings by
\* the model differ even on one summary, unless they happen to be alike; the fallback
\* says the same again.
Overwritten(old, new, image, alike) ==
  LET respond == \/ \E c \in ResponseJson : new[c] # image[c]
                 \/ new.response.by = "ai" /\ ~alike
  IN  [c \in DOMAIN new |->
         IF IF c \in ResponseJson THEN respond ELSE new[c] # image[c]
         THEN new[c] ELSE old[c]]

\* After the call: the row that was read is overwritten, or one inserted.
Save(x) ==
  LET s == sess[x]
  IN  /\ s.pc = "await"
      /\ \E source \in Answers, alike \in BOOLEAN :
           LET new == Composed(s, source)
           IN  /\ IF s.row > 0
                  THEN reviews' = [reviews EXCEPT ![s.row] = Overwritten(@, new, s.image, alike)]
                  ELSE /\ Len(reviews) < MaxRows
                       /\ reviews' = Append(reviews, new)
               /\ served' = [hit |-> FALSE, response |-> new.response]
      /\ Goto(x, Idle)
      /\ overlap' = (overlap \/ \E y \in Requests \ {x} :
                                   sess[y].pc \in {"load", "await"})
      /\ UNCHANGED committed

\* A row written by an older version of the program lacks fields of the coaching.
Legacy ==
  [summary |-> {}, response |-> [log |-> {}, by |-> "ai"],
   source |-> "ai", schema |-> "old", trade_count |-> 0, last_trade_id |-> 0,
   stale |-> FALSE]

ReviewInit ==
  /\ committed = {}
  /\ reviews \in {<<>>, <<Legacy>>}
  /\ sess = [x \in Requests |-> Idle]
  /\ served = Idle /\ overlap = FALSE

ReviewNext ==
  \/ \E t \in 1 .. MaxCommits : TradeCommits(t)
  \/ \E x \in Requests :
       \/ ReadCount(x) \/ ReadLast(x) \/ Lookup(x)
       \/ LoadTrades(x) \/ Save(x)

ReviewSpec == ReviewInit /\ [][ReviewNext]_reviewVars

-----------------------------------------------------------------------------
(* Properties. *)

\* A review from the cache misses no trade that was there when the request began,
\* though its key is read before its trades and commits overtake one another; as long
\* as no two reviews were in the making at once.  (Then the one that began first may
\* save last, and leave its coaching under the key of the other.)
HitIsCurrent ==
  served # Idle /\ served.hit /\ ~overlap => served.seen \subseteq served.response.log

\* The deterministic fallback is for the request that failed: it is never served
\* from the cache, however requests for the same row overtake one another.
FallbackNotCached == served # Idle /\ served.hit => served.response.by = "ai"
=============================================================================
