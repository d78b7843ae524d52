----------------------------- MODULE PriceCaches -----------------------------
(***************************************************************************)
(* The three caches of market data one process keeps in memory: quotes     *)
(* (get_cached_prices), candle frames (get_cached_historical_prices) and   *)
(* market indexes (MarketService.get_indexes).                             *)
(*                                                                         *)
(* Requests for quotes and frames run in threads: each takes the lock of   *)
(* its cache twice and calls the provider in between, so a call may be     *)
(* overtaken by any number of others.  Requests for indexes are coroutines *)
(* that await the provider.  Data is told apart by the time at which the   *)
(* provider was asked.                                                     *)
(***************************************************************************)
EXTENDS Integers, FiniteSets

CONSTANTS
  Requests,
  QuoteKeys,     \* sets of symbols, as sorted tuples
  FrameKeys,     \* <<symbol, period, interval>>
  IndexKeys,     \* the one list of indexes
  IndexNames,    \* the indexes that are to be in it
  Loads,         \* the sets of caches asked in one behaviour: they share no state
  QuoteTTL, FrameTTL, IndexTTL,
  ProviderFails, \* FALSE: the provider always succeeds
  MaxFrames,     \* MAX_HISTORICAL_CACHE_SIZE
  MaxTime,       \* bound: the clock
  MaxWait        \* bound: how long a provider takes

ASSUME KeyAssumption == IsFiniteSet(QuoteKeys) /\ IsFiniteSet(FrameKeys) /\ IsFiniteSet(IndexKeys)
ASSUME NumberAssumption ==
  /\ ProviderFails \in BOOLEAN /\ Loads \subseteq SUBSET {"quote", "frame", "index"}
  /\ QuoteTTL \in Nat \ {0} /\ FrameTTL \in Nat \ {0} /\ IndexTTL \in Nat \ {0}
  /\ MaxFrames \in Nat \ {0} /\ MaxTime \in Nat /\ MaxWait \in Nat

VARIABLES
  clock,
  quotes,   \* _price_cache: key -> [at, data]
  frames,   \* _historical_cache: key -> [at, data]
  index,    \* MarketService: [at: last_fetched, data and listed: cache]; ok is history:
            \* whether the last fetch ended without an exception
  load,     \* the caches asked in this behaviour
  sess,     \* the request each thread or coroutine is in
  answer    \* history: the last answer and the age of its data

vars == <<clock, quotes, frames, index, load, sess, answer>>

Idle == [pc |-> "idle"]
None == -1       \* data: nothing yet
Never == -1      \* last_fetched: long ago

Goto(x, record) == sess' = [sess EXCEPT ![x] = record]

Answer(kind, hit, data) ==
  answer' = [kind |-> kind, hit |-> hit,
             age |-> IF data = None THEN 0 ELSE clock - data]

-----------------------------------------------------------------------------
(* The provider. *)

\* It is asked some time after the request began; quotes that could not be had
\* come back as zeros, a frame as an empty one, and both count as data here.
Fetch(x) ==
  /\ sess[x].pc = "fetch"
  /\ \E ok \in {TRUE, ~ProviderFails} :
       Goto(x, [pc |-> "store", kind |-> sess[x].kind, key |-> sess[x].key,
                now |-> sess[x].now, data |-> clock, ok |-> ok])
  /\ UNCHANGED <<clock, quotes, frames, index, load, answer>>

\* Time passes, but no call takes longer than MaxWait.
Pass ==
  /\ clock < MaxTime
  /\ \A x \in Requests : sess[x].pc # "idle" => clock - sess[x].now < MaxWait
  /\ clock' = clock + 1
  /\ UNCHANGED <<quotes, frames, index, load, sess, answer>>

\* An entry is served, and kept by the sweep, when it is younger than ttl.
Fresh(entry, now, ttl) == now - entry.at < ttl

-----------------------------------------------------------------------------
(* get_cached_prices. *)

QuoteBegin(x, k) ==
  /\ sess[x].pc = "idle" /\ "quote" \in load
  /\ IF k \in DOMAIN quotes /\ Fresh(quotes[k], clock, QuoteTTL)
     THEN Answer("quote", TRUE, quotes[k].data) /\ UNCHANGED sess
     ELSE /\ Goto(x, [pc |-> "fetch", kind |-> "quote", key |-> k, now |-> clock])
          /\ UNCHANGED answer
  /\ UNCHANGED <<clock, quotes, frames, index, load>>

\* Mutant of QuoteEntry: stamped with the time of the store.
QuoteEntryStamped(x) == [at |-> clock, data |-> sess[x].data]

\* The stamp is the time the request began, before the provider was asked.
QuoteEntry(x) == [at |-> sess[x].now, data |-> sess[x].data]

\* The sweep drops what was expired when the request began.
QuoteStore(x) ==
  LET now  == sess[x].now
      kept == {k \in DOMAIN quotes : Fresh(quotes[k], now, QuoteTTL)}
  IN  /\ sess[x].pc = "store" /\ sess[x].kind = "quote"
      /\ quotes' = [k \in kept \cup {sess[x].key} |->
                      IF k = sess[x].key THEN QuoteEntry(x) ELSE quotes[k]]
      /\ Answer("quote", FALSE, sess[x].data)
      /\ Goto(x, Idle)
      /\ UNCHANGED <<clock, frames, index, load>>

-----------------------------------------------------------------------------
(* get_cached_historical_prices. *)

FrameBegin(x, k) ==
  /\ sess[x].pc = "idle" /\ "frame" \in load
  /\ IF k \in DOMAIN frames /\ Fresh(frames[k], clock, FrameTTL)
     THEN Answer("frame", TRUE, frames[k].data) /\ UNCHANGED sess
     ELSE /\ Goto(x, [pc |-> "fetch", kind |-> "frame", key |-> k, now |-> clock])
          /\ UNCHANGED answer
  /\ UNCHANGED <<clock, quotes, frames, index, load>>

\* Mutant of Evicted: room is made only when there is already too much.
EvictedLate(kept) ==
  IF Cardinality(kept) > MaxFrames
  THEN {CHOOSE k \in kept : \A j \in kept : frames[k].at <= frames[j].at}
  ELSE {}

\* The oldest entry goes when the cache is full, also when its key is replaced.
Evicted(kept) ==
  IF Cardinality(kept) >= MaxFrames
  THEN {CHOOSE k \in kept : \A j \in kept : frames[k].at <= frames[j].at}
  ELSE {}

\* An empty frame, the sign of a failure, is answered and not kept.
FrameStore(x) ==
  LET now  == sess[x].now
      kept == {k \in DOMAIN frames : Fresh(frames[k], now, FrameTTL)}
  IN  /\ sess[x].pc = "store" /\ sess[x].kind = "frame"
      /\ frames' = IF ~sess[x].ok THEN frames
                   ELSE [k \in (kept \ Evicted(kept)) \cup {sess[x].key} |->
                           IF k = sess[x].key THEN [at |-> now, data |-> sess[x].data]
                           ELSE frames[k]]
      /\ Answer("frame", FALSE, sess[x].data)
      /\ Goto(x, Idle)
      /\ UNCHANGED <<clock, quotes, index, load>>

-----------------------------------------------------------------------------
(* MarketService.get_indexes. *)

IndexBegin(x, k) ==
  /\ sess[x].pc = "idle" /\ "index" \in load
  /\ IF index.at # Never /\ Fresh(index, clock, IndexTTL)
     THEN Answer("index", TRUE, index.data) /\ UNCHANGED sess
     ELSE /\ Goto(x, [pc |-> "fetch", kind |-> "index", key |-> k, now |-> clock])
          /\ UNCHANGED answer
  /\ UNCHANGED <<clock, quotes, frames, index, load>>

IndexStamp(x) == sess[x].now

\* Each index is asked for on its own, and one whose answer is refused or an error is
\* left out of the list.
Listings == IF ProviderFails THEN SUBSET IndexNames ELSE {IndexNames}

\* The list is stored as it is, also when it lacks some or all; and when there was an
\* exception the cached list is what fetch_market_indexes returns, and it is stored
\* like a new one.
IndexStore(x) ==
  LET data == IF sess[x].ok THEN sess[x].data ELSE index.data
  IN  /\ sess[x].pc = "store" /\ sess[x].kind = "index"
      /\ \E listed \in IF sess[x].ok THEN Listings ELSE {index.listed} :
           index' = [at |-> IndexStamp(x), data |-> data, listed |-> listed, ok |-> sess[x].ok]
      /\ Answer("index", FALSE, data)
      /\ Goto(x, Idle)
      /\ UNCHANGED <<clock, quotes, frames, load>>

-----------------------------------------------------------------------------

Init ==
  /\ clock = 0
  /\ quotes = <<>> /\ frames = <<>>
  /\ index = [at |-> Never, data |-> None, listed |-> {}, ok |-> FALSE]
  /\ load \in Loads
  /\ sess = [x \in Requests |-> Idle]
  /\ answer = Idle

Next ==
  \/ Pass
  \/ \E x \in Requests :
       \/ Fetch(x)
       \/ \E k \in QuoteKeys : QuoteBegin(x, k)
       \/ QuoteStore(x)
       \/ \E k \in FrameKeys : FrameBegin(x, k)
       \/ FrameStore(x)
       \/ \E k \in IndexKeys : IndexBegin(x, k)
       \/ IndexStore(x)

Spec == Init /\ [][Next]_vars

-----------------------------------------------------------------------------
(* Properties. *)

\* What comes from a cache was asked of the provider less than the cache's TTL ago,
\* however slow the request was that stored it and whichever request it overwrote.
\* Indexes are the exception after a fetch that ended in an exception: old ones are
\* stamped anew.  What a list lacks is not data and has no age.
HitsAreFresh ==
  answer # Idle /\ answer.hit =>
    \/ answer.kind = "quote" /\ answer.age < QuoteTTL
    \/ answer.kind = "frame" /\ answer.age < FrameTTL
    \/ answer.kind = "index" /\ (answer.age < IndexTTL \/ ~index.ok)

\* The frame cache never outgrows its bound, also when several requests that saw
\* no entry store theirs.
FramesBounded == Cardinality(DOMAIN frames) <= MaxFrames
=============================================================================
