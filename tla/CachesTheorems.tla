--------------------------- MODULE CachesTheorems ---------------------------
(***************************************************************************)
(* The caches never serve data older than their TTL, and the frame cache   *)
(* never outgrows its bound, for any number of threads, keys and any TTLs. *)
(***************************************************************************)
EXTENDS PriceCaches, FiniteSetTheorems, WellFoundedInduction, TLAPS

Kinds == {"quote", "frame", "index"}
Keys  == QuoteKeys \cup FrameKeys \cup IndexKeys
Entry == [at : Nat, data : Nat]

Session ==
  [pc : {"idle"}]
    \cup [pc : {"fetch"}, kind : Kinds, key : Keys, now : Nat]
    \cup [pc : {"store"}, kind : Kinds, key : Keys, now : Nat, data : Nat, ok : BOOLEAN]

Typed ==
  /\ clock \in Nat
  /\ sess \in [Requests -> Session]
  /\ \A k \in DOMAIN quotes : quotes[k] \in Entry
  /\ DOMAIN frames \subseteq FrameKeys
  /\ \A k \in DOMAIN frames : frames[k] \in Entry
  /\ index \in [at : Nat \cup {Never}, data : Nat \cup {None},
                listed : SUBSET IndexNames, ok : BOOLEAN]

\* A request asks the provider after it begins, and stores what it was told then.
SessionOK(x) ==
  /\ sess[x].pc # "idle" => sess[x].now <= clock
  /\ sess[x].pc # "idle" /\ sess[x].kind = "frame" => sess[x].key \in FrameKeys
  /\ sess[x].pc = "store" => sess[x].now <= sess[x].data

\* An entry is at least as young as its stamp says.
CachesInv ==
  /\ Typed
  /\ \A x \in Requests : SessionOK(x)
  /\ \A k \in DOMAIN quotes : quotes[k].at <= quotes[k].data
  /\ \A k \in DOMAIN frames : frames[k].at <= frames[k].data
  /\ index.ok => index.at <= index.data /\ index.data # None
  /\ FramesBounded
  /\ HitsAreFresh

-----------------------------------------------------------------------------
\* Of some numbers one is the least.
LEMMA LeastOne ==
  ASSUME NEW T \in SUBSET Nat, T # {}
  PROVE  \E m \in T : \A n \in T : m <= n
<1> DEFINE R == OpToRel(<, Nat)
<1>1. PICK m \in T : \A n \in T : ~(<<n, m>> \in R)
  <2>1. IsWellFoundedOn(R, Nat)
    BY NatLessThanWellFounded
  <2> HIDE DEF R
  <2> QED
    BY <2>1, WFMin
<1>2. \A n \in T : ~(n < m)
  BY <1>1 DEF OpToRel
<1> QED
  BY <1>2

\* A full cache loses one of the entries it keeps.
LEMMA RoomIsMade ==
  ASSUME CachesInv, NEW kept \in SUBSET DOMAIN frames
  PROVE  /\ IsFiniteSet(kept \ Evicted(kept))
         /\ Cardinality(kept \ Evicted(kept)) < MaxFrames
<1>1. IsFiniteSet(DOMAIN frames)
  BY KeyAssumption, FS_Subset DEF CachesInv, Typed
<1>2. IsFiniteSet(kept) /\ Cardinality(kept) <= Cardinality(DOMAIN frames)
  BY <1>1, FS_Subset
<1>3. Cardinality(kept) \in Nat /\ Cardinality(kept) <= MaxFrames /\ MaxFrames \in Nat \ {0}
  BY <1>1, <1>2, FS_CardinalityType, NumberAssumption DEF CachesInv, FramesBounded
<1>4. CASE ~(Cardinality(kept) >= MaxFrames)
  BY <1>2, <1>3, <1>4 DEF Evicted
<1>5. CASE Cardinality(kept) >= MaxFrames
  <2>1. kept # {}
    BY <1>3, <1>5, FS_EmptySet
  <2>2. \E k \in kept : \A j \in kept : frames[k].at <= frames[j].at
    <3> DEFINE T == {frames[k].at : k \in kept}
    <3>1. T \in SUBSET Nat /\ T # {}
      BY <2>1 DEF CachesInv, Typed, Entry
    <3>2. PICK m \in T : \A n \in T : m <= n
      BY <3>1, LeastOne
    <3> QED
      BY <3>2
  <2>3. PICK k \in kept : Evicted(kept) = {k}
    BY <1>5, <2>2 DEF Evicted
  <2>4. IsFiniteSet(kept \ {k}) /\ Cardinality(kept \ {k}) = Cardinality(kept) - 1
    BY <1>2, FS_RemoveElement
  <2> QED
    BY <1>3, <2>3, <2>4
<1> QED
  BY <1>4, <1>5

\* A step of one request, to session s, that changes no cache.
LEMMA SessionGoesOn ==
  ASSUME CachesInv, NEW x \in Requests, NEW s \in Session, Goto(x, s),
         UNCHANGED clock, SessionOK(x)'
  PROVE  /\ sess' \in [Requests -> Session] /\ \A y \in Requests : SessionOK(y)'
<1>1. sess' \in [Requests -> Session] /\ \A y \in Requests \ {x} : sess'[y] = sess[y]
  BY DEF Goto, CachesInv, Typed
<1> QED
  BY <1>1 DEF CachesInv, SessionOK

\* A request that has been answered.
LEMMA RequestEnds ==
  ASSUME CachesInv, NEW x \in Requests, Goto(x, Idle), UNCHANGED clock
  PROVE  /\ sess' \in [Requests -> Session] /\ \A y \in Requests : SessionOK(y)'
<1>1. Idle \in Session /\ sess'[x] = Idle
  BY DEF Idle, Session, Goto, CachesInv, Typed
<1>2. SessionOK(x)'
  BY <1>1 DEF SessionOK, Idle
<1> QED
  BY <1>1, <1>2, SessionGoesOn

\* A request that goes to the provider.
LEMMA RequestAsks ==
  ASSUME CachesInv, NEW x \in Requests, NEW kind \in Kinds, NEW k \in Keys,
         kind = "frame" => k \in FrameKeys, UNCHANGED clock,
         Goto(x, [pc |-> "fetch", kind |-> kind, key |-> k, now |-> clock])
  PROVE  /\ sess' \in [Requests -> Session] /\ \A y \in Requests : SessionOK(y)'
<1> DEFINE s == [pc |-> "fetch", kind |-> kind, key |-> k, now |-> clock]
<1>1. s \in Session /\ clock \in Nat
  BY DEF Session, CachesInv, Typed
<1>2. sess'[x] = s
  BY DEF Goto, CachesInv, Typed
<1>3. SessionOK(x)'
  BY <1>1, <1>2 DEF SessionOK
<1> QED
  BY <1>1, <1>3, SessionGoesOn

\* What a request about to store knows.
LEMMA StoreFacts ==
  ASSUME CachesInv, NEW x \in Requests, sess[x].pc = "store"
  PROVE  /\ sess[x].now \in Nat /\ sess[x].data \in Nat /\ sess[x].ok \in BOOLEAN
         /\ sess[x].now <= sess[x].data /\ sess[x].key \in Keys
         /\ sess[x].kind = "frame" => sess[x].key \in FrameKeys
BY DEF CachesInv, Typed, Session, SessionOK

\* The provider answers.
LEMMA FetchStep ==
  ASSUME CachesInv, NEW x \in Requests, Fetch(x)
  PROVE  CachesInv'
<1>1. PICK ok \in {TRUE, ~ProviderFails} :
        Goto(x, [pc |-> "store", kind |-> sess[x].kind, key |-> sess[x].key,
                 now |-> sess[x].now, data |-> clock, ok |-> ok])
  BY DEF Fetch
<1> DEFINE s == [pc |-> "store", kind |-> sess[x].kind, key |-> sess[x].key,
                 now |-> sess[x].now, data |-> clock, ok |-> ok]
<1>2. /\ sess[x].pc = "fetch" /\ UNCHANGED <<clock, quotes, frames, index, load, answer>>
      /\ sess[x] \in Session /\ clock \in Nat /\ SessionOK(x)
  BY DEF Fetch, CachesInv, Typed
<1>3. s \in Session
  BY <1>2, NumberAssumption DEF Session
<1>4. sess'[x] = s
  BY <1>1 DEF Goto, CachesInv, Typed
<1>5. SessionOK(x)'
  BY <1>2, <1>4 DEF SessionOK
<1>6. sess' \in [Requests -> Session] /\ \A y \in Requests : SessionOK(y)'
  BY <1>1, <1>2, <1>3, <1>5, SessionGoesOn
<1> QED
  BY <1>2, <1>6 DEF CachesInv, Typed, FramesBounded, HitsAreFresh

\* Time passes.
LEMMA PassStep == CachesInv /\ Pass => CachesInv'
<1> SUFFICES ASSUME CachesInv, Pass PROVE CachesInv'
  OBVIOUS
<1>1. clock \in Nat /\ clock' = clock + 1 /\ UNCHANGED <<quotes, frames, index, load, sess, answer>>
  BY DEF Pass, CachesInv, Typed
<1>2. \A x \in Requests : SessionOK(x)'
  <2> SUFFICES ASSUME NEW x \in Requests PROVE SessionOK(x)'
    OBVIOUS
  <2>1. SessionOK(x) /\ (sess[x].pc # "idle" => sess[x].now \in Nat)
    BY DEF CachesInv, Typed, Session
  <2> QED
    BY <1>1, <2>1 DEF SessionOK
<1> QED
  BY <1>1, <1>2 DEF CachesInv, Typed, FramesBounded, HitsAreFresh

\* A request begins: it is served from the cache, or asks the provider.
LEMMA BeginStep ==
  ASSUME CachesInv, NEW x \in Requests, NEW k \in Keys,
         \/ k \in QuoteKeys /\ QuoteBegin(x, k)
         \/ k \in FrameKeys /\ FrameBegin(x, k)
         \/ IndexBegin(x, k)
  PROVE  CachesInv'
<1>1. UNCHANGED <<clock, quotes, frames, index, load>> /\ clock \in Nat
  BY DEF QuoteBegin, FrameBegin, IndexBegin, CachesInv, Typed
<1>2. ASSUME NEW kind \in Kinds, UNCHANGED answer, kind = "frame" => k \in FrameKeys,
             Goto(x, [pc |-> "fetch", kind |-> kind, key |-> k, now |-> clock])
      PROVE  CachesInv'
  <2>1. sess' \in [Requests -> Session] /\ \A y \in Requests : SessionOK(y)'
    BY <1>1, <1>2, RequestAsks
  <2> QED
    BY <1>1, <1>2, <2>1 DEF CachesInv, Typed, FramesBounded, HitsAreFresh
<1>3. ASSUME UNCHANGED sess, HitsAreFresh' PROVE CachesInv'
  BY <1>1, <1>3 DEF CachesInv, Typed, FramesBounded, SessionOK
<1>4. CASE k \in QuoteKeys /\ QuoteBegin(x, k)
  <2>1. CASE k \in DOMAIN quotes /\ Fresh(quotes[k], clock, QuoteTTL)
    <3>1. /\ quotes[k].at \in Nat /\ quotes[k].data \in Nat /\ quotes[k].at <= quotes[k].data
          /\ clock - quotes[k].at < QuoteTTL
      BY <2>1 DEF CachesInv, Typed, Entry, Fresh
    <3>2. UNCHANGED sess /\ answer' = [kind |-> "quote", hit |-> TRUE, age |-> clock - quotes[k].data]
      BY <1>4, <2>1, <3>1 DEF QuoteBegin, Answer, None
    <3> QED
      BY <1>1, <1>3, <3>1, <3>2, NumberAssumption DEF HitsAreFresh
  <2> QED
    BY <1>2, <1>4, <2>1 DEF QuoteBegin, Kinds
<1>5. CASE k \in FrameKeys /\ FrameBegin(x, k)
  <2>1. CASE k \in DOMAIN frames /\ Fresh(frames[k], clock, FrameTTL)
    <3>1. /\ frames[k].at \in Nat /\ frames[k].data \in Nat /\ frames[k].at <= frames[k].data
          /\ clock - frames[k].at < FrameTTL
      BY <2>1 DEF CachesInv, Typed, Entry, Fresh
    <3>2. UNCHANGED sess /\ answer' = [kind |-> "frame", hit |-> TRUE, age |-> clock - frames[k].data]
      BY <1>5, <2>1, <3>1 DEF FrameBegin, Answer, None
    <3> QED
      BY <1>1, <1>3, <3>1, <3>2, NumberAssumption DEF HitsAreFresh
  <2> QED
    BY <1>2, <1>5, <2>1 DEF FrameBegin, Kinds
<1>6. CASE IndexBegin(x, k)
  <2>1. CASE index.at # Never /\ Fresh(index, clock, IndexTTL)
    <3>1. /\ index.at \in Nat /\ index.data \in Nat \cup {None} /\ clock - index.at < IndexTTL
          /\ index.ok => index.at <= index.data /\ index.data # None
      BY <2>1 DEF CachesInv, Typed, Fresh
    <3>2. UNCHANGED sess /\ answer' = [kind |-> "index", hit |-> TRUE,
                                       age |-> IF index.data = None THEN 0 ELSE clock - index.data]
      BY <1>6, <2>1 DEF IndexBegin, Answer
    <3> QED
      BY <1>1, <1>3, <3>1, <3>2, NumberAssumption DEF HitsAreFresh
  <2> QED
    BY <1>2, <1>6, <2>1 DEF IndexBegin, Kinds
<1> QED
  BY <1>4, <1>5, <1>6

\* Quotes are stored with the time the request began.
LEMMA QuoteStoreStep ==
  ASSUME CachesInv, NEW x \in Requests, QuoteStore(x)
  PROVE  CachesInv'
<1>1. sess[x].pc = "store" /\ Goto(x, Idle) /\ UNCHANGED <<clock, frames, index, load>>
  BY DEF QuoteStore
<1>2. sess' \in [Requests -> Session] /\ \A y \in Requests : SessionOK(y)'
  BY <1>1, RequestEnds
<1>3. answer' # Idle /\ ~answer'.hit
  BY DEF QuoteStore, Answer, Idle
<1>4. \A k \in DOMAIN quotes' : quotes'[k] \in Entry /\ quotes'[k].at <= quotes'[k].data
  <2> SUFFICES ASSUME NEW k \in DOMAIN quotes'
               PROVE  quotes'[k] \in Entry /\ quotes'[k].at <= quotes'[k].data
    OBVIOUS
  <2>1. CASE k = sess[x].key
    BY <1>1, <2>1, StoreFacts DEF QuoteStore, QuoteEntry, Entry
  <2>2. CASE k # sess[x].key
    BY <2>2 DEF QuoteStore, CachesInv, Typed
  <2> QED
    BY <2>1, <2>2
<1> QED
  BY <1>1, <1>2, <1>3, <1>4 DEF CachesInv, Typed, FramesBounded, HitsAreFresh

\* A frame is stored after room has been made for it.
LEMMA FrameStoreStep ==
  ASSUME CachesInv, NEW x \in Requests, FrameStore(x)
  PROVE  CachesInv'
<1>1. /\ sess[x].pc = "store" /\ sess[x].kind = "frame" /\ Goto(x, Idle)
      /\ UNCHANGED <<clock, quotes, index, load>>
  BY DEF FrameStore
<1>2. sess' \in [Requests -> Session] /\ \A y \in Requests : SessionOK(y)'
  BY <1>1, RequestEnds
<1>3. answer' # Idle /\ ~answer'.hit
  BY DEF FrameStore, Answer, Idle
<1>4. CASE ~sess[x].ok
  BY <1>1, <1>2, <1>3, <1>4 DEF FrameStore, CachesInv, Typed, FramesBounded, HitsAreFresh
<1>5. CASE sess[x].ok
  <2> DEFINE kept == {k \in DOMAIN frames : Fresh(frames[k], sess[x].now, FrameTTL)}
             key  == sess[x].key
  <2>1. frames' = [k \in (kept \ Evicted(kept)) \cup {key} |->
                     IF k = key THEN [at |-> sess[x].now, data |-> sess[x].data]
                     ELSE frames[k]]
    BY <1>5 DEF FrameStore
  <2>2. kept \in SUBSET DOMAIN frames
    OBVIOUS
  <2>3. key \in FrameKeys
    BY <1>1, StoreFacts
  <2> HIDE DEF kept
  <2>4. DOMAIN frames' \subseteq FrameKeys
    BY <2>1, <2>2, <2>3 DEF CachesInv, Typed
  <2>5. Cardinality(DOMAIN frames') <= MaxFrames
    <3>1. IsFiniteSet(kept \ Evicted(kept)) /\ Cardinality(kept \ Evicted(kept)) < MaxFrames
      BY <2>2, RoomIsMade
    <3>2. DOMAIN frames' = (kept \ Evicted(kept)) \cup {key}
      BY <2>1
    <3> DEFINE rest == kept \ Evicted(kept)
    <3>3. Cardinality(rest) \in Nat /\ Cardinality(rest \cup {key}) <= Cardinality(rest) + 1
      <4> HIDE DEF rest, key
      <4>1. IsFiniteSet(rest)
        BY <3>1 DEF rest
      <4>2. Cardinality(rest) \in Nat
        BY <4>1, FS_CardinalityType
      <4>3. Cardinality(rest \cup {key}) = IF key \in rest THEN Cardinality(rest) ELSE Cardinality(rest) + 1
        BY <4>1, FS_AddElement
      <4> QED
        BY <4>2, <4>3
    <3>4. Cardinality(DOMAIN frames') <= Cardinality(rest) + 1 /\ Cardinality(DOMAIN frames') \in Nat
      <4>1. IsFiniteSet(DOMAIN frames')
        BY <2>4, KeyAssumption, FS_Subset
      <4> QED
        BY <3>2, <3>3, <4>1, FS_CardinalityType
    <3> QED
      BY <3>1, <3>3, <3>4, NumberAssumption
  <2>6. \A k \in DOMAIN frames' : frames'[k] \in Entry /\ frames'[k].at <= frames'[k].data
    <3> SUFFICES ASSUME NEW k \in DOMAIN frames'
                 PROVE  frames'[k] \in Entry /\ frames'[k].at <= frames'[k].data
      OBVIOUS
    <3>1. CASE k = key
      BY <1>1, <2>1, <3>1, StoreFacts DEF Entry
    <3>2. CASE k # key
      BY <2>1, <2>2, <3>2 DEF CachesInv, Typed
    <3> QED
      BY <3>1, <3>2
  <2> QED
    BY <1>1, <1>2, <1>3, <2>4, <2>5, <2>6 DEF CachesInv, Typed, FramesBounded, HitsAreFresh
<1> QED
  BY <1>4, <1>5

\* The indexes are stored with the time the request began, and with the old list
\* after an exception.
LEMMA IndexStoreStep ==
  ASSUME CachesInv, NEW x \in Requests, IndexStore(x)
  PROVE  CachesInv'
<1>1. sess[x].pc = "store" /\ Goto(x, Idle) /\ UNCHANGED <<clock, quotes, frames, load>>
  BY DEF IndexStore
<1>2. sess' \in [Requests -> Session] /\ \A y \in Requests : SessionOK(y)'
  BY <1>1, RequestEnds
<1>3. answer' # Idle /\ ~answer'.hit
  BY DEF IndexStore, Answer, Idle
<1> DEFINE data == IF sess[x].ok THEN sess[x].data ELSE index.data
<1>0. PICK listed \in IF sess[x].ok THEN Listings ELSE {index.listed} :
        index' = [at |-> IndexStamp(x), data |-> data, listed |-> listed, ok |-> sess[x].ok]
  BY DEF IndexStore
<1>4. /\ index' = [at |-> sess[x].now, data |-> data, listed |-> listed, ok |-> sess[x].ok]
      /\ listed \in SUBSET IndexNames
  BY <1>0 DEF IndexStamp, Listings, CachesInv, Typed
<1>5. data \in Nat \cup {None}
  BY <1>1, StoreFacts DEF CachesInv, Typed
<1>6. index' \in [at : Nat \cup {Never}, data : Nat \cup {None},
                  listed : SUBSET IndexNames, ok : BOOLEAN]
  BY <1>1, <1>4, <1>5, StoreFacts
<1>7. index'.ok => index'.at <= index'.data /\ index'.data # None
  BY <1>1, <1>4, StoreFacts DEF None
<1> QED
  BY <1>1, <1>2, <1>3, <1>6, <1>7 DEF CachesInv, Typed, FramesBounded, HitsAreFresh

\* The caches are empty at first.
LEMMA CachesStart == Init => CachesInv
<1> SUFFICES ASSUME Init PROVE CachesInv
  OBVIOUS
<1>1. DOMAIN quotes = {} /\ DOMAIN frames = {}
  BY DEF Init
<1>2. FramesBounded
  BY <1>1, FS_EmptySet, NumberAssumption DEF FramesBounded
<1>3. Typed
  <2>1. index = [at |-> Never, data |-> None, listed |-> {}, ok |-> FALSE]
    BY DEF Init
  <2>2. index \in [at : Nat \cup {Never}, data : Nat \cup {None},
                   listed : SUBSET IndexNames, ok : BOOLEAN]
    BY <2>1
  <2>3. sess \in [Requests -> Session] /\ clock \in Nat
    BY DEF Init, Session, Idle
  <2> QED
    BY <1>1, <2>2, <2>3 DEF Typed
<1> QED
  BY <1>1, <1>2, <1>3 DEF Init, CachesInv, HitsAreFresh, SessionOK, Idle

\* Every step keeps the invariant.
LEMMA CachesStep == CachesInv /\ [Next]_vars => CachesInv'
<1> SUFFICES ASSUME CachesInv, [Next]_vars PROVE CachesInv'
  OBVIOUS
<1>1. CASE Pass
  BY <1>1, PassStep
<1>2. ASSUME NEW x \in Requests, Fetch(x) PROVE CachesInv'
  BY <1>2, FetchStep
<1>3. ASSUME NEW x \in Requests, QuoteStore(x) \/ FrameStore(x) \/ IndexStore(x)
      PROVE  CachesInv'
  BY <1>3, QuoteStoreStep, FrameStoreStep, IndexStoreStep
<1>4. ASSUME NEW x \in Requests, NEW k \in QuoteKeys, QuoteBegin(x, k) PROVE CachesInv'
  BY <1>4, BeginStep DEF Keys
<1>5. ASSUME NEW x \in Requests, NEW k \in FrameKeys, FrameBegin(x, k) PROVE CachesInv'
  BY <1>5, BeginStep DEF Keys
<1>6. ASSUME NEW x \in Requests, NEW k \in IndexKeys, IndexBegin(x, k) PROVE CachesInv'
  BY <1>6, BeginStep DEF Keys
<1>7. CASE UNCHANGED vars
  BY <1>7 DEF vars, CachesInv, Typed, SessionOK, FramesBounded, HitsAreFresh
<1> QED
  BY <1>1, <1>2, <1>3, <1>4, <1>5, <1>6, <1>7 DEF Next

\* The inductive invariant of the caches.
THEOREM CachesInvariant == Spec => []CachesInv
BY CachesStart, CachesStep, PTL DEF Spec

\* A quote or a candle frame served from memory was asked of the provider less than
\* its TTL ago, and so were the indexes unless the provider is failing: a slow or
\* overtaken request never makes old data look new.
THEOREM CachesServeFreshData == Spec => []HitsAreFresh
<1>1. CachesInv => HitsAreFresh
  BY DEF CachesInv
<1> QED
  BY <1>1, CachesInvariant, PTL

\* The frame cache keeps at most MAX_HISTORICAL_CACHE_SIZE frames, however many
\* threads store one at the same time.
THEOREM FrameCacheBounded == Spec => []FramesBounded
<1>1. CachesInv => FramesBounded
  BY DEF CachesInv
<1> QED
  BY <1>1, CachesInvariant, PTL
=============================================================================
