-------------------------- MODULE PriceMarketsProofs --------------------------
(***************************************************************************)
(* What both price keepers' proofs need of the primitives they share: what *)
(* a search of the feed finds, that the proof made of it is accepted, what *)
(* an empty search shows, and what others may do to the accounts.          *)
(***************************************************************************)
EXTENDS PriceMarkets, SequenceTheorems, WellFoundedInduction, TLAPS

(* The feed has published once, and nothing yet of the time to come.       *)
FeedFits ==
    /\ time \in 0..MaxClock
    /\ updates \in [0..MaxClock -> Prices \cup {None}]
    /\ candles \in [Windows -> Prices \cup {None}]
    /\ updates[0] # None
    /\ \A t \in 0..MaxClock : t > time => updates[t] = None

BookFits == book \in [Markets -> Entry] /\ time \in Nat

(* A market that is voided is past the grace, and the window of a Pyth     *)
(* market has passed: an update that is published now is not in it.        *)
WindowPassed ==
    run.at = "voiding" =>
        /\ time > run.market.window + VoidGrace
        /\ bound[run.market] = "pyth" /\ mode = "pyth" =>
              time > run.market.window + MaxStaleness

-----------------------------------------------------------------------------
(* The probes.                                                             *)
LEMMA LeastFound ==
    ASSUME NEW S \in SUBSET Nat, S # {}
    PROVE  Min(S) \in S /\ \A y \in S : Min(S) <= y
<1>1. PICK x \in S : \A y \in S : ~(<<y, x>> \in OpToRel(<, Nat))
  BY NatLessThanWellFounded, WFMin
<1>2. ASSUME NEW y \in S PROVE x <= y
  <2>1. ~(<<y, x>> \in OpToRel(<, Nat)) /\ x \in Nat /\ y \in Nat
    BY <1>1
  <2> QED
    BY <2>1 DEF OpToRel
<1>3. \E z \in S : \A y \in S : z <= y
  BY <1>2
<1> QED
  BY <1>3 DEF Min

LEMMA LatestFound ==
    ASSUME NEW n \in Nat, NEW S \in SUBSET (0..n), S # {}
    PROVE  Max(S) \in S /\ \A y \in S : y <= Max(S)
<1> DEFINE gaps == {n - s : s \in S}
<1>1. gaps \in SUBSET Nat /\ gaps # {}
  <2>1. \A s \in S : n - s \in Nat
    OBVIOUS
  <2>2. PICK s \in S : TRUE
    OBVIOUS
  <2>3. n - s \in gaps
    OBVIOUS
  <2>4. gaps \in SUBSET Nat
    BY <2>1
  <2> QED
    BY <2>3, <2>4
<1>2. PICK g \in gaps : \A h \in gaps : g <= h
  BY <1>1, LeastFound
<1>3. PICK s \in S : g = n - s
  BY <1>2
<1>4. ASSUME NEW y \in S PROVE s >= y
  <2>1. g <= n - y
    BY <1>2
  <2> QED
    BY <1>3, <2>1
<1>5. \E z \in S : \A y \in S : z >= y
  BY <1>4
<1>6. Max(S) \in S /\ \A y \in S : Max(S) >= y
  BY <1>5 DEF Max
<1> QED
  BY <1>6

LEMMA LargerOfTwo ==
    ASSUME NEW a \in Nat, NEW b \in Nat
    PROVE  Max({a, b}) \in Nat /\ a <= Max({a, b}) /\ b <= Max({a, b})
<1>1. CASE a <= b
  <2>1. {a, b} \in SUBSET (0..b)
    BY <1>1
  <2> QED
    BY <2>1, LatestFound
<1>2. CASE b <= a
  <2>1. {a, b} \in SUBSET (0..a)
    BY <1>2
  <2> QED
    BY <2>1, LatestFound
<1> QED
  BY <1>1, <1>2

LEMMA MarketsAre ==
    ASSUME NEW m \in Markets
    PROVE  m.window \in Nat /\ m.threshold \in Nat /\ m.window \in Windows
BY PriceAssumption

(* An answer of Hermes is an update of the past, and the latest.           *)
LEMMA LatestIsReal ==
    ASSUME FeedFits, NEW t \in 0..time
    PROVE  /\ LatestAt(t) \in 0..t
           /\ updates[LatestAt(t)] \in Prices
           /\ \A s \in 0..t : updates[s] # None => s <= LatestAt(t)
<1> DEFINE seen == {s \in 0..t : updates[s] # None}
<1>1. MaxClock \in Nat /\ time \in 0..MaxClock /\ t \in 0..MaxClock
  BY PromiseAssumption DEF FeedFits
<1>2. seen \in SUBSET (0..t) /\ 0 \in seen
  BY <1>1 DEF FeedFits
<1>3. t \in Nat /\ seen # {}
  BY <1>1, <1>2
<1> HIDE DEF seen
<1>4. Max(seen) \in seen /\ \A s \in seen : s <= Max(seen)
  BY <1>2, <1>3, LatestFound
<1>5. updates \in [0..MaxClock -> Prices \cup {None}]
  BY DEF FeedFits
<1> QED
  BY <1>1, <1>4, <1>5 DEF LatestAt, seen

LEMMA OffsetsAre ==
    /\ DOMAIN ProbeOffsets \in SUBSET Nat
    /\ \A i \in DOMAIN ProbeOffsets : ProbeOffsets[i] \in Nat
<1>1. ProbeOffsets \in Seq(Nat)
  BY PriceAssumption
<1>2. DOMAIN ProbeOffsets = 1..Len(ProbeOffsets) /\ Len(ProbeOffsets) \in Nat
  BY <1>1, LenProperties
<1> QED
  BY <1>1, <1>2, ElementOfSeq

LEMMA ProbesAreReal ==
    ASSUME FeedFits, NEW m \in Markets, NEW i \in DOMAIN ProbeOffsets
    PROVE  /\ Probed(m, time)[i] = LatestAt(Earlier(m.window + ProbeOffsets[i], time))
           /\ Earlier(m.window + ProbeOffsets[i], time) \in 0..time
           /\ Probed(m, time)[i] \in 0..time
           /\ updates[Probed(m, time)[i]] \in Prices
<1> DEFINE at == Earlier(m.window + ProbeOffsets[i], time)
<1>1. time \in Nat /\ m.window \in Nat
  BY PromiseAssumption, MarketsAre DEF FeedFits
<1>2. ProbeOffsets[i] \in Nat
  BY OffsetsAre
<1>3. at \in 0..time
  BY <1>1, <1>2 DEF Earlier
<1>4. LatestAt(at) \in 0..at /\ updates[LatestAt(at)] \in Prices
  BY <1>3, LatestIsReal
<1>5. Probed(m, time)[i] = LatestAt(at)
  BY DEF Probed
<1>6. 0..at \in SUBSET (0..time)
  BY <1>1, <1>3
<1> QED
  BY <1>3, <1>4, <1>5, <1>6

(* Either the observation found lies in the window, or no probe does.      *)
LEMMA WindowIsSearched ==
    ASSUME FeedFits, NEW m \in Markets
    PROVE  \/ /\ InWindowUpdate(m, time) \in 0..time
              /\ updates[InWindowUpdate(m, time)] \in Prices
              /\ Usable(m, InWindowUpdate(m, time))
           \/ /\ InWindowUpdate(m, time) = None
              /\ \A i \in DOMAIN ProbeOffsets : ~Usable(m, Probed(m, time)[i])
<1> DEFINE probes == Probed(m, time)
           hits == {i \in DOMAIN probes : Usable(m, probes[i])}
<1>1. DOMAIN probes = DOMAIN ProbeOffsets
  BY DEF Probed
<1>2. InWindowUpdate(m, time) = IF hits = {} THEN None ELSE probes[Min(hits)]
  BY DEF InWindowUpdate
<1>3. CASE hits = {}
  BY <1>1, <1>2, <1>3
<1>4. CASE hits # {}
  <2>1. hits \in SUBSET Nat
    BY <1>1, OffsetsAre
  <2>2. Min(hits) \in hits
    <3> HIDE DEF hits
    <3> QED
      BY <1>4, <2>1, LeastFound
  <2>3. Min(hits) \in DOMAIN ProbeOffsets /\ Usable(m, probes[Min(hits)])
    BY <1>1, <2>2
  <2>4. probes[Min(hits)] \in 0..time /\ updates[probes[Min(hits)]] \in Prices
    BY <2>3, ProbesAreReal
  <2> QED
    BY <1>2, <1>4, <2>3, <2>4
<1> QED
  BY <1>3, <1>4

(* The last probe is at the end of the window: once that is over, a search *)
(* without a hit means that there is nothing to find.                      *)
LEMMA NothingMissed ==
    ASSUME FeedFits, NEW m \in Markets,
           InWindowUpdate(m, time) = None, time > m.window + MaxStaleness
    PROVE  \A t \in 0..MaxClock :
              WithinWindow(t, m.window, MaxStaleness) => updates[t] = None
<1>1. PICK i \in DOMAIN ProbeOffsets : ProbeOffsets[i] = MaxStaleness
  BY PriceAssumption
<1>2. time \in Nat /\ m.window \in Nat /\ MaxStaleness \in Nat
  <2>1. time \in Nat
    BY PromiseAssumption DEF FeedFits
  <2>2. MaxStaleness \in Nat
    BY PriceAssumption
  <2> QED
    BY <2>1, <2>2, MarketsAre
<1> DEFINE end == m.window + MaxStaleness
<1>3. Earlier(m.window + ProbeOffsets[i], time) = end /\ end \in 0..time
  BY <1>1, <1>2 DEF Earlier
<1>4. Probed(m, time)[i] = LatestAt(end)
  BY <1>3, ProbesAreReal
<1>5. None \notin 0..time
  BY <1>2, PriceAssumption
<1>6. ~Usable(m, LatestAt(end))
  BY <1>4, <1>5, WindowIsSearched
<1>7. LatestAt(end) \in 0..end /\ \A s \in 0..end : updates[s] # None => s <= LatestAt(end)
  BY <1>3, LatestIsReal
<1>8. LatestAt(end) < m.window
  BY <1>2, <1>6, <1>7 DEF Usable, WithinWindow
<1>9. ASSUME NEW t \in 0..MaxClock, WithinWindow(t, m.window, MaxStaleness)
      PROVE  updates[t] = None
  <2>1. t \in 0..end /\ t > LatestAt(end)
    <3>1. t \in Nat /\ t >= m.window /\ t <= end
      BY <1>9, PromiseAssumption DEF WithinWindow
    <3>2. LatestAt(end) \in Int
      BY <1>2, <1>7
    <3> HIDE DEF end
    <3> QED
      BY <1>2, <1>8, <3>1, <3>2
  <2>2. LatestAt(end) \in Int /\ t \in Int
    BY <1>2, <1>7, <2>1
  <2> QED
    BY <1>7, <2>1, <2>2
<1> QED
  BY <1>9

-----------------------------------------------------------------------------
(* The proof that is sent.                                                 *)
LEMMA AttestedInTime ==
    ASSUME NEW m \in Markets, NEW now \in Nat, m.window <= now
    PROVE  WithinWindow(now, m.window, AttestedWindow(m, now))
<1> DEFINE late == now - m.window + ClaimSlack
<1>1. m.window \in Nat /\ ClaimSlack \in Nat /\ ClaimWindow \in Nat
  BY PriceAssumption, MarketsAre
<1>2. late \in Nat /\ now <= m.window + late
  BY <1>1
<1>3. AttestedWindow(m, now) \in Nat /\ late <= AttestedWindow(m, now)
  BY <1>1, <1>2, LargerOfTwo DEF AttestedWindow
<1> HIDE DEF late
<1> QED
  BY <1>1, <1>2, <1>3 DEF WithinWindow

LEMMA AnswersAreAccepted ==
    ASSUME NEW holds \in BOOLEAN
    PROVE  Answer(holds) \in Answers /\ ProofAccepted(Answer(holds), Answer(holds))
BY DEF Answer, Answers, ProofAccepted

LEMMA EvidenceIsNumbers ==
    ASSUME NEW e \in EvidenceOf
    PROVE  e.at \in Nat /\ e.value \in Nat
<1>1. e.at \in 0..MaxClock /\ e.value \in Prices
  BY DEF EvidenceOf
<1>2. MaxClock \in Nat /\ Prices \in SUBSET Nat
  BY PriceAssumption, PromiseAssumption
<1>3. \A t \in 0..MaxClock : t \in Nat
  BY <1>2
<1>4. \A p \in Prices : p \in Nat
  BY <1>2
<1> QED
  BY <1>1, <1>3, <1>4, Zenon

LEMMA PythAccepts ==
    ASSUME NEW m \in Markets, NEW e \in EvidenceOf, bound[m] = "pyth",
           Usable(m, e.at), e.outcome = Answer(e.value >= m.threshold)
    PROVE  ProofAccepted(OracleAnswer(m, e), e.outcome)
<1> DEFINE update == [publishTime |-> e.at, price |-> e.value]
           claim == [threshold |-> m.threshold, referenceTs |-> m.window,
                     window |-> MaxStaleness]
<1>1. e.at \in Nat /\ e.value \in Nat
  BY EvidenceIsNumbers
<1>2. update \in [publishTime: Nat, price: Nat]
  BY <1>1
<1>3. update # None
  BY <1>2, PriceAssumption
<1>4. /\ update.publishTime = e.at /\ update.price = e.value
      /\ claim.threshold = m.threshold /\ claim.referenceTs = m.window
      /\ claim.window = MaxStaleness
  OBVIOUS
<1>5. WithinWindow(e.at, m.window, MaxStaleness)
  BY DEF Usable
<1>6. ValidatePrice(update, claim) = Answer(e.value >= m.threshold)
  <2> HIDE DEF update, claim
  <2> QED
    BY <1>3, <1>4, <1>5 DEF ValidatePrice
<1>7. OracleAnswer(m, e) = ValidatePrice(update, claim)
  BY DEF OracleAnswer
<1>8. (e.value >= m.threshold) \in BOOLEAN
  BY <1>1, MarketsAre
<1> QED
  BY <1>6, <1>7, <1>8, AnswersAreAccepted

LEMMA AttestationAccepts ==
    ASSUME NEW m \in Markets, NEW e \in EvidenceOf, bound[m] # "pyth",
           m.window <= e.at, e.outcome = Answer(e.value >= m.threshold)
    PROVE  ProofAccepted(OracleAnswer(m, e), e.outcome)
<1> DEFINE observation == [value |-> e.value, obsTs |-> e.at]
           precompile == [signer |-> "attestor", message |-> observation]
           claim == [threshold |-> m.threshold, referenceTs |-> m.window,
                     window |-> AttestedWindow(m, e.at), op |-> OP_GTE]
<1>1. e.at \in Nat /\ e.value \in Nat
  BY EvidenceIsNumbers
<1>2. observation \in [value: Nat, obsTs: Nat]
  BY <1>1
<1>3. precompile \in [signer: {"attestor"}, message: [value: Nat, obsTs: Nat]]
  <2> HIDE DEF observation
  <2> QED
    BY <1>2
<1>4. precompile # None
  <2> HIDE DEF precompile
  <2> QED
    BY <1>3, PriceAssumption
<1>5. /\ precompile.signer = "attestor" /\ precompile.message = observation
      /\ observation.obsTs = e.at /\ observation.value = e.value
      /\ claim.threshold = m.threshold /\ claim.referenceTs = m.window
      /\ claim.window = AttestedWindow(m, e.at) /\ claim.op = OP_GTE
  OBVIOUS
<1>6. WithinWindow(e.at, m.window, AttestedWindow(m, e.at))
  BY <1>1, AttestedInTime
<1>7. Holds(OP_GTE, e.value, m.threshold) = (e.value >= m.threshold)
  BY <1>1, MarketsAre DEF Holds, OP_GTE, OP_LTE, OP_EQ
<1>8. ValidateAttestation("attestor", precompile, observation, claim)
        = Answer(e.value >= m.threshold)
  <2> HIDE DEF observation, precompile, claim
  <2> QED
    BY <1>4, <1>5, <1>6, <1>7 DEF ValidateAttestation
<1>9. OracleAnswer(m, e)
        = ValidateAttestation("attestor", precompile, observation, claim)
  BY DEF OracleAnswer
<1>10. (e.value >= m.threshold) \in BOOLEAN
  BY <1>1, MarketsAre
<1> QED
  BY <1>8, <1>9, <1>10, AnswersAreAccepted

LEMMA EvidenceFits ==
    ASSUME FeedFits, NEW m \in Markets, m.window <= time,
           Evidence(m) # None
    PROVE  /\ Evidence(m) \in EvidenceOf
           /\ ProofAccepted(OracleAnswer(m, Evidence(m)), Evidence(m).outcome)
<1> DEFINE claim(t, price) == [at |-> t, value |-> price,
                               outcome |-> Answer(price >= m.threshold)]
<1>1. time \in 0..MaxClock /\ MaxClock \in Nat /\ time \in Nat
  BY PromiseAssumption DEF FeedFits
<1>2. ASSUME NEW t \in 0..time, NEW price \in Prices
      PROVE  claim(t, price) \in EvidenceOf
  <2>1. price \in Nat /\ t \in 0..MaxClock
    BY <1>1, PriceAssumption
  <2>2. Answer(price >= m.threshold) \in Answers
    BY <2>1, MarketsAre DEF Answer, Answers
  <2> QED
    BY <2>1, <2>2 DEF EvidenceOf
<1>3. \A t, price : /\ claim(t, price).at = t /\ claim(t, price).value = price
                    /\ claim(t, price).outcome = Answer(price >= m.threshold)
  OBVIOUS
<1>4. CASE bound[m] = "pyth"
  <2> DEFINE t == InWindowUpdate(m, time)
  <2>1. t # None /\ Evidence(m) = claim(t, updates[t])
    BY <1>4 DEF Evidence
  <2>2. t \in 0..time /\ updates[t] \in Prices /\ Usable(m, t)
    BY <2>1, WindowIsSearched
  <2>3. Evidence(m) \in EvidenceOf
    BY <1>2, <2>1, <2>2
  <2>4. /\ Evidence(m).at = t
        /\ Evidence(m).outcome = Answer(Evidence(m).value >= m.threshold)
    <3> HIDE DEF t, claim
    <3> QED
      BY <1>3, <2>1
  <2> QED
    BY <1>4, <2>2, <2>3, <2>4, PythAccepts
<1>5. CASE bound[m] # "pyth"
  <2> DEFINE price == candles[m.window]
  <2>1. price # None /\ Evidence(m) = claim(time, price)
    BY <1>5 DEF Evidence
  <2>2. price \in Prices
    BY <2>1, MarketsAre DEF FeedFits
  <2>3. time \in 0..time
    BY <1>1
  <2>4. Evidence(m) \in EvidenceOf
    BY <1>2, <2>1, <2>2, <2>3
  <2>5. /\ Evidence(m).at = time
        /\ Evidence(m).outcome = Answer(Evidence(m).value >= m.threshold)
    <3> HIDE DEF price, claim
    <3> QED
      BY <1>3, <2>1
  <2> QED
    BY <1>5, <2>4, <2>5, AttestationAccepts
<1> QED
  BY <1>4, <1>5

(* A market is given up for want of an observation only if there is none.  *)
LEMMA EmptyMeansGap ==
    ASSUME FeedFits, NEW m \in Markets, bound[m] = "pyth",
           SeenEmpty(m), Unresolvable(m)
    PROVE  /\ time > m.window + MaxStaleness
           /\ \A t \in 0..MaxClock :
                 WithinWindow(t, m.window, MaxStaleness) => updates[t] = None
<1>1. time > m.window + MaxStaleness
  BY DEF Unresolvable
<1>2. Evidence(m) = None
  BY DEF SeenEmpty
<1>3. ASSUME InWindowUpdate(m, time) # None PROVE FALSE
  <2> DEFINE t == InWindowUpdate(m, time)
             price == updates[t]
             e == [at |-> t, value |-> price,
                   outcome |-> Answer(price >= m.threshold)]
  <2>1. t \in 0..time /\ price \in Prices
    BY <1>3, WindowIsSearched
  <2>2. t \in 0..MaxClock /\ price \in Nat
    <3>1. time \in 0..MaxClock /\ MaxClock \in Nat /\ price \in Prices
      BY <2>1, PromiseAssumption DEF FeedFits
    <3>2. Prices \in SUBSET Nat
      BY PriceAssumption
    <3> HIDE DEF t, price
    <3> QED
      BY <2>1, <3>1, <3>2
  <2>3. Answer(price >= m.threshold) \in Answers
    BY <2>2, MarketsAre DEF Answer, Answers
  <2>4. e \in EvidenceOf
    <3> HIDE DEF t, price
    <3> QED
      BY <2>1, <2>2, <2>3 DEF EvidenceOf
  <2>5. Evidence(m) = e
    BY <1>3 DEF Evidence
  <2> QED
    BY <1>2, <2>4, <2>5, PriceAssumption
<1> QED
  BY <1>1, <1>3, NothingMissed

-----------------------------------------------------------------------------
(* The accounts.                                                           *)
LEMMA StageSet ==
    ASSUME NEW b \in [Markets -> Entry], NEW m \in Markets, NEW stage \in Stages
    PROVE  /\ [b EXCEPT ![m].stage = stage] \in [Markets -> Entry]
           /\ [b EXCEPT ![m].stage = stage][m].stage = stage
           /\ \A n \in Markets \ {m} : [b EXCEPT ![m].stage = stage][n] = b[n]
BY DEF Entry

LEMMA ReceiptSet ==
    ASSUME NEW b \in [Markets -> Entry], NEW m \in Markets
    PROVE  /\ [b EXCEPT ![m].receipt = TRUE] \in [Markets -> Entry]
           /\ [b EXCEPT ![m].receipt = TRUE][m].stage = b[m].stage
           /\ \A n \in Markets \ {m} : [b EXCEPT ![m].receipt = TRUE][n] = b[n]
BY DEF Entry

LEMMA StageChanged ==
    ASSUME BookFits, NEW m \in Markets, NEW stage \in Stages, NEW closing \in Nat,
           \/ book' = [book EXCEPT ![m].stage = stage, ![m].closesAt = closing]
           \/ book' = [book EXCEPT ![m].stage = stage, ![m].decidedAt = time]
           \/ book' = [book EXCEPT ![m].receipt = TRUE, ![m].stage = stage,
                                   ![m].decidedAt = time]
    PROVE  /\ book' \in [Markets -> Entry]
           /\ book'[m].stage = stage
           /\ \A n \in Markets \ {m} : book'[n] = book[n]
<1>1. book \in [Markets -> Entry] /\ time \in Nat
  BY DEF BookFits
<1> DEFINE b == [book EXCEPT ![m].stage = stage]
           c == [book EXCEPT ![m].receipt = TRUE]
           d == [c EXCEPT ![m].stage = stage]
<1>2. /\ b \in [Markets -> Entry] /\ b[m].stage = stage
      /\ \A n \in Markets \ {m} : b[n] = book[n]
  BY <1>1, StageSet
<1>3. /\ c \in [Markets -> Entry] /\ \A n \in Markets \ {m} : c[n] = book[n]
  BY <1>1, ReceiptSet
<1>4. /\ d \in [Markets -> Entry] /\ d[m].stage = stage
      /\ \A n \in Markets \ {m} : d[n] = c[n]
  <2> HIDE DEF c
  <2> QED
    BY <1>3, StageSet
<1>5. \/ book' = [b EXCEPT ![m].closesAt = closing]
      \/ book' = [b EXCEPT ![m].decidedAt = time]
      \/ book' = [d EXCEPT ![m].decidedAt = time]
  OBVIOUS
<1> HIDE DEF b, c, d
<1>6. ASSUME NEW f \in [Markets -> Entry], f[m].stage = stage,
             \A n \in Markets \ {m} : f[n] = book[n],
             NEW at \in Nat,
             \/ book' = [f EXCEPT ![m].closesAt = at]
             \/ book' = [f EXCEPT ![m].decidedAt = at]
      PROVE  /\ book' \in [Markets -> Entry]
             /\ book'[m].stage = stage
             /\ \A n \in Markets \ {m} : book'[n] = book[n]
  <2>1. CASE book' = [f EXCEPT ![m].closesAt = at]
    <3>1. /\ [f EXCEPT ![m].closesAt = at] \in [Markets -> Entry]
          /\ [f EXCEPT ![m].closesAt = at][m].stage = f[m].stage
          /\ \A n \in Markets \ {m} : [f EXCEPT ![m].closesAt = at][n] = f[n]
      BY DEF Entry
    <3> QED
      BY <1>6, <2>1, <3>1
  <2>2. CASE book' = [f EXCEPT ![m].decidedAt = at]
    <3>1. /\ [f EXCEPT ![m].decidedAt = at] \in [Markets -> Entry]
          /\ [f EXCEPT ![m].decidedAt = at][m].stage = f[m].stage
          /\ \A n \in Markets \ {m} : [f EXCEPT ![m].decidedAt = at][n] = f[n]
      BY DEF Entry
    <3> QED
      BY <1>6, <2>2, <3>1
  <2> QED
    BY <1>6, <2>1, <2>2
<1>7. \A n \in Markets \ {m} : d[n] = book[n]
  BY <1>3, <1>4
<1>8. CASE \/ book' = [b EXCEPT ![m].closesAt = closing]
           \/ book' = [b EXCEPT ![m].decidedAt = time]
  <2>1. CASE book' = [b EXCEPT ![m].closesAt = closing]
    BY <1>2, <1>6, <2>1
  <2>2. CASE book' = [b EXCEPT ![m].decidedAt = time]
    BY <1>1, <1>2, <1>6, <2>2
  <2> QED
    BY <1>8, <2>1, <2>2
<1>9. CASE book' = [d EXCEPT ![m].decidedAt = time]
  BY <1>1, <1>4, <1>6, <1>7, <1>9, Zenon
<1> QED
  BY <1>5, <1>8, <1>9

(* What a step may do to the accounts, but for opening a market.           *)
NothingOpens ==
    /\ book' \in [Markets -> Entry]
    /\ \A n \in Markets :
          /\ book'[n].stage = "open" => book[n].stage = "open"
          /\ book[n].stage = "none" => book'[n].stage = "none"
          /\ book[n].stage \in Decided => book'[n].stage \in Decided

LEMMA DecisionOpensNothing ==
    ASSUME BookFits, NEW m \in Markets, book[m].stage = "open",
           \/ \E v \in Decided :
                 book' = [book EXCEPT ![m].stage = v, ![m].decidedAt = time]
           \/ book' = [book EXCEPT ![m].receipt = TRUE, ![m].stage = "settled",
                                   ![m].decidedAt = time]
    PROVE  NothingOpens /\ book'[m].stage \in Decided
<1>1. PICK v \in Decided :
         \/ book' = [book EXCEPT ![m].stage = v, ![m].decidedAt = time]
         \/ book' = [book EXCEPT ![m].receipt = TRUE, ![m].stage = v,
                                 ![m].decidedAt = time]
  BY DEF Decided
<1>2. v \in Stages /\ v # "open" /\ v # "none" /\ 0 \in Nat
      /\ "open" \notin Decided /\ "none" \notin Decided
  BY DEF Decided, Stages
<1>3. /\ book' \in [Markets -> Entry] /\ book'[m].stage = v
      /\ \A n \in Markets \ {m} : book'[n] = book[n]
  BY <1>1, <1>2, StageChanged
<1> QED
  BY <1>2, <1>3 DEF NothingOpens

LEMMA SameBookOpensNothing == ASSUME BookFits, book' = book PROVE NothingOpens
BY DEF NothingOpens, BookFits

LEMMA OthersOpenNothing ==
    ASSUME BookFits, OthersAct
    PROVE  NothingOpens /\ time' = time /\ UNCHANGED worldVars
<1>1. PICK m \in Markets : Prove(m) \/ Decide(m, "settled") \/ Void(m)
  BY DEF OthersAct
<1>2. CASE Prove(m)
  <2>1. book' = [book EXCEPT ![m].receipt = TRUE] /\ time' = time
    BY <1>2 DEF Prove
  <2>2. book \in [Markets -> Entry]
    BY DEF BookFits
  <2>3. \A n \in Markets : book'[n].stage = book[n].stage
    BY <2>1, <2>2, ReceiptSet
  <2>4. book' \in [Markets -> Entry]
    BY <2>1, <2>2, ReceiptSet
  <2> QED
    BY <2>1, <2>3, <2>4 DEF OthersAct, NothingOpens
<1>3. CASE Decide(m, "settled") \/ Void(m)
  <2>1. PICK v \in Decided : Decide(m, v)
    BY <1>3 DEF Decided, Void
  <2>2. /\ book' = [book EXCEPT ![m].stage = v, ![m].decidedAt = time]
        /\ time' = time /\ book[m].stage = "open"
    BY <2>1 DEF Decide
  <2> QED
    BY <2>2, DecisionOpensNothing DEF OthersAct
<1> QED
  BY <1>1, <1>2, <1>3

-----------------------------------------------------------------------------
(* The turns that send something.                                          *)
LEMMA SentProofFits ==
    ASSUME FeedFits, NEW m \in Markets, m.window <= time, Evidence(m) # None,
           run'.at = "sending", run'.market = m, run'.evidence = Evidence(m),
           UNCHANGED bound
    PROVE  ProofFits' /\ run'.evidence \in EvidenceOf
<1>1. PICK e : e = Evidence(m)
  OBVIOUS
<1>2. e \in EvidenceOf /\ ProofAccepted(OracleAnswer(m, e), e.outcome)
  BY <1>1, EvidenceFits
<1> QED
  BY <1>1, <1>2 DEF ProofFits, OracleAnswer

LEMMA SentVoidFits ==
    ASSUME FeedFits, NEW m \in Markets, SettleGivesUp(m),
           run.now \in Nat, run.now <= time,
           run'.at = "voiding", run'.market = m
    PROVE  WindowPassed' /\ OnlyGapsAreVoided'
<1>1. /\ Unsupported(m) \/ (SeenEmpty(m) /\ Unresolvable(m))
      /\ UNCHANGED <<time, bound, updates, mode>>
  BY DEF SettleGivesUp, promiseVars, worldVars
<1>2. bound[m] = "pyth" /\ mode = "pyth" =>
         /\ time > m.window + MaxStaleness
         /\ \A t \in 0..MaxClock :
               WithinWindow(t, m.window, MaxStaleness) => updates[t] = None
  <2> SUFFICES ASSUME bound[m] = "pyth", mode = "pyth"
               PROVE  /\ time > m.window + MaxStaleness
                      /\ \A t \in 0..MaxClock :
                            WithinWindow(t, m.window, MaxStaleness) => updates[t] = None
    OBVIOUS
  <2>1. SeenEmpty(m) /\ Unresolvable(m)
    BY <1>1 DEF Unsupported
  <2> QED
    BY <2>1, EmptyMeansGap
<1>3. time > m.window + VoidGrace
  <2>1. run.now > m.window + VoidGrace
    BY DEF SettleGivesUp, PastGrace
  <2>2. time \in Nat /\ m.window \in Nat /\ VoidGrace \in Nat
    BY PromiseAssumption, PriceAssumption, MarketsAre DEF FeedFits
  <2> QED
    BY <2>1, <2>2
<1>4. WindowPassed'
  BY <1>1, <1>2, <1>3 DEF WindowPassed
<1>5. OnlyGapsAreVoided'
  BY <1>1, <1>2 DEF OnlyGapsAreVoided
<1> QED
  BY <1>4, <1>5

(* All other steps of a loop leave nothing to be sent.                     *)
LEMMA NothingIsSent ==
    ASSUME run'.at \notin {"sending", "voiding"}
    PROVE  WindowPassed' /\ ProofFits' /\ OnlyGapsAreVoided'
BY DEF WindowPassed, ProofFits, OnlyGapsAreVoided

LEMMA FeedStays ==
    ASSUME FeedFits, UNCHANGED <<time, updates, candles>>
    PROVE  FeedFits'
BY DEF FeedFits

LEMMA SentStays ==
    ASSUME WindowPassed, ProofFits, OnlyGapsAreVoided,
           UNCHANGED <<time, updates, bound, mode, run>>
    PROVE  WindowPassed' /\ ProofFits' /\ OnlyGapsAreVoided'
BY DEF WindowPassed, ProofFits, OnlyGapsAreVoided, OracleAnswer

-----------------------------------------------------------------------------
(* The world goes on while a keeper waits: what is published now is after  *)
(* all that was.                                                           *)
WorldMoves == TimePasses \/ OthersAct \/ \E w \in Windows : CandleAppears(w)

LEMMA FeedMoves ==
    ASSUME FeedFits, WorldMoves
    PROVE  /\ time \in Nat /\ time' \in 0..MaxClock /\ time' \in Nat /\ time <= time'
           /\ updates' \in [0..MaxClock -> Prices \cup {None}]
           /\ \A t \in 0..MaxClock :
                 t <= time \/ t > time' => updates'[t] = updates[t]
<1>1. /\ time \in Nat /\ MaxClock \in Nat /\ time \in 0..MaxClock
      /\ updates \in [0..MaxClock -> Prices \cup {None}]
  BY PromiseAssumption DEF FeedFits
<1>2. CASE TimePasses
  <2>1. time' = time + 1 /\ time < MaxClock
    BY <1>2 DEF TimePasses, Pass
  <2>2. /\ time' \in 0..MaxClock /\ time' \in Nat /\ time <= time'
        /\ \A t \in 0..MaxClock : t <= time \/ t > time' => t # time'
    BY <1>1, <2>1
  <2>3. CASE InSomeWindow(time')
    <3>1. PICK p \in Prices \cup {None} : updates' = [updates EXCEPT ![time'] = p]
      BY <1>2, <2>3 DEF TimePasses
    <3> QED
      BY <1>1, <2>2, <3>1
  <2>4. CASE ~InSomeWindow(time')
    <3>1. updates' = updates
      BY <1>2, <2>4 DEF TimePasses
    <3> QED
      BY <1>1, <2>2, <3>1
  <2> QED
    BY <2>3, <2>4
<1>3. CASE ~TimePasses
  <2>1. updates' = updates
    BY <1>3 DEF WorldMoves, OthersAct, CandleAppears, worldVars
  <2>2. time' = time
    BY <1>3 DEF WorldMoves, OthersAct, CandleAppears, promiseVars, Prove, Decide, Void
  <2> QED
    BY <1>1, <2>1, <2>2
<1> QED
  BY <1>2, <1>3

LEMMA FeedGoesOn ==
    ASSUME FeedFits, WorldMoves
    PROVE  FeedFits' /\ bound' = bound
<1>1. bound' = bound
  BY DEF WorldMoves, TimePasses, OthersAct, CandleAppears, worldVars
<1>2. candles' \in [Windows -> Prices \cup {None}]
  <2>1. candles \in [Windows -> Prices \cup {None}]
    BY DEF FeedFits
  <2> QED
    BY <2>1 DEF WorldMoves, TimePasses, OthersAct, CandleAppears, worldVars
<1>3. /\ time \in Nat /\ time' \in 0..MaxClock /\ time' \in Nat /\ time <= time'
      /\ updates' \in [0..MaxClock -> Prices \cup {None}]
      /\ \A t \in 0..MaxClock : t <= time \/ t > time' => updates'[t] = updates[t]
  BY FeedMoves
<1>4. updates'[0] # None
  <2>1. 0 \in 0..MaxClock /\ 0 <= time
    BY <1>3, PromiseAssumption
  <2> QED
    BY <1>3, <2>1 DEF FeedFits
<1>5. ASSUME NEW t \in 0..MaxClock, t > time' PROVE updates'[t] = None
  <2>1. t > time
    BY <1>3, <1>5
  <2> QED
    BY <1>3, <1>5, <2>1 DEF FeedFits
<1> QED
  BY <1>1, <1>2, <1>3, <1>4, <1>5 DEF FeedFits

LEMMA WorldOpensNothing ==
    ASSUME BookFits, WorldMoves
    PROVE  NothingOpens
<1>1. OthersAct \/ book' = book
  BY DEF WorldMoves, TimePasses, Pass, CandleAppears, promiseVars
<1> QED
  BY <1>1, OthersOpenNothing, SameBookOpensNothing

LEMMA SentKeepsFitting ==
    ASSUME FeedFits, WorldMoves, UNCHANGED keeperVars,
           run.at = "voiding" => run.market \in Markets,
           WindowPassed, ProofFits, OnlyGapsAreVoided
    PROVE  WindowPassed' /\ ProofFits' /\ OnlyGapsAreVoided'
<1>1. UNCHANGED <<run, mode, bound>>
  BY FeedGoesOn DEF keeperVars
<1>2. /\ time \in Nat /\ time' \in Nat /\ time <= time'
      /\ \A t \in 0..MaxClock : t <= time \/ t > time' => updates'[t] = updates[t]
  BY FeedMoves
<1>3. ProofFits'
  BY <1>1 DEF ProofFits, OracleAnswer
<1>4. ASSUME run.at = "voiding", bound[run.market] = "pyth", mode = "pyth"
      PROVE  /\ time > run.market.window + MaxStaleness
             /\ run.market.window + MaxStaleness \in Nat
             /\ \A t \in 0..MaxClock :
                   WithinWindow(t, run.market.window, MaxStaleness)
                     => t <= time /\ updates[t] = None
  <2>1. time > run.market.window + MaxStaleness
    BY <1>4 DEF WindowPassed
  <2>2. MaxStaleness \in Nat /\ run.market.window \in Nat
    BY <1>4, MarketsAre, PriceAssumption
  <2>3. ASSUME NEW t \in 0..MaxClock,
               WithinWindow(t, run.market.window, MaxStaleness)
        PROVE  t <= time /\ updates[t] = None
    <3>1. t \in Nat /\ t <= run.market.window + MaxStaleness
      BY <2>3, PromiseAssumption DEF WithinWindow
    <3>2. t <= time
      BY <1>2, <2>1, <2>2, <3>1
    <3> QED
      BY <1>4, <2>3, <3>2 DEF OnlyGapsAreVoided
  <2> QED
    BY <2>1, <2>2, <2>3
<1>5. WindowPassed'
  <2> SUFFICES ASSUME run.at = "voiding"
               PROVE  /\ time' > run.market.window + VoidGrace
                      /\ bound[run.market] = "pyth" /\ mode = "pyth" =>
                            time' > run.market.window + MaxStaleness
    BY <1>1 DEF WindowPassed
  <2>1. run.market.window \in Nat /\ VoidGrace \in Nat
    BY MarketsAre, PriceAssumption
  <2>2. run.market.window + VoidGrace \in Nat
    BY <2>1
  <2>3. time > run.market.window + VoidGrace
    BY DEF WindowPassed
  <2>4. time' > run.market.window + VoidGrace
    BY <1>2, <2>2, <2>3
  <2> QED
    BY <1>2, <1>4, <2>4
<1>6. OnlyGapsAreVoided'
  <2> SUFFICES ASSUME run.at = "voiding", bound[run.market] = "pyth", mode = "pyth",
                      NEW t \in 0..MaxClock,
                      WithinWindow(t, run.market.window, MaxStaleness)
               PROVE  updates'[t] = None
    BY <1>1 DEF OnlyGapsAreVoided
  <2>1. t <= time /\ updates[t] = None
    BY <1>4
  <2> QED
    BY <1>2, <2>1
<1> QED
  BY <1>3, <1>5, <1>6

-----------------------------------------------------------------------------
(* The times of the accounts.                                              *)

(* A price market closes at its reference time.                            *)
ClosesWithWindow ==
    \A m \in Markets : book[m].stage = "open" => book[m].closesAt = m.window

(* A void is not sent too early: a market that is still open when its void *)
(* is sent can be voided, provided the keeper's grace is no shorter than   *)
(* the program's (priceKeeper.ts:197-198: its grace and a buffer).         *)
VoidsAreRipe ==
    /\ GracePeriod <= VoidGrace
    /\ run.at = "voiding" /\ book[run.market].stage = "open"
    => CanVoid(run.market)

(* All that a step can do to the accounts.                                 *)
BookStep ==
    \/ book' = book
    \/ OthersAct
    \/ \E m \in Markets :
          CreateAccount(m) \/ Void(m) \/ \E e : SettleBundle(m, e)

LEMMA TimesStay ==
    ASSUME BookFits, ClosesWithWindow, BookStep
    PROVE  ClosesWithWindow'
<1> SUFFICES ASSUME NEW n \in Markets, book'[n].stage = "open"
             PROVE  book'[n].closesAt = n.window
  BY DEF ClosesWithWindow
<1>1. book \in [Markets -> Entry]
  BY DEF BookFits
<1>2. book[n].stage = "open" => book[n].closesAt = n.window
  BY DEF ClosesWithWindow
<1>3. CASE book' = book
  BY <1>2, <1>3
<1>4. ASSUME NEW m \in Markets, CreateAccount(m)
      PROVE  book'[n].closesAt = n.window
  <2>1. book' = [book EXCEPT ![m].stage = "open", ![m].closesAt = m.window]
    BY <1>4 DEF CreateAccount, Open
  <2> QED
    BY <1>1, <1>2, <2>1 DEF Entry
<1>5. ASSUME NEW m \in Markets, NEW verdict, Decide(m, verdict)
      PROVE  book'[n].closesAt = n.window
  <2>1. /\ book' = [book EXCEPT ![m].stage = verdict, ![m].decidedAt = time]
        /\ book[m].stage = "open"
    BY <1>5 DEF Decide
  <2> QED
    BY <1>1, <1>2, <2>1 DEF Entry
<1>6. ASSUME NEW m \in Markets, Prove(m)
      PROVE  book'[n].closesAt = n.window
  <2>1. book' = [book EXCEPT ![m].receipt = TRUE]
    BY <1>6 DEF Prove
  <2> QED
    BY <1>1, <1>2, <2>1 DEF Entry
<1>7. ASSUME NEW m \in Markets, NEW e, SettleBundle(m, e)
      PROVE  book'[n].closesAt = n.window
  <2>1. /\ book' = [book EXCEPT ![m].receipt = TRUE, ![m].stage = "settled",
                                ![m].decidedAt = time]
        /\ book[m].stage = "open"
    BY <1>7 DEF SettleBundle
  <2> QED
    BY <1>1, <1>2, <2>1 DEF Entry
<1>8. CASE OthersAct
  <2>1. PICK m \in Markets : Prove(m) \/ Decide(m, "settled") \/ Void(m)
    BY <1>8 DEF OthersAct
  <2> QED
    BY <1>5, <1>6, <2>1 DEF Void
<1> QED
  BY <1>3, <1>4, <1>5, <1>7, <1>8 DEF BookStep, Void

LEMMA RipeOnce ==
    ASSUME BookFits, ClosesWithWindow, WindowPassed,
           run.at = "voiding" => run.market \in Markets
    PROVE  VoidsAreRipe
<1> SUFFICES ASSUME GracePeriod <= VoidGrace, run.at = "voiding",
                    book[run.market].stage = "open"
             PROVE  time > book[run.market].closesAt + GracePeriod
  BY DEF VoidsAreRipe, CanVoid
<1>1. /\ time > run.market.window + VoidGrace
      /\ book[run.market].closesAt = run.market.window
  BY DEF WindowPassed, ClosesWithWindow
<1>2. /\ time \in Nat /\ run.market.window \in Nat
      /\ VoidGrace \in Nat /\ GracePeriod \in Nat
  BY MarketsAre, PriceAssumption, PromiseAssumption DEF BookFits
<1> QED
  BY <1>1, <1>2

-----------------------------------------------------------------------------
(* Where a keeper starts.                                                  *)
LEMMA FeedBegins ==
    ASSUME PricesInit
    PROVE  /\ FeedFits /\ BookFits /\ WindowPassed /\ ProofFits /\ OnlyGapsAreVoided
           /\ ClosesWithWindow
           /\ time = 0 /\ \A m \in Markets : book[m].stage = "none"
<1>1. /\ time = 0 /\ run = Idle("recovering")
      /\ book = [m \in Markets |-> NoMarket(FALSE)]
      /\ candles = [w \in Windows |-> None]
  BY DEF PricesInit, PromiseInit
<1>2. /\ 0 \in 0..MaxClock /\ 0 \in Nat
      /\ \A t \in 0..MaxClock : t > 0 => t # 0
  BY PromiseAssumption
<1>3. PICK first \in Prices :
         /\ first # None
         /\ updates = [t \in 0..MaxClock |-> IF t = 0 THEN first ELSE None]
  <2>1. Prices \in SUBSET Nat /\ Prices # {} /\ None \notin Nat
    BY PriceAssumption
  <2>2. Min(Prices) \in Prices /\ Min(Prices) # None
    BY <2>1, LeastFound
  <2> QED
    BY <2>2 DEF PricesInit
<1>4. FeedFits
  BY <1>1, <1>2, <1>3 DEF FeedFits
<1>5. book \in [Markets -> Entry] /\ \A m \in Markets : book[m].stage = "none"
  BY <1>1, <1>2 DEF NoMarket, Entry, Stages
<1>6. run.at = "recovering"
  BY <1>1 DEF Idle
<1>7. WindowPassed /\ ProofFits /\ OnlyGapsAreVoided
  BY <1>6 DEF WindowPassed, ProofFits, OnlyGapsAreVoided
<1>8. ClosesWithWindow
  BY <1>5 DEF ClosesWithWindow
<1> QED
  BY <1>1, <1>2, <1>4, <1>5, <1>7, <1>8 DEF BookFits

=============================================================================
