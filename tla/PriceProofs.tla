----------------------------- MODULE PriceProofs -----------------------------
(***************************************************************************)
(* The price keeper, for any rounds, prices, modes, probes and numbers of  *)
(* restarts: what it sends as a proof is accepted, what it voids had no    *)
(* observation, and it loses no open market unless a step failed.  At the  *)
(* end, the sweep of bonds in its loop.                                    *)
(***************************************************************************)
EXTENDS PriceKeeper, BondSweep, PriceMarketsProofs

(* What the local variables of the loop hold at each of its awaits.        *)
LocalsFit ==
    /\ run.now <= time
    /\ \A m \in run.todo : m.window <= run.now
    /\ run.at \in {"recovering", "passing"} => run.market = None
    /\ run.at \in {"creating", "sending", "voiding"} => run.market \in Markets
    /\ run.at = "creating" => book[run.market].stage = "none"
    /\ run.at = "sending" =>
          /\ run.market \in tracked \ run.todo
          /\ run.evidence \in EvidenceOf

PriceInv ==
    /\ TypeOK
    /\ FeedFits
    /\ LocalsFit
    /\ WindowPassed
    /\ ProofFits
    /\ OnlyGapsAreVoided
    /\ NoneForgotten

-----------------------------------------------------------------------------
(* The local variables of the loop.                                        *)
Runs == [at: Places, now: 0..MaxClock, todo: SUBSET Markets,
         market: Markets \cup {None}, evidence: EvidenceOf \cup {None}]

(* The pass goes on with some of its markets, or has none.                 *)
GoesOn(r) ==
    /\ r \in Runs
    /\ r.at = "passing" /\ r.market = None
    /\ r.todo \subseteq run.todo
    /\ r.now <= time
    /\ \A m \in r.todo : m.window <= r.now

LEMMA RunIs ==
    ASSUME TypeOK
    PROVE  /\ run \in Runs /\ run.todo \subseteq tracked
           /\ run.at \in Places /\ run.now \in 0..MaxClock
           /\ run.todo \subseteq Markets /\ run.market \in Markets \cup {None}
           /\ time \in Nat /\ MaxClock \in Nat /\ 0 \in 0..MaxClock
           /\ run.now \in Nat
<1>1. /\ run \in [at: Places, now: 0..MaxClock, todo: SUBSET tracked,
                  market: Markets \cup {None}, evidence: EvidenceOf \cup {None}]
      /\ tracked \subseteq Markets /\ time \in 0..MaxClock
  BY DEF TypeOK
<1>2. MaxClock \in Nat
  BY PromiseAssumption
<1>3. run.todo \in SUBSET tracked /\ run.now \in 0..MaxClock
  BY <1>1
<1>4. run \in Runs
  BY <1>1 DEF Runs
<1> QED
  BY <1>1, <1>2, <1>3, <1>4

LEMMA HandledIs ==
    ASSUME TypeOK, NEW m
    PROVE  /\ Handled(m) \in Runs
           /\ Handled(m).at = run.at /\ Handled(m).now = run.now
           /\ Handled(m).todo = run.todo \ {m}
           /\ Handled(m).market = run.market
<1>1. run \in Runs
  BY RunIs
<1> QED
  BY <1>1 DEF Handled, Runs

LEMMA DoneIs ==
    ASSUME NEW r \in Runs, r.todo \subseteq run.todo, r.now <= time,
           \A m \in r.todo : m.window <= r.now, TypeOK
    PROVE  GoesOn(Done(r))
<1>1. /\ Done(r).at = "passing" /\ Done(r).market = None
      /\ Done(r).todo = r.todo
      /\ Done(r).now = IF r.todo = {} THEN 0 ELSE r.now
  BY DEF Done, Runs
<1>2. r.now \in 0..MaxClock
  BY DEF Runs
<1>3. "passing" \in Places /\ 0 \in 0..MaxClock
  BY RunIs DEF Places
<1>4. Done(r) \in Runs
  BY <1>2, <1>3 DEF Done, Runs
<1>5. 0 <= time
  BY RunIs
<1>6. CASE r.todo = {}
  BY <1>1, <1>4, <1>5, <1>6 DEF GoesOn
<1>7. CASE r.todo # {}
  BY <1>1, <1>4, <1>7 DEF GoesOn
<1> QED
  BY <1>6, <1>7

LEMMA ThrownIs ==
    ASSUME NEW r \in Runs, r.todo \subseteq run.todo, r.now <= time,
           \A m \in r.todo : m.window <= r.now, TypeOK
    PROVE  GoesOn(Thrown(r))
<1> DEFINE stopped == [r EXCEPT !.todo = {}]
<1>1. stopped \in Runs /\ stopped.todo = {} /\ stopped.now = r.now
  BY DEF Runs
<1>2. GoesOn(Done(stopped))
  <2> HIDE DEF stopped
  <2> QED
    BY <1>1, DoneIs
<1>3. GoesOn(Done(r))
  BY DoneIs
<1> QED
  BY <1>2, <1>3 DEF Thrown

LEMMA IdleIs ==
    ASSUME NEW at \in Places
    PROVE  /\ Idle(at) \in Runs /\ Idle(at).at = at /\ Idle(at).now = 0
           /\ Idle(at).todo = {} /\ Idle(at).market = None
<1>1. 0 \in 0..MaxClock
  BY PromiseAssumption
<1> QED
  BY <1>1 DEF Idle, Runs

LEMMA PassIs ==
    ASSUME TypeOK, NEW t \in 0..time, NEW S \in SUBSET Markets
    PROVE  /\ SettlePass(t, S) \in Runs
           /\ SettlePass(t, S).at = "passing"
           /\ SettlePass(t, S).market = None
           /\ SettlePass(t, S).todo \subseteq S
           /\ SettlePass(t, S).now = t
           /\ \A m \in SettlePass(t, S).todo : m.window <= t
<1> DEFINE due == {m \in S : t >= m.window}
<1>1. /\ Idle("passing") \in Runs /\ Idle("passing").at = "passing"
      /\ Idle("passing").market = None
  BY IdleIs DEF Places
<1>2. t \in 0..MaxClock /\ t \in Nat
  BY PromiseAssumption DEF TypeOK
<1>3. due \in SUBSET Markets
  OBVIOUS
<1>5. \A m \in due : m.window <= t
  <2> SUFFICES ASSUME NEW m \in S, t >= m.window PROVE m.window <= t
    OBVIOUS
  <2>1. m.window \in Nat
    BY MarketsAre
  <2> QED
    BY <1>2, <2>1
<1>6. due \subseteq S
  OBVIOUS
<1>7. /\ SettlePass(t, S) \in Runs
      /\ SettlePass(t, S).at = "passing" /\ SettlePass(t, S).market = None
      /\ SettlePass(t, S).now = t /\ SettlePass(t, S).todo = due
  <2>1. SettlePass(t, S) = [Idle("passing") EXCEPT !.now = t, !.todo = due]
    BY DEF SettlePass
  <2> HIDE DEF due
  <2> QED
    BY <1>1, <1>2, <1>3, <2>1 DEF Runs
<1> HIDE DEF due
<1> QED
  BY <1>5, <1>6, <1>7

-----------------------------------------------------------------------------
(* A step that ends between two turns of a pass, or starts over.           *)
LEMMA BetweenTurns ==
    ASSUME PriceInv, NEW r \in Runs,
           run' = r, r.at \in {"passing", "recovering"}, r.market = None,
           r.todo \subseteq tracked', r.now <= time,
           \A m \in r.todo : m.window <= r.now,
           time' = time, updates' = updates, candles' = candles,
           book' \in [Markets -> Entry],
           bound' \in [Markets -> {"pyth", "attestation", None}],
           mode' \in Modes, restarts' \in 0..MaxRestarts,
           tracked' \in SUBSET Markets, lost' \in SUBSET Markets,
           \A m \in Markets : book'[m].stage = "open" =>
              m \in tracked' \/ m \in lost' \/ r.at = "recovering"
    PROVE  PriceInv'
<1>1. TypeOK /\ FeedFits
  BY DEF PriceInv
<1>2. r \in [at: Places, now: 0..MaxClock, todo: SUBSET tracked',
             market: Markets \cup {None}, evidence: EvidenceOf \cup {None}]
  BY DEF Runs
<1>3. TypeOK'
  BY <1>1, <1>2 DEF TypeOK
<1>4. FeedFits'
  BY <1>1, FeedStays
<1>5. r.at # "creating" /\ r.at # "sending" /\ r.at # "voiding"
  OBVIOUS
<1>6. LocalsFit'
  BY <1>5 DEF LocalsFit
<1>7. WindowPassed' /\ ProofFits' /\ OnlyGapsAreVoided'
  BY <1>5, NothingIsSent
<1>8. NoneForgotten'
  BY DEF NoneForgotten
<1> QED
  BY <1>3, <1>4, <1>6, <1>7, <1>8 DEF PriceInv

-----------------------------------------------------------------------------
(* The steps that end a turn of the settle pass.                           *)
LEMMA TurnEnds ==
    ASSUME PriceInv, NEW r, GoesOn(r), run' = r,
           r.todo \subseteq tracked', tracked' \in SUBSET Markets,
           lost' \in SUBSET Markets, UNCHANGED <<time, worldVars, mode, restarts>>,
           book' \in [Markets -> Entry],
           \A m \in Markets : book'[m].stage = "open" =>
              m \in tracked' \/ m \in lost'
    PROVE  PriceInv'
<1>1. r \in Runs /\ r.at = "passing" /\ r.market = None /\ r.now <= time
      /\ \A m \in r.todo : m.window <= r.now
  BY DEF GoesOn
<1>2. /\ bound' \in [Markets -> {"pyth", "attestation", None}]
      /\ mode' \in Modes /\ restarts' \in 0..MaxRestarts
      /\ time' = time /\ updates' = updates /\ candles' = candles
  BY DEF PriceInv, TypeOK, worldVars
<1> QED
  BY <1>1, <1>2, BetweenTurns

LEMMA RunFits ==
    ASSUME PriceInv
    PROVE  /\ TypeOK /\ FeedFits /\ BookFits
           /\ run \in Runs /\ run.todo \subseteq tracked
           /\ run.now <= time /\ \A m \in run.todo : m.window <= run.now
           /\ book \in [Markets -> Entry]
           /\ tracked \in SUBSET Markets /\ lost \in SUBSET Markets
BY RunIs DEF PriceInv, LocalsFit, TypeOK, BookFits

LEMMA HandledFits ==
    ASSUME PriceInv, NEW m
    PROVE  GoesOn(Done(Handled(m))) /\ GoesOn(Thrown(Handled(m)))
<1>1. /\ Handled(m) \in Runs /\ Handled(m).todo \subseteq run.todo
      /\ Handled(m).now <= time
      /\ \A n \in Handled(m).todo : n.window <= Handled(m).now
  BY HandledIs, RunFits
<1> QED
  BY <1>1, DoneIs, ThrownIs, RunFits

LEMMA WaitsOrThrows ==
    ASSUME PriceInv, NEW m \in Markets, SettleWaits(m) \/ SettleThrows(m)
    PROVE  PriceInv'
<1>1. PICK r : GoesOn(r) /\ run' = r
  BY HandledFits DEF SettleWaits, SettleThrows
<1>2. /\ UNCHANGED <<time, book, worldVars, mode, restarts, tracked, lost>>
      /\ run.at = "passing"
  BY DEF SettleWaits, SettleThrows, Turn, promiseVars
<1>3. r.todo \subseteq tracked
  BY <1>1, RunFits DEF GoesOn
<1>4. \A n \in Markets : book[n].stage = "open" => n \in tracked \/ n \in lost
  <2>1. run.market = None
    BY <1>2 DEF PriceInv, LocalsFit
  <2> QED
    BY <1>2, <2>1, PriceAssumption DEF PriceInv, NoneForgotten
<1> QED
  BY <1>1, <1>2, <1>3, <1>4, RunFits, TurnEnds

LEMMA BundleEnds ==
    ASSUME PriceInv, BundleLands(Done(run)) \/ BundleUnseen \/ BundleFails
    PROVE  PriceInv'
<1>1. run.at = "sending" /\ run.market \in tracked \ run.todo /\ run.market \in Markets
  <2>1. run.at = "sending"
    BY DEF BundleLands, BundleUnseen, BundleFails
  <2> QED
    BY <2>1 DEF PriceInv, LocalsFit
<1>2. PICK r : GoesOn(r) /\ run' = r
  BY RunFits, DoneIs, ThrownIs DEF BundleLands, BundleUnseen, BundleFails
<1>3. UNCHANGED <<time, worldVars, mode, restarts, lost>>
  BY DEF BundleLands, BundleUnseen, BundleFails, SettleBundle, promiseVars
<1>4. tracked' \in SUBSET Markets /\ r.todo \subseteq tracked'
  BY <1>1, <1>2, RunFits DEF BundleLands, BundleUnseen, BundleFails, GoesOn
<1>5. \A n \in Markets : book[n].stage = "open" =>
         n \in tracked \/ n \in lost
  BY <1>1 DEF PriceInv, NoneForgotten
<1>6. CASE BundleFails
  <2>1. book' = book /\ tracked' = tracked
    BY <1>6 DEF BundleFails, promiseVars
  <2> QED
    BY <1>2, <1>3, <1>4, <1>5, <2>1, RunFits, TurnEnds
<1>7. CASE BundleLands(Done(run)) \/ BundleUnseen
  <2> DEFINE m == run.market
  <2>1. book' = [book EXCEPT ![m].receipt = TRUE, ![m].stage = "settled",
                             ![m].decidedAt = time]
    BY <1>7 DEF BundleLands, BundleUnseen, SettleBundle
  <2>2. "settled" \in Stages /\ 0 \in Nat
    BY DEF Stages, Decided
  <2>3. /\ book' \in [Markets -> Entry] /\ book'[m].stage = "settled"
        /\ \A n \in Markets \ {m} : book'[n] = book[n]
    <3>1. m \in Markets
      BY <1>1
    <3> HIDE DEF m
    <3> QED
      BY <2>1, <2>2, <3>1, RunFits, StageChanged
  <2>4. \A n \in tracked \ {m} : n \in tracked'
    BY <1>7 DEF BundleLands, BundleUnseen
  <2>5. \A n \in Markets : book'[n].stage = "open" =>
           n \in tracked' \/ n \in lost'
    BY <1>3, <1>5, <2>3, <2>4
  <2> QED
    BY <1>2, <1>3, <1>4, <2>3, <2>5, RunFits, TurnEnds
<1> QED
  BY <1>6, <1>7

LEMMA VoidEnds ==
    ASSUME PriceInv, VoidLands(Done(run)) \/ VoidFails(Thrown(run))
    PROVE  PriceInv'
<1>1. run.at = "voiding" /\ run.market \in Markets
  <2>1. run.at = "voiding"
    BY DEF VoidLands, VoidFails
  <2> QED
    BY <2>1 DEF PriceInv, LocalsFit
<1>2. PICK r : GoesOn(r) /\ run' = r
  BY RunFits, DoneIs, ThrownIs DEF VoidLands, VoidFails
<1>3. UNCHANGED <<time, worldVars, mode, restarts, tracked>>
  BY DEF VoidLands, VoidFails, Void, Decide, promiseVars
<1>4. r.todo \subseteq tracked'
  BY <1>2, <1>3, RunFits DEF GoesOn
<1>5. \A n \in Markets : book[n].stage = "open" =>
         n \in tracked \/ n \in lost \/ n = run.market
  BY <1>1 DEF PriceInv, NoneForgotten
<1>6. CASE VoidFails(Thrown(run))
  <2>1. book' = book /\ lost' = lost \cup {run.market}
    BY <1>6 DEF VoidFails, promiseVars
  <2> QED
    BY <1>1, <1>2, <1>3, <1>4, <1>5, <2>1, RunFits, TurnEnds
<1>7. CASE VoidLands(Done(run))
  <2> DEFINE m == run.market
  <2>1. /\ book' = [book EXCEPT ![m].stage = "void", ![m].decidedAt = time]
        /\ lost' = lost
    BY <1>7 DEF VoidLands, Void, Decide
  <2>2. "void" \in Stages /\ 0 \in Nat
    BY DEF Stages, Decided
  <2>3. /\ book' \in [Markets -> Entry] /\ book'[m].stage = "void"
        /\ \A n \in Markets \ {m} : book'[n] = book[n]
    <3>1. m \in Markets
      BY <1>1
    <3> HIDE DEF m
    <3> QED
      BY <2>1, <2>2, <3>1, RunFits, StageChanged
  <2> QED
    BY <1>2, <1>3, <1>4, <1>5, <2>1, <2>3, RunFits, TurnEnds
<1> QED
  BY <1>6, <1>7

-----------------------------------------------------------------------------
(* The scan, the ticks, and what makes sure of a market.                   *)
LEMMA ScanFits ==
    ASSUME PriceInv, Recover(Idle("passing")) \/ Boot
    PROVE  PriceInv'
<1>1. PICK at \in {"passing", "recovering"} :
         run' = Idle(at) /\ (Boot => at = "recovering")
  BY DEF Recover, Boot, Idle
<1>2. /\ at \in Places
      /\ Idle(at) \in Runs /\ Idle(at).at = at /\ Idle(at).now = 0
      /\ Idle(at).todo = {} /\ Idle(at).market = None
  BY IdleIs DEF Places
<1>3. /\ UNCHANGED <<time, book, bound, updates, candles>>
      /\ 0 <= time
  BY RunFits, RunIs DEF Recover, Boot, promiseVars, worldVars
<1>4. restarts' \in 0..MaxRestarts /\ mode' \in Modes
  <2>1. CASE Recover(Idle("passing"))
    BY <2>1 DEF Recover, PriceInv, TypeOK
  <2>2. CASE Boot
    <3>1. restarts \in 0..MaxRestarts /\ MaxRestarts \in Nat
      BY PriceAssumption DEF PriceInv, TypeOK
    <3> QED
      BY <2>2, <3>1 DEF Boot
  <2> QED
    BY <2>1, <2>2
<1>5. /\ tracked' \in SUBSET Markets /\ lost' \in SUBSET Markets
      /\ \A m \in Markets : book[m].stage = "open" =>
            m \in tracked' \/ m \in lost' \/ at = "recovering"
  <2>1. CASE Recover(Idle("passing"))
    BY <2>1, RunFits DEF Recover, OwnOpen
  <2>2. CASE Boot
    BY <1>1, <2>2, RunFits DEF Boot
  <2> QED
    BY <2>1, <2>2
<1>6. bound' \in [Markets -> {"pyth", "attestation", None}]
  BY <1>3 DEF PriceInv, TypeOK
<1> QED
  BY <1>1, <1>2, <1>3, <1>4, <1>5, <1>6, RunFits, BetweenTurns

(* A pass begins, with the markets tracked now.                            *)
LEMMA PassBegins ==
    ASSUME PriceInv, NEW t \in 0..time, run' = SettlePass(t, tracked'),
           UNCHANGED <<time, updates, candles, mode, restarts>>,
           book' \in [Markets -> Entry],
           bound' \in [Markets -> {"pyth", "attestation", None}],
           tracked' \in SUBSET Markets, lost' \in SUBSET Markets,
           \A m \in Markets : book'[m].stage = "open" =>
              m \in tracked' \/ m \in lost'
    PROVE  PriceInv'
<1>1. PICK S \in SUBSET Markets : S = tracked'
  OBVIOUS
<1>2. /\ SettlePass(t, S) \in Runs
      /\ SettlePass(t, S).at = "passing" /\ SettlePass(t, S).market = None
      /\ SettlePass(t, S).todo \subseteq S /\ SettlePass(t, S).now = t
      /\ \A m \in SettlePass(t, S).todo : m.window <= t
  BY RunFits, PassIs
<1>3. t <= time
  BY RunFits, RunIs
<1>4. mode' \in Modes /\ restarts' \in 0..MaxRestarts
  BY DEF PriceInv, TypeOK
<1>5. run' = SettlePass(t, S)
  BY <1>1
<1> QED
  BY <1>1, <1>2, <1>3, <1>4, <1>5, BetweenTurns

LEMMA NothingLeftOut ==
    ASSUME PriceInv, run.at \in {"passing", "creating"}
    PROVE  \A m \in Markets : book[m].stage = "open" =>
              m \in tracked \/ m \in lost
<1>1. CASE run.at = "passing"
  <2>1. run.market = None
    BY <1>1 DEF PriceInv, LocalsFit
  <2> QED
    BY <1>1, <2>1, PriceAssumption DEF PriceInv, NoneForgotten
<1>2. CASE run.at = "creating"
  <2>1. book[run.market].stage = "none"
    BY <1>2 DEF PriceInv, LocalsFit
  <2> QED
    BY <1>2, <2>1 DEF PriceInv, NoneForgotten
<1> QED
  BY <1>1, <1>2

LEMMA TimeIsPast ==
    ASSUME PriceInv
    PROVE  time \in 0..time /\ run.now \in 0..time
<1>1. time \in Nat /\ run.now \in Nat /\ run.now <= time
  BY RunFits, RunIs
<1> QED
  BY <1>1

LEMMA TickAdopts ==
    ASSUME PriceInv, TickDue,
           \/ TickWithoutSpot
           \/ \E m \in Markets : EnsureAdopts(m) /\ run' = SettlePass(time, tracked')
    PROVE  PriceInv'
<1>1. /\ UNCHANGED <<time, book, updates, candles, bound, mode, restarts, lost>>
      /\ tracked' \in SUBSET Markets /\ tracked \subseteq tracked'
      /\ run' = SettlePass(time, tracked')
  BY RunFits DEF TickWithoutSpot, EnsureAdopts, promiseVars, worldVars
<1>2. \A m \in Markets : book[m].stage = "open" => m \in tracked \/ m \in lost
  BY NothingLeftOut DEF TickDue
<1>3. bound' \in [Markets -> {"pyth", "attestation", None}]
  BY <1>1 DEF PriceInv, TypeOK
<1> QED
  BY <1>1, <1>2, <1>3, RunFits, TimeIsPast, PassBegins

LEMMA CreateEnds ==
    ASSUME PriceInv,
           \/ CreateLands(SettlePass(run.now, tracked'))
           \/ CreateUnseen(SettlePass(run.now, tracked))
           \/ CreateFails(SettlePass(run.now, tracked))
    PROVE  PriceInv'
<1>1. /\ run.at = "creating" /\ run' = SettlePass(run.now, tracked')
      /\ UNCHANGED <<mode, restarts>>
  BY DEF CreateLands, CreateUnseen, CreateFails
<1>2. run.market \in Markets
  BY <1>1 DEF PriceInv, LocalsFit
<1>3. /\ tracked' \in SUBSET Markets /\ lost' \in SUBSET Markets
      /\ tracked \subseteq tracked' /\ lost \subseteq lost'
  BY <1>2, RunFits DEF CreateLands, CreateUnseen, CreateFails
<1>4. \A m \in Markets : book[m].stage = "open" => m \in tracked \/ m \in lost
  BY <1>1, NothingLeftOut
<1>5. bound \in [Markets -> {"pyth", "attestation", None}] /\ mode \in Modes
      /\ Modes \subseteq {"pyth", "attestation"}
  BY PriceAssumption DEF PriceInv, TypeOK
<1>6. CASE CreateFails(SettlePass(run.now, tracked))
  <2>1. UNCHANGED <<time, book, bound, updates, candles>>
    BY <1>6 DEF CreateFails, promiseVars, worldVars
  <2> QED
    BY <1>1, <1>3, <1>4, <1>5, <2>1, RunFits, TimeIsPast, PassBegins
<1>7. CASE \/ CreateLands(SettlePass(run.now, tracked'))
           \/ CreateUnseen(SettlePass(run.now, tracked))
  <2> DEFINE m == run.market
  <2>1. PICK closing \in Nat : closing = m.window
    BY <1>2, MarketsAre
  <2>2. /\ book' = [book EXCEPT ![m].stage = "open", ![m].closesAt = closing]
        /\ UNCHANGED <<time, updates, candles>>
        /\ bound' = [bound EXCEPT ![m] = mode]
        /\ m \in tracked' \/ m \in lost'
    BY <1>7, <2>1 DEF CreateLands, CreateUnseen, CreateAccount, Open
  <2>3. "open" \in Stages
    BY DEF Stages
  <2>4. /\ book' \in [Markets -> Entry]
        /\ \A n \in Markets \ {m} : book'[n] = book[n]
    <3>1. m \in Markets
      BY <1>2
    <3> HIDE DEF m
    <3> QED
      BY <2>2, <2>3, <3>1, RunFits, StageChanged
  <2>5. bound' \in [Markets -> {"pyth", "attestation", None}]
    BY <1>5, <2>2
  <2>6. \A n \in Markets : book'[n].stage = "open" => n \in tracked' \/ n \in lost'
    BY <1>3, <1>4, <2>2, <2>4
  <2> QED
    BY <1>1, <1>3, <2>2, <2>4, <2>5, <2>6, TimeIsPast, PassBegins
<1> QED
  BY <1>6, <1>7

-----------------------------------------------------------------------------
(* The steps that leave the loop in the middle of a turn.                  *)
LEMMA RunTyped ==
    ASSUME PriceInv, NEW r \in Runs, run' = r, r.todo \subseteq tracked',
           tracked' \in SUBSET Markets,
           UNCHANGED <<time, book, worldVars, mode, restarts, lost>>
    PROVE  TypeOK' /\ FeedFits'
<1>1. r \in [at: Places, now: 0..MaxClock, todo: SUBSET tracked',
             market: Markets \cup {None}, evidence: EvidenceOf \cup {None}]
  BY DEF Runs
<1>2. TypeOK'
  BY <1>1 DEF PriceInv, TypeOK, worldVars
<1> QED
  BY <1>2, RunFits, FeedStays DEF worldVars

LEMMA CreationBegins ==
    ASSUME PriceInv, TickDue, NEW m \in Markets, EnsureCreates(m)
    PROVE  PriceInv'
<1> DEFINE r == [run EXCEPT !.at = "creating", !.now = time, !.market = m]
<1>1. /\ run' = r /\ ~Adopted(m)
      /\ UNCHANGED <<time, book, worldVars, mode, restarts, tracked, lost>>
  BY DEF EnsureCreates, promiseVars
<1>2. /\ r \in Runs /\ r.at = "creating" /\ r.now = time /\ r.market = m
      /\ r.todo = {}
  <2>1. time \in 0..MaxClock /\ "creating" \in Places /\ run.todo = {}
    BY DEF PriceInv, TypeOK, Places, TickDue
  <2> QED
    BY <2>1, RunFits DEF Runs
<1> HIDE DEF r
<1>3. TypeOK' /\ FeedFits'
  BY <1>1, <1>2, RunFits, RunTyped
<1>4. LocalsFit'
  <2>1. book[m].stage = "none" /\ time <= time
    BY <1>1, RunFits, RunIs DEF Adopted
  <2> QED
    BY <1>1, <1>2, <2>1 DEF LocalsFit
<1>5. WindowPassed' /\ ProofFits' /\ OnlyGapsAreVoided'
  BY <1>1, <1>2, NothingIsSent
<1>6. NoneForgotten'
  BY <1>1, NothingLeftOut DEF NoneForgotten, TickDue
<1> QED
  BY <1>3, <1>4, <1>5, <1>6 DEF PriceInv

LEMMA ProofBegins ==
    ASSUME PriceInv, NEW m \in Markets, SettleProves(m)
    PROVE  PriceInv'
<1> DEFINE e == Evidence(m)
           r == [Handled(m) EXCEPT !.at = "sending", !.market = m, !.evidence = e]
<1>1. /\ run' = r /\ Turn(m) /\ e # None
      /\ UNCHANGED <<time, book, worldVars, mode, restarts, tracked, lost>>
  BY DEF SettleProves, promiseVars
<1>2. m \in run.todo /\ run.at = "passing" /\ m \in tracked
  BY <1>1, RunFits DEF Turn
<1>3. m.window <= time
  <2>1. m.window <= run.now /\ run.now <= time
    BY <1>2, RunFits
  <2> QED
    BY <2>1, MarketsAre, RunFits, RunIs
<1>4. e \in EvidenceOf
  BY <1>1, <1>3, RunFits, EvidenceFits
<1>5. /\ r \in Runs /\ r.at = "sending" /\ r.now = run.now /\ r.market = m
      /\ r.evidence = e /\ r.todo = run.todo \ {m}
  <2>1. /\ Handled(m) \in Runs /\ Handled(m).now = run.now
        /\ Handled(m).todo = run.todo \ {m}
    BY RunFits, HandledIs
  <2>2. "sending" \in Places
    BY DEF Places
  <2> HIDE DEF e
  <2> QED
    BY <1>4, <2>1, <2>2 DEF Runs
<1>6. ProofFits'
  <2>1. run'.at = "sending" /\ run'.market = m /\ run'.evidence = Evidence(m)
    BY <1>1, <1>5
  <2> QED
    BY <1>1, <1>3, <2>1, RunFits, SentProofFits DEF worldVars
<1> HIDE DEF r, e
<1>7. TypeOK' /\ FeedFits'
  BY <1>1, <1>5, RunFits, RunTyped
<1>8. LocalsFit'
  BY <1>1, <1>2, <1>4, <1>5, RunFits DEF LocalsFit
<1>9. WindowPassed' /\ OnlyGapsAreVoided'
  BY <1>1, <1>5 DEF WindowPassed, OnlyGapsAreVoided
<1>10. NoneForgotten'
  BY <1>1, <1>2, NothingLeftOut DEF NoneForgotten
<1> QED
  BY <1>6, <1>7, <1>8, <1>9, <1>10 DEF PriceInv

LEMMA GivingUpBegins ==
    ASSUME PriceInv, NEW m \in Markets, SettleGivesUp(m)
    PROVE  PriceInv'
<1> DEFINE r == [Handled(m) EXCEPT !.at = "voiding", !.market = m]
<1>1. /\ run' = r /\ Turn(m) /\ tracked' = tracked \ {m}
      /\ UNCHANGED <<time, book, worldVars, mode, restarts, lost>>
  BY DEF SettleGivesUp, promiseVars
<1>2. m \in run.todo /\ run.at = "passing"
  BY <1>1 DEF Turn
<1>3. /\ r \in Runs /\ r.at = "voiding" /\ r.now = run.now /\ r.market = m
      /\ r.todo = run.todo \ {m}
  <2>1. /\ Handled(m) \in Runs /\ Handled(m).now = run.now
        /\ Handled(m).todo = run.todo \ {m}
    BY RunFits, HandledIs
  <2>2. "voiding" \in Places
    BY DEF Places
  <2> QED
    BY <2>1, <2>2 DEF Runs
<1> HIDE DEF r
<1>4. r.todo \subseteq tracked' /\ tracked' \in SUBSET Markets
  BY <1>1, <1>3, RunFits
<1>5. TypeOK' /\ FeedFits'
  BY <1>1, <1>3, <1>4, RunTyped
<1>6. LocalsFit'
  BY <1>1, <1>3, RunFits DEF LocalsFit
<1>7. ProofFits'
  BY <1>1, <1>3 DEF ProofFits
<1>8. WindowPassed' /\ OnlyGapsAreVoided'
  BY <1>1, <1>3, RunFits, RunIs, SentVoidFits
<1>9. NoneForgotten'
  BY <1>1, <1>2, <1>3, NothingLeftOut DEF NoneForgotten
<1> QED
  BY <1>5, <1>6, <1>7, <1>8, <1>9 DEF PriceInv

-----------------------------------------------------------------------------
(* The world goes on while the keeper waits.                               *)
LEMMA WorldGoesOn ==
    ASSUME PriceInv, WorldStep
    PROVE  PriceInv'
<1>1. /\ WorldMoves /\ UNCHANGED keeperVars
      /\ UNCHANGED <<mode, tracked, run, restarts, lost>>
  BY DEF WorldStep, WorldMoves, keeperVars
<1>2. FeedFits' /\ bound' = bound
  BY <1>1, RunFits, FeedGoesOn
<1>3. NothingOpens
  BY <1>1, RunFits, WorldOpensNothing
<1>4. TypeOK'
  BY <1>1, <1>2, <1>3 DEF PriceInv, TypeOK, FeedFits, NothingOpens
<1>5. run.at \in {"creating", "voiding"} => run.market \in Markets
  BY DEF PriceInv, LocalsFit
<1>6. LocalsFit'
  <2>1. run.now <= time'
    <3>1. time \in Nat /\ time' \in Nat /\ time <= time'
      BY <1>1, RunFits, FeedMoves
    <3>2. run.now \in Nat /\ run.now <= time
      BY RunFits, RunIs
    <3> QED
      BY <3>1, <3>2
  <2> QED
    BY <1>1, <1>3, <1>5, <2>1 DEF PriceInv, LocalsFit, NothingOpens
<1>7. WindowPassed' /\ ProofFits' /\ OnlyGapsAreVoided'
  <2>1. WindowPassed /\ ProofFits /\ OnlyGapsAreVoided
    BY DEF PriceInv
  <2> QED
    BY <1>1, <1>5, <2>1, RunFits, SentKeepsFitting
<1>8. NoneForgotten'
  BY <1>1, <1>3 DEF PriceInv, NoneForgotten, NothingOpens
<1> QED
  BY <1>2, <1>4, <1>6, <1>7, <1>8 DEF PriceInv

-----------------------------------------------------------------------------
LEMMA InitHolds == PricesInit => PriceInv
<1> SUFFICES ASSUME PricesInit PROVE PriceInv
  OBVIOUS
<1>1. /\ FeedFits /\ BookFits /\ WindowPassed /\ ProofFits /\ OnlyGapsAreVoided
      /\ time = 0 /\ \A m \in Markets : book[m].stage = "none"
  BY FeedBegins
<1>2. run = Idle("recovering") /\ tracked = {} /\ lost = {}
  BY DEF PricesInit
<1>3. /\ run \in Runs /\ run.at = "recovering" /\ run.now = 0
      /\ run.todo = {} /\ run.market = None
  BY <1>2, IdleIs DEF Places
<1>4. run \in [at: Places, now: 0..MaxClock, todo: SUBSET tracked,
               market: Markets \cup {None}, evidence: EvidenceOf \cup {None}]
  BY <1>2, <1>3 DEF Runs
<1>5. TypeOK
  <2>1. /\ bound \in [Markets -> {"pyth", "attestation", None}]
        /\ mode \in Modes /\ restarts = 0
    BY DEF PricesInit
  <2>2. 0 \in 0..MaxRestarts
    BY PriceAssumption
  <2> QED
    BY <1>1, <1>2, <1>4, <2>1, <2>2 DEF TypeOK, FeedFits, BookFits
<1>6. LocalsFit
  BY <1>1, <1>3 DEF LocalsFit
<1>7. NoneForgotten
  BY <1>1 DEF NoneForgotten
<1> QED
  BY <1>1, <1>5, <1>6, <1>7 DEF PriceInv

LEMMA NextHolds == PriceInv /\ [Next]_vars => PriceInv'
<1> SUFFICES ASSUME PriceInv, [Next]_vars PROVE PriceInv'
  OBVIOUS
<1>1. CASE LoopStep
  <2>1. CASE Recover(Idle("passing"))
    BY <2>1, ScanFits
  <2>2. CASE TickWithoutSpot
    BY <2>2, TickAdopts DEF TickWithoutSpot
  <2>3. CASE Tick
    <3>1. TickDue /\ \E m \in Markets :
             EnsureCreates(m) \/ (EnsureAdopts(m) /\ run' = SettlePass(time, tracked'))
      BY <2>3 DEF Tick
    <3> QED
      BY <3>1, CreationBegins, TickAdopts
  <2>4. CASE \/ CreateLands(SettlePass(run.now, tracked'))
             \/ CreateUnseen(SettlePass(run.now, tracked))
             \/ CreateFails(SettlePass(run.now, tracked))
    BY <2>4, CreateEnds
  <2>5. CASE \E m \in Markets : SettleProves(m) \/ SettleWaits(m)
                                \/ SettleThrows(m) \/ SettleGivesUp(m)
    BY <2>5, ProofBegins, WaitsOrThrows, GivingUpBegins
  <2>6. CASE BundleLands(Done(run)) \/ BundleUnseen \/ BundleFails
    BY <2>6, BundleEnds
  <2>7. CASE VoidLands(Done(run)) \/ VoidFails(Thrown(run))
    BY <2>7, VoidEnds
  <2> QED
    BY <1>1, <2>1, <2>2, <2>3, <2>4, <2>5, <2>6, <2>7 DEF LoopStep
<1>2. CASE WorldStep
  BY <1>2, WorldGoesOn
<1>3. CASE Boot
  BY <1>3, ScanFits
<1>4. CASE UNCHANGED vars
  <2>1. UNCHANGED <<time, book, bound, updates, candles, mode, tracked, run,
                    restarts, lost>>
    BY <1>4 DEF vars, promiseVars, worldVars, keeperVars
  <2>2. FeedFits' /\ WindowPassed' /\ ProofFits' /\ OnlyGapsAreVoided'
    BY <2>1, FeedStays, SentStays DEF PriceInv
  <2> QED
    BY <2>1, <2>2 DEF PriceInv, TypeOK, LocalsFit, NoneForgotten
<1> QED
  BY <1>1, <1>2, <1>3, <1>4 DEF Next

LEMMA PriceInvHolds == Spec => []PriceInv
BY InitHolds, NextHolds, PTL DEF Spec

-----------------------------------------------------------------------------
(* The price keeper's variables keep their types (priceKeeper.ts,          *)
(* runPriceKeeper): the pass works through tracked markets only.           *)
THEOREM PricesTyped == Spec => []TypeOK
<1>1. PriceInv => TypeOK
  BY DEF PriceInv
<1> QED
  BY <1>1, PriceInvHolds, PTL

(* What settlePriceMarket sends is accepted by the oracle of the market,   *)
(* however late it is and in whatever mode it was created and is settled.  *)
THEOREM ProofsAreAccepted == Spec => []ProofFits
<1>1. PriceInv => ProofFits
  BY DEF PriceInv
<1> QED
  BY <1>1, PriceInvHolds, PTL

(* voidPriceMarket is sent for no market with an observation in its        *)
(* window that the keeper could have read, whatever the probe offsets are  *)
(* as long as the last is the end of the window.                           *)
THEOREM VoidsAreGaps == Spec => []OnlyGapsAreVoided
<1>1. PriceInv => OnlyGapsAreVoided
  BY DEF PriceInv
<1> QED
  BY <1>1, PriceInvHolds, PTL

(* An open market is out of the keeper's sight only after a step that      *)
(* failed, until the next scan (recoverOpenPriceMarkets).                  *)
THEOREM NoMarketForgotten == Spec => []NoneForgotten
<1>1. PriceInv => NoneForgotten
  BY DEF PriceInv
<1> QED
  BY <1>1, PriceInvHolds, PTL

(* What the loop does to the accounts.                                     *)
LEMMA LoopsOnBook ==
    ASSUME PriceInv, [Next]_vars
    PROVE  BookStep
<1>1. run.at \in {"creating", "sending", "voiding"} => run.market \in Markets
  BY DEF PriceInv, LocalsFit
<1>2. CASE \/ CreateLands(SettlePass(run.now, tracked'))
           \/ CreateUnseen(SettlePass(run.now, tracked))
  BY <1>1, <1>2 DEF CreateLands, CreateUnseen, BookStep
<1>3. CASE BundleLands(Done(run)) \/ BundleUnseen
  BY <1>1, <1>3 DEF BundleLands, BundleUnseen, BookStep
<1>4. CASE VoidLands(Done(run))
  BY <1>1, <1>4 DEF VoidLands, BookStep
<1>5. CASE WorldStep
  BY <1>5 DEF WorldStep, TimePasses, Pass, CandleAppears, promiseVars, BookStep
<1>6. CASE \/ Recover(Idle("passing")) \/ TickWithoutSpot \/ Tick
           \/ CreateFails(SettlePass(run.now, tracked))
           \/ \E m \in Markets : SettleProves(m) \/ SettleWaits(m)
                                  \/ SettleThrows(m) \/ SettleGivesUp(m)
           \/ BundleFails \/ VoidFails(Thrown(run))
           \/ Boot \/ UNCHANGED vars
  BY <1>6 DEF Recover, TickWithoutSpot, Tick, EnsureCreates, EnsureAdopts,
     CreateFails, SettleProves, SettleWaits, SettleThrows, SettleGivesUp,
     BundleFails, VoidFails, Boot, vars, promiseVars, BookStep
<1> QED
  BY <1>2, <1>3, <1>4, <1>5, <1>6 DEF Next, LoopStep

(* A void the price keeper sends is never too early for the program        *)
(* (settlePriceMarket): it lets go of a market before it sends the void,   *)
(* so that a refused one would leave the market to the next scan.          *)
THEOREM PriceVoidsAreRipe == Spec => []VoidsAreRipe
<1>1. PricesInit => ClosesWithWindow
  BY FeedBegins
<1>2. PriceInv /\ ClosesWithWindow /\ [Next]_vars => ClosesWithWindow'
  BY RunFits, LoopsOnBook, TimesStay
<1>3. PriceInv /\ ClosesWithWindow => VoidsAreRipe
  <2>1. PriceInv => /\ WindowPassed
                    /\ run.at = "voiding" => run.market \in Markets
    BY DEF PriceInv, LocalsFit
  <2> QED
    BY <2>1, RunFits, RipeOnce
<1> QED
  BY <1>1, <1>2, <1>3, PriceInvHolds, PTL DEF Spec

-----------------------------------------------------------------------------
(* The sweep of bonds in the loop of the price keeper, for every number of *)
(* markets, every batch size and every claims window.                      *)
SweepInv == SweepTypeOK /\ ClosesCannotSpoil

(* A market that is decided may only be forgotten, which is the sweep's    *)
(* own doing: everyone else leaves its entry as it is.                     *)
LEMMA OthersKeepDecided ==
    ASSUME SweepTypeOK, OthersStep, NEW m \in Markets, book[m].stage \in Decided
    PROVE  book'[m].stage \in Decided /\ book'[m].decidedAt = book[m].decidedAt
<1>1. CASE Pass
  BY <1>1 DEF Pass
<1>2. ASSUME NEW n \in Markets, NEW c \in CloseTimes, Open(n, c)
      PROVE  book'[m] = book[m]
  BY <1>2 DEF Open, SweepTypeOK, Decided
<1>3. ASSUME NEW n \in Markets, NEW v, Decide(n, v)
      PROVE  book'[m] = book[m]
  BY <1>3 DEF Decide, SweepTypeOK, Decided
<1> QED
  BY <1>1, <1>2, <1>3 DEF OthersStep, Void, ClaimBond, promiseVars

(* The entries stay entries.                                               *)
LEMMA OthersTyped ==
    ASSUME SweepTypeOK, OthersStep
    PROVE  time' \in 0..MaxClock /\ time' >= time /\ book' \in [Markets -> Entry]
<1> USE PromiseAssumption
<1>1. CASE Pass
  BY <1>1 DEF Pass, SweepTypeOK
<1>2. ASSUME NEW n \in Markets, NEW c \in CloseTimes, Open(n, c)
      PROVE  book' \in [Markets -> Entry] /\ time' = time
  <2>1. c \in Nat
    OBVIOUS
  <2>2. [book[n] EXCEPT !.stage = "open", !.closesAt = c] \in Entry
    BY <2>1 DEF SweepTypeOK, Entry, Stages
  <2>3. book' = [book EXCEPT ![n] =
                    [book[n] EXCEPT !.stage = "open", !.closesAt = c]]
    BY <1>2 DEF Open, SweepTypeOK
  <2> QED
    BY <1>2, <2>2, <2>3 DEF Open, SweepTypeOK
<1>3. ASSUME NEW n \in Markets, NEW v \in Decided, Decide(n, v)
      PROVE  book' \in [Markets -> Entry] /\ time' = time
  <2>1. time \in Nat /\ v \in Stages
    BY DEF SweepTypeOK, Stages
  <2>2. [book[n] EXCEPT !.stage = v, !.decidedAt = time] \in Entry
    BY <2>1 DEF SweepTypeOK, Entry
  <2>3. book' = [book EXCEPT ![n] =
                    [book[n] EXCEPT !.stage = v, !.decidedAt = time]]
    BY <1>3 DEF Decide, SweepTypeOK
  <2> QED
    BY <1>3, <2>2, <2>3 DEF Decide, SweepTypeOK
<1>4. "settled" \in Decided /\ "void" \in Decided
  BY DEF Decided
<1> QED
  BY <1>1, <1>2, <1>3, <1>4 DEF OthersStep, Void, ClaimBond, promiseVars, SweepTypeOK

LEMMA OthersKeep == ASSUME SweepInv, OthersStep PROVE SweepInv'
<1> USE DEF SweepInv
<1>1. bonds' \subseteq {m \in Markets : book'[m].stage \in Decided}
  <2>1. ASSUME NEW m \in bonds PROVE m \in Markets /\ book'[m].stage \in Decided
    BY OthersKeepDecided DEF SweepTypeOK
  <2>2. bonds' \subseteq bonds
          \/ \E m \in Markets : ClaimBond(m) /\ UNCHANGED promiseVars
    BY DEF OthersStep
  <2> QED
    BY <2>1, <2>2 DEF ClaimBond, promiseVars
<1>2. SweepTypeOK'
  BY <1>1, OthersTyped DEF SweepTypeOK, OthersStep
<1>3. ClosesCannotSpoil'
  <2>1. sweep' = sweep
    BY DEF OthersStep
  <2> SUFFICES ASSUME NEW m \in sweep.closable
               PROVE  /\ book'[m].stage \in Decided
                      /\ time' > book'[m].decidedAt + CloseGrace
    BY <2>1 DEF ClosesCannotSpoil
  <2>2. /\ m \in Markets
        /\ book[m].stage \in Decided /\ time > book[m].decidedAt + CloseGrace
        /\ book[m].decidedAt \in Nat /\ time \in Int
    BY PromiseAssumption DEF SweepTypeOK, ClosesCannotSpoil, Entry
  <2>3. book'[m].stage \in Decided /\ book'[m].decidedAt = book[m].decidedAt
    BY <2>2, OthersKeepDecided
  <2>4. time' >= time /\ time' \in Int
    BY OthersTyped, PromiseAssumption
  <2> QED
    BY <2>2, <2>3, <2>4, PromiseAssumption
<1> QED
  BY <1>2, <1>3

(* A batch that has its market taken up leaves the others of the scan.     *)
LEMMA CloseKeeps ==
    ASSUME SweepInv, NEW chunk \in SUBSET Markets, CloseBatch(chunk)
    PROVE  SweepInv'
<1> USE DEF SweepInv
<1>1. sweep' \in [closable: SUBSET Markets, bondOnly: SUBSET Markets]
        /\ sweep'.closable = sweep.closable \ chunk
  BY DEF CloseBatch, BatchDone, SweepTypeOK
<1>2. book' \in [Markets -> Entry]
  BY DEF CloseBatch, SweepTypeOK, NoMarket, Entry, Stages
<1>3. \A m \in Markets \ chunk : book'[m] = book[m]
  BY DEF CloseBatch
<1>4. bonds' = bonds \ chunk /\ time' = time
  BY DEF CloseBatch, BondsLeft
<1>5. SweepTypeOK'
  BY <1>1, <1>2, <1>3, <1>4 DEF SweepTypeOK
<1>6. ClosesCannotSpoil'
  BY <1>1, <1>3, <1>4 DEF ClosesCannotSpoil, SweepTypeOK
<1> QED
  BY <1>5, <1>6

LEMMA SweepKeeps == ASSUME SweepInv, SweepStep PROVE SweepInv'
<1> USE DEF SweepInv
<1>1. CASE Scan
  <2>1. sweep' \in [closable: SUBSET Markets, bondOnly: SUBSET Markets]
    BY <1>1 DEF Scan
  <2>2. \A m \in sweep'.closable : book[m].stage \in Decided /\ Closable(m)
    BY <1>1 DEF Scan
  <2> QED
    BY <1>1, <2>1, <2>2 DEF Scan, promiseVars, SweepTypeOK, ClosesCannotSpoil, Closable
<1>2. ASSUME NEW chunk \in SUBSET Markets, CloseBatch(chunk) PROVE SweepInv'
  BY <1>2, CloseKeeps
<1>3. ASSUME NEW chunk \in SUBSET Markets, ClaimBatch(chunk) PROVE SweepInv'
  <2>1. sweep' \in [closable: SUBSET Markets, bondOnly: SUBSET Markets]
          /\ sweep'.closable = sweep.closable
    BY <1>3 DEF ClaimBatch, BatchDone, SweepTypeOK
  <2>2. bonds' = bonds \cup chunk /\ \A m \in chunk : book[m].stage \in Decided
    BY <1>3 DEF ClaimBatch
  <2> QED
    BY <1>3, <2>1, <2>2 DEF ClaimBatch, promiseVars, SweepTypeOK, ClosesCannotSpoil
<1>4. CASE BatchFails
  <2>1. sweep' \in [closable: SUBSET Markets, bondOnly: SUBSET Markets]
          /\ sweep'.closable \subseteq sweep.closable
    BY <1>4 DEF BatchFails, BatchDone, SweepTypeOK
  <2> QED
    BY <1>4, <2>1 DEF BatchFails, promiseVars, SweepTypeOK, ClosesCannotSpoil
<1> QED
  BY <1>1, <1>2, <1>3, <1>4 DEF SweepStep

-----------------------------------------------------------------------------
LEMMA SweepInvAlways == SweepSpec => []SweepInv
<1>1. SweepInit => SweepInv
  BY PromiseAssumption
     DEF SweepInit, PromiseInit, Swept, NoMarket, SweepInv, SweepTypeOK,
         ClosesCannotSpoil, Entry, Stages
<1>2. SweepInv /\ [SweepNext]_sweepVars => SweepInv'
  <2> SUFFICES ASSUME SweepInv, [SweepNext]_sweepVars PROVE SweepInv'
    OBVIOUS
  <2>1. CASE UNCHANGED sweepVars
    BY <2>1 DEF sweepVars, promiseVars, SweepInv, SweepTypeOK, ClosesCannotSpoil
  <2> QED
    BY <2>1, SweepKeeps, OthersKeep DEF SweepNext
<1> QED
  BY <1>1, <1>2, PTL DEF SweepSpec

(* The bond of a market is only claimed while it is decided, and what the  *)
(* sweep has scanned are markets (claims.ts, sweepCreatorBonds).           *)
THEOREM SweepTyped == SweepSpec => []SweepTypeOK
<1>1. SweepInv => SweepTypeOK
  BY DEF SweepInv
<1> QED
  BY <1>1, SweepInvAlways, PTL

(* What a scan found closable stays closable until its batch is sent, for  *)
(* any markets and whatever others do (claims.ts, sweepCreatorBonds).      *)
THEOREM ScannedStaysClosable == SweepSpec => []ClosesCannotSpoil
<1>1. SweepInv => ClosesCannotSpoil
  BY DEF SweepInv
<1> QED
  BY <1>1, SweepInvAlways, PTL

=============================================================================
