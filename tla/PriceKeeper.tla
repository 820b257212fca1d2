----------------------------- MODULE PriceKeeper -----------------------------
(***************************************************************************)
(* The interval loop of apps/agent/src/priceKeeper.ts (runPriceKeeper): at *)
(* every tick it makes sure of a market for the round under way, then      *)
(* tries to settle, or voids, every tracked market whose round is over.    *)
(* Its sweep of bonds is BondSweep.                                        *)
(***************************************************************************)
EXTENDS PriceMarkets

CONSTANT IntervalSeconds

ASSUME IntervalAssumption == IntervalSeconds \in Nat \ {0}

vars == <<promiseVars, worldVars, keeperVars>>

NextBoundary(t) == t - (t % IntervalSeconds) + IntervalSeconds

(* The settle pass works through a copy of the tracked markets, with the   *)
(* time the tick began at.                                                 *)
SettlePass_Any(t, markets) ==   \* mutant: not only the tracked markets
    [Idle("passing") EXCEPT !.now = t,
                            !.todo = {m \in Markets : t >= m.window}]
SettlePass(t, markets) ==
    [Idle("passing") EXCEPT !.now = t,
                            !.todo = {m \in markets : t >= m.window}]

TickDue == run.at = "passing" /\ run.todo = {}

(* The price service does not answer: creation has a try of its own.  (So  *)
(* is a round past the modelled windows.)                                  *)
TickWithoutSpot ==
    /\ TickDue
    /\ run' = SettlePass(time, tracked)
    /\ UNCHANGED <<promiseVars, worldVars, mode, tracked, restarts, lost>>

Tick ==
    /\ TickDue
    /\ \E m \in Markets :
          /\ m.window = NextBoundary(time)
          /\ \/ EnsureCreates(m)
             \/ EnsureAdopts(m) /\ run' = SettlePass(time, tracked')

LoopStep ==
    \/ Recover(Idle("passing"))
    \/ TickWithoutSpot
    \/ Tick
    \/ CreateLands(SettlePass(run.now, tracked'))
    \/ CreateUnseen(SettlePass(run.now, tracked))
    \/ CreateFails(SettlePass(run.now, tracked))
    \/ \E m \in Markets :
          SettleProves(m) \/ SettleWaits(m) \/ SettleThrows(m) \/ SettleGivesUp(m)
    \/ BundleLands(Done(run))
    \/ BundleUnseen
    \/ BundleFails
    \/ VoidLands(Done(run))
    \/ VoidFails(Thrown(run))

WorldStep ==
    /\ TimePasses \/ OthersAct \/ \E w \in Windows : CandleAppears(w)
    /\ UNCHANGED keeperVars

Next == LoopStep \/ WorldStep \/ Boot

Spec == PricesInit /\ [][Next]_vars

(* The loop goes on and so does time; a request or a transaction that can  *)
(* succeed does not fail for ever.                                         *)
FairSpec ==
    /\ Spec
    /\ WF_vars(LoopStep)
    /\ WF_vars(TimePasses /\ UNCHANGED keeperVars)
    /\ \A m \in Markets : SF_vars(SettleProves(m)) /\ SF_vars(SettleGivesUp(m))
    /\ SF_vars(BundleLands(Done(run)))

-----------------------------------------------------------------------------
Places == {"recovering", "creating", "passing", "sending", "voiding"}

TypeOK ==
    /\ time \in 0..MaxClock
    /\ book \in [Markets -> Entry]
    /\ bound \in [Markets -> {"pyth", "attestation", None}]
    /\ updates \in [0..MaxClock -> Prices \cup {None}]
    /\ candles \in [Windows -> Prices \cup {None}]
    /\ mode \in Modes
    /\ tracked \subseteq Markets /\ lost \subseteq Markets
    /\ run \in [at: Places, now: 0..MaxClock, todo: SUBSET tracked,
                market: Markets \cup {None}, evidence: EvidenceOf \cup {None}]
    /\ restarts \in 0..MaxRestarts

(* Every open market of the keeper is tracked, is about to be, or was let  *)
(* go of by a step that failed, until the next scan finds it.              *)
NoneForgotten ==
    \A m \in Markets : book[m].stage = "open" =>
        \/ m \in tracked \/ m \in lost
        \/ run.at = "recovering" \/ run.market = m

=============================================================================
