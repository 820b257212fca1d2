---------------------------- MODULE PriceMarkets ----------------------------
(***************************************************************************)
(* The primitives both price keepers are made of (apps/agent/src/          *)
(* priceKeeper.ts): create or adopt a price_above market, recover the open *)
(* ones after a restart, settle one from an observation of its time        *)
(* window, void one that cannot be proven.  The loops that call them are   *)
(* PriceKeeper and WeekKeeper.                                             *)
(*                                                                         *)
(* A keeper is one process that does one thing at a time; one action is    *)
(* the code between two awaits after which the world can have changed.     *)
(* The address of a market is derived from its window (the reference time  *)
(* that is part of its match id) and its threshold.  Dry runs are left out.*)
(***************************************************************************)
EXTENDS MarketPromise, Validators, FiniteSets, FiniteSetsExt, Sequences

CONSTANTS
    Windows,       \* reference times of the keeper's own match ids
    Prices,        \* prices in whole USD
    Thresholds,    \* spot prices at which markets are created
    Modes,         \* values PRICE_ORACLE may have when the keeper starts
    MaxStaleness,  \* MAX_STALENESS_SECONDS
    ProbeOffsets,  \* PROBE_OFFSETS_SECONDS, a sequence
    VoidGrace,     \* PRICE_VOID_GRACE_SECONDS
    LateCandle,    \* how long before the end of VoidGrace a candle is awaited
    ClaimWindow, ClaimSlack,  \* 600 and 300 in the window of an attested claim
    OneTryPerTick, \* an exception ends the tick, not only the market's turn
    MaxRestarts    \* bound on process restarts

VARIABLES
    bound,      \* the oracle each market was created with
    updates,    \* price updates the Pyth feed has published, by time
    candles,    \* exchange candle of each window, once it is published
    mode,       \* PRICE_ORACLE of the running process
    tracked,    \* ctx.tracked
    run,        \* where the loop is, and what its local variables hold
    restarts,
    lost        \* history: markets a failed step has let go of

worldVars == <<bound, updates, candles>>
keeperVars == <<mode, tracked, run, restarts, lost>>

EvidenceOf == [at: 0..MaxClock, value: Prices, outcome: Answers]

(* None is no market, number, observation or account.  The last probe is   *)
(* at the end of the window (PROBE_OFFSETS_SECONDS).                       *)
ASSUME PriceAssumption ==
    /\ Windows \subseteq Nat /\ Prices \subseteq Nat /\ Thresholds \subseteq Nat
    /\ Prices # {}
    /\ Markets = [window: Windows, threshold: Thresholds]
    /\ Modes \subseteq {"pyth", "attestation"}
    /\ {MaxStaleness, VoidGrace, LateCandle, ClaimWindow, ClaimSlack,
        MaxRestarts} \subseteq Nat
    /\ ProbeOffsets \in Seq(Nat)
    /\ \E i \in DOMAIN ProbeOffsets : ProbeOffsets[i] = MaxStaleness
    /\ None \notin Nat /\ None \notin Markets /\ None \notin EvidenceOf
    /\ None \notin [publishTime: Nat, price: Nat]
    /\ None \notin [signer: {"attestor"}, message: [value: Nat, obsTs: Nat]]
    /\ OneTryPerTick \in BOOLEAN

-----------------------------------------------------------------------------
Idle(at) == [at |-> at, now |-> 0, todo |-> {}, market |-> None,
             evidence |-> None]

PricesInit ==
    /\ PromiseInit
    /\ bound = [m \in Markets |-> None]
    /\ updates = [t \in 0..MaxClock |-> IF t = 0 THEN Min(Prices) ELSE None]
    /\ candles = [w \in Windows |-> None]
    /\ mode \in Modes
    /\ tracked = {} /\ lost = {}
    /\ run = Idle("recovering")
    /\ restarts = 0

(* Time passes; the feed may publish an update each time, or leave a gap.  *)
(* Only updates of some window are told apart from the first one.          *)
InSomeWindow(t) == \E w \in Windows : WithinWindow(t, w, MaxStaleness)

TimePasses ==
    /\ Pass
    /\ IF InSomeWindow(time')
       THEN \E p \in Prices \cup {None} : updates' = [updates EXCEPT ![time'] = p]
       ELSE UNCHANGED updates
    /\ UNCHANGED <<bound, candles>>

CandleAppears(w) ==
    /\ w <= time /\ candles[w] = None
    /\ \E p \in Prices : candles' = [candles EXCEPT ![w] = p]
    /\ UNCHANGED <<promiseVars, bound, updates>>

(* Everyone else who uses the programs on the keeper's markets.            *)
OthersAct ==
    /\ \E m \in Markets : Prove(m) \/ Decide(m, "settled") \/ Void(m)
    /\ UNCHANGED worldVars

-----------------------------------------------------------------------------
(* recoverOpenPriceMarkets: the wallet's open markets of its own match ids;*)
(* a scan that fails is logged and leaves nothing tracked.                 *)
OwnOpen_Upcoming ==   \* mutant: rounds that are over are not scanned
    {m \in Markets : book[m].stage = "open" /\ time < m.window}
OwnOpen == {m \in Markets : book[m].stage = "open"}

Recover(next) ==
    /\ run.at = "recovering"
    /\ \/ tracked' = tracked \cup OwnOpen /\ lost' = {}
       \/ lost' = lost \cup OwnOpen /\ UNCHANGED tracked
    /\ run' = next
    /\ UNCHANGED <<promiseVars, worldVars, mode, restarts>>

Boot ==
    /\ restarts < MaxRestarts
    /\ restarts' = restarts + 1
    /\ mode' \in Modes
    /\ tracked' = {}
    /\ run' = Idle("recovering")
    /\ UNCHANGED <<promiseVars, worldVars, lost>>

(* ensurePriceMarket: the threshold is the spot price of the moment, so    *)
(* the same window has another address at another price.  A market that is *)
(* tracked or exists is adopted, whatever its status.                      *)
Adopted(m) == m \in tracked \/ book[m].stage # "none"

EnsureAdopts(m) ==
    /\ Adopted(m)
    /\ tracked' = tracked \cup {m}
    /\ UNCHANGED <<promiseVars, worldVars, mode, restarts, lost>>

EnsureCreates(m) ==
    /\ ~Adopted(m)
    /\ run' = [run EXCEPT !.at = "creating", !.now = time, !.market = m]
    /\ UNCHANGED <<promiseVars, worldVars, mode, tracked, restarts, lost>>

CreateAccount(m) ==
    /\ Open(m, m.window)
    /\ bound' = [bound EXCEPT ![m] = mode]
    /\ UNCHANGED <<updates, candles>>

(* A transaction that was accepted may still look failed: confirming it or *)
(* reading its status can throw.                                           *)
CreateUnseen(pass) ==
    /\ run.at = "creating"
    /\ CreateAccount(run.market)
    /\ lost' = lost \cup {run.market}
    /\ run' = pass
    /\ UNCHANGED <<mode, tracked, restarts>>

CreateLands(pass) ==
    /\ run.at = "creating"
    /\ CreateAccount(run.market)
    /\ tracked' = tracked \cup {run.market}
    /\ run' = pass
    /\ UNCHANGED <<mode, restarts, lost>>

CreateFails(pass) ==
    /\ run.at = "creating"
    /\ run' = pass
    /\ UNCHANGED <<promiseVars, worldVars, mode, tracked, restarts, lost>>

-----------------------------------------------------------------------------
(* fetchUpdateAt: the latest update published at or before a time; the     *)
(* first probe whose answer lies in the window wins.                       *)
LatestAt(t) == Max({s \in 0..t : updates[s] # None})
Earlier(s, t) == IF s < t THEN s ELSE t

Probed_StopsShort(m, nowSec) ==   \* mutant: the last offset is left out
    [i \in DOMAIN ProbeOffsets |-> IF i = Len(ProbeOffsets) THEN 0 ELSE
        LatestAt(Earlier(m.window + ProbeOffsets[i], nowSec))]
Probed(m, nowSec) ==
    [i \in DOMAIN ProbeOffsets |->
        LatestAt(Earlier(m.window + ProbeOffsets[i], nowSec))]

Usable_AnyEarlier(m, t) ==   \* mutant: also from before the reference time
    t <= m.window + MaxStaleness
Usable(m, t) == WithinWindow(t, m.window, MaxStaleness)

InWindowUpdate(m, nowSec) ==
    LET probes == Probed(m, nowSec)
        hits == {i \in DOMAIN probes : Usable(m, probes[i])}
    IN  IF hits = {} THEN None ELSE probes[Min(hits)]

(* What settlePriceMarket can prove with now: the time and value of an     *)
(* observation, and the outcome it claims.                                 *)
Evidence(m) ==
    LET claim(t, price) == [at |-> t, value |-> price,
                            outcome |-> Answer(price >= m.threshold)]
    IN  IF bound[m] = "pyth"
        THEN LET t == InWindowUpdate(m, time)
             IN  IF t = None THEN None ELSE claim(t, updates[t])
        ELSE IF candles[m.window] = None
             THEN None
             ELSE claim(time, candles[m.window])

(* The answer of the market's oracle to that evidence.  An attested        *)
(* observation carries the time it is signed, and its claim a window that  *)
(* reaches so far.                                                         *)
AttestedWindow_Fixed(m, obsTs) == ClaimWindow   \* mutant: not sized to the delay
AttestedWindow(m, obsTs) == Max({ClaimWindow, obsTs - m.window + ClaimSlack})

OracleAnswer(m, e) ==
    IF bound[m] = "pyth"
    THEN ValidatePrice([publishTime |-> e.at, price |-> e.value],
            [threshold |-> m.threshold, referenceTs |-> m.window,
             window |-> MaxStaleness])
    ELSE LET observation == [value |-> e.value, obsTs |-> e.at]
         IN  ValidateAttestation("attestor",
                [signer |-> "attestor", message |-> observation], observation,
                [threshold |-> m.threshold, referenceTs |-> m.window,
                 window |-> AttestedWindow(m, e.at), op |-> OP_GTE])

-----------------------------------------------------------------------------
(* Why a market may be given up: its oracle cannot be driven in this mode, *)
(* or its window has passed without an observation.                        *)
Unsupported(m) == bound[m] = "pyth" /\ mode = "attestation"

Unresolvable_Candle(m) ==   \* mutant: a gap of the feed is waited for
    bound[m] = "attestation" /\ time > m.window + VoidGrace - LateCandle
Unresolvable(m) ==
    IF bound[m] = "pyth"
    THEN time > m.window + MaxStaleness
    ELSE time > m.window + VoidGrace - LateCandle

PastGrace(m) == run.now > m.window + VoidGrace

(* A candle that is not there yet and a request that failed look the same; *)
(* a request to Hermes that fails throws.                                  *)
SeenEmpty(m) == bound[m] = "attestation" \/ Evidence(m) = None

Turn(m) == run.at = "passing" /\ m \in run.todo
Handled(m) == [run EXCEPT !.todo = @ \ {m}]
Done(r) == [r EXCEPT !.at = "passing", !.market = None, !.evidence = None,
                     !.now = IF r.todo = {} THEN 0 ELSE @]
Thrown(r) == Done(IF OneTryPerTick THEN [r EXCEPT !.todo = {}] ELSE r)

SettleProves(m) ==
    /\ Turn(m)
    /\ ~Unsupported(m)
    /\ Evidence(m) # None
    /\ run' = [Handled(m) EXCEPT !.at = "sending", !.market = m,
                               !.evidence = Evidence(m)]
    /\ UNCHANGED <<promiseVars, worldVars, mode, tracked, restarts, lost>>

SettleWaits(m) ==
    /\ Turn(m)
    /\ \/ Unsupported(m) /\ ~PastGrace(m)
       \/ ~Unsupported(m) /\ SeenEmpty(m) /\ ~(Unresolvable(m) /\ PastGrace(m))
    /\ run' = Done(Handled(m))
    /\ UNCHANGED <<promiseVars, worldVars, mode, tracked, restarts, lost>>

SettleThrows(m) ==
    /\ Turn(m)
    /\ bound[m] = "pyth" /\ ~Unsupported(m)
    /\ run' = Thrown(Handled(m))
    /\ UNCHANGED <<promiseVars, worldVars, mode, tracked, restarts, lost>>

(* The market is let go of before the void is sent.                        *)
SettleGivesUp(m) ==
    /\ Turn(m)
    /\ PastGrace(m)
    /\ Unsupported(m) \/ (SeenEmpty(m) /\ Unresolvable(m))
    /\ tracked' = tracked \ {m}
    /\ run' = [Handled(m) EXCEPT !.at = "voiding", !.market = m]
    /\ UNCHANGED <<promiseVars, worldVars, mode, restarts, lost>>

(* The bundle resolves, settles and attests in one transaction, or not at  *)
(* all: it needs an open market without a receipt and an answer that is    *)
(* the claimed outcome.                                                    *)
SettleBundle(m, e) ==
    /\ book[m].stage = "open" /\ ~book[m].receipt
    /\ ProofAccepted(OracleAnswer(m, e), e.outcome)
    /\ book' = [book EXCEPT ![m].receipt = TRUE, ![m].stage = "settled",
                            ![m].decidedAt = time]
    /\ UNCHANGED <<time, worldVars>>

BundleLands(done) ==
    /\ run.at = "sending"
    /\ SettleBundle(run.market, run.evidence)
    /\ tracked' = tracked \ {run.market}
    /\ run' = done
    /\ UNCHANGED <<mode, restarts, lost>>

BundleUnseen ==
    /\ run.at = "sending"
    /\ SettleBundle(run.market, run.evidence)
    /\ run' = Thrown(run)
    /\ UNCHANGED <<mode, tracked, restarts, lost>>

BundleFails ==
    /\ run.at = "sending"
    /\ run' = Thrown(run)
    /\ UNCHANGED <<promiseVars, worldVars, mode, tracked, restarts, lost>>

VoidLands(done) ==
    /\ run.at = "voiding"
    /\ Void(run.market)
    /\ run' = done
    /\ UNCHANGED <<worldVars, mode, tracked, restarts, lost>>

VoidFails(done) ==
    /\ run.at = "voiding"
    /\ run' = done
    /\ lost' = lost \cup {run.market}
    /\ UNCHANGED <<promiseVars, worldVars, mode, tracked, restarts>>

-----------------------------------------------------------------------------
(* Whatever the keeper sends as a proof, however late, after whatever      *)
(* restarts and in whatever mode it runs now: the oracle the market was    *)
(* created with accepts it for the outcome the keeper claims.              *)
ProofFits ==
    run.at = "sending" =>
        ProofAccepted(OracleAnswer(run.market, run.evidence),
                      run.evidence.outcome)

(* Only a gap of the feed makes a Pyth market unresolvable: a keeper that  *)
(* can read the feed voids no market that has an observation in its        *)
(* window, however long it was down or however often a request failed.     *)
OnlyGapsAreVoided ==
    run.at = "voiding" /\ bound[run.market] = "pyth" /\ mode = "pyth" =>
        \A t \in 0..MaxClock :
            WithinWindow(t, run.market.window, MaxStaleness)
                => updates[t] = None

(* A tracked market whose round is over comes to an end: it is decided, or *)
(* its void has been sent (priceKeeper.ts, settlePriceMarket); unless      *)
(* someone else has made its receipt, with which the bundle cannot land.   *)
Served ==
    \A m \in Markets :
        (m \in tracked /\ book[m].stage = "open"
            /\ m.window + VoidGrace < MaxClock)
        ~> (book[m].stage # "open" \/ book[m].receipt \/ m \notin tracked)

=============================================================================
