----------------------------- MODULE WeekKeeper -----------------------------
(***************************************************************************)
(* The weekly keeper (apps/agent/src/weekKeeper.ts, runWeekKeeper) on the  *)
(* primitives of PriceMarkets.  One window market at a time: the next is   *)
(* created when none is tracked and the window is not recorded as settled. *)
(* Its own position in a market is left out.                               *)
(***************************************************************************)
EXTENDS PriceMarkets

VARIABLES
    bonds,          \* markets whose bond is claimed (bond_claimed)
    settledWindow,  \* the window last recorded as settled
    background      \* markets whose claimReceipts nobody waits for

weekVars == <<bonds, settledWindow, background>>
vars == <<promiseVars, worldVars, keeperVars, weekVars>>

(* weekWindowFor: the first close strictly after now.                      *)
Current(w) == w > time /\ \A v \in Windows : v > time => w <= v

SettlePass(t, markets) ==
    [Idle("passing") EXCEPT !.now = t,
                            !.todo = {m \in markets : t >= m.window}]

TickDue == run.at = "passing" /\ run.todo = {}

Quiet == UNCHANGED weekVars

-----------------------------------------------------------------------------
(* After the scan, markets decided meanwhile are recorded.  A status that  *)
(* cannot be read counts as open.                                          *)
BeginChecks ==
    /\ Recover([Idle("checking") EXCEPT !.todo = tracked'])
    /\ Quiet

Recorded(m, next) ==
    /\ book[m].stage \notin {"none", "open"}
    /\ settledWindow' = m.window
    /\ run' = next
    /\ UNCHANGED <<promiseVars, worldVars, mode, tracked, restarts, lost,
                   bonds, background>>

Unrecorded(next) ==
    /\ run' = next
    /\ UNCHANGED <<promiseVars, worldVars, mode, tracked, restarts, lost>>
    /\ Quiet

Check(m) ==
    /\ run.at = "checking" /\ m \in run.todo
    /\ \/ Recorded(m, [Handled(m) EXCEPT !.at = "checkClaiming", !.market = m])
       \/ Unrecorded(Handled(m))

EndChecks ==
    /\ run.at = "checking" /\ run.todo = {}
    /\ Unrecorded(Idle("passing"))

(* The window of the tick, and what is to be done about it.                *)
MayOpen_Untracked(w) == settledWindow # w   \* mutant: tracked.size is not read
MayOpen(w) == settledWindow # w /\ tracked = {}

TickSettles ==
    /\ TickDue
    /\ \A w \in Windows : Current(w) => ~MayOpen(w)
    /\ Unrecorded(SettlePass(time, tracked))

TickOpens ==
    /\ TickDue
    /\ \E m \in Markets :
          /\ Current(m.window) /\ MayOpen(m.window)
          /\ \/ EnsureCreates(m)
             \/ /\ EnsureAdopts(m)
                /\ run' = [run EXCEPT !.at = "looking", !.now = time,
                                      !.market = m]
    /\ Quiet

Created ==
    /\ CreateLands([run EXCEPT !.at = "looking"])
    /\ Quiet

CreateThrows ==
    /\ CreateFails(Idle("passing")) \/ CreateUnseen(Idle("passing"))
    /\ Quiet

Look ==
    /\ run.at = "looking"
    /\ \/ Recorded(run.market, [run EXCEPT !.at = "claiming"])
       \/ Unrecorded(SettlePass(run.now, tracked))

-----------------------------------------------------------------------------
(* claimReceipts: a read that fails ends it; a decided market is dropped   *)
(* from tracking, and its bond claimed unless it is already.               *)
ClaimReceipts(m) ==
    /\ \/ UNCHANGED <<tracked, bonds>>
       \/ /\ book[m].stage \in Decided
          /\ tracked' = tracked \ {m}
          /\ bonds' = bonds \cup {m} \/ UNCHANGED bonds
    /\ UNCHANGED <<promiseVars, worldVars, mode, restarts, lost,
                   settledWindow>>

Claim ==
    /\ run.at \in {"checkClaiming", "claiming"}
    /\ ClaimReceipts(run.market)
    /\ run' = [Done(run) EXCEPT !.at = IF run.at = "claiming" THEN "passing"
                                                            ELSE "checking"]
    /\ UNCHANGED background

ClaimInBackground(m) ==
    /\ m \in background
    /\ ClaimReceipts(m)
    /\ background' = background \ {m}
    /\ UNCHANGED run

SettleTurn(m) ==
    /\ SettleProves(m) \/ SettleWaits(m) \/ SettleThrows(m)
    /\ Quiet

(* onSettled, and voidStale, which records the window before it sends.     *)
Settled ==
    /\ BundleLands(Done(run))
    /\ settledWindow' = run.market.window
    /\ background' = background \cup {run.market}
    /\ UNCHANGED bonds

NotSettled == (BundleUnseen \/ BundleFails) /\ Quiet

VoidStale(m) ==
    /\ SettleGivesUp(m)
    /\ settledWindow' = m.window
    /\ UNCHANGED <<bonds, background>>

Voided == VoidLands([run EXCEPT !.at = "claiming"]) /\ Quiet
NotVoided_GoesOn ==   \* mutant: no return after a void that failed
    VoidFails([run EXCEPT !.at = "claiming"]) /\ Quiet
NotVoided == VoidFails(Done(run)) /\ Quiet

LoopStep ==
    \/ BeginChecks \/ EndChecks
    \/ TickSettles \/ TickOpens \/ Created \/ CreateThrows \/ Look
    \/ Claim
    \/ \E m \in Markets : Check(m) \/ SettleTurn(m) \/ VoidStale(m)
    \/ Settled \/ NotSettled \/ Voided \/ NotVoided

WorldStep ==
    /\ TimePasses \/ OthersAct \/ \E w \in Windows : CandleAppears(w)
    /\ UNCHANGED keeperVars /\ Quiet

Restart ==
    /\ Boot
    /\ settledWindow' = None /\ background' = {}
    /\ UNCHANGED bonds

Next ==
    \/ LoopStep
    \/ \E m \in Markets : ClaimInBackground(m)
    \/ WorldStep
    \/ Restart

Init ==
    /\ PricesInit
    /\ bonds = {} /\ settledWindow = None /\ background = {}

Spec == Init /\ [][Next]_vars

(* The loops go on and so does time.  A request or a transaction that can  *)
(* succeed again and again does not fail for ever.                         *)
FairSpec ==
    /\ Spec
    /\ WF_vars(LoopStep)
    /\ WF_vars(TimePasses /\ UNCHANGED keeperVars /\ Quiet)
    /\ \A m \in Markets : SF_vars(SettleProves(m) /\ Quiet) /\ SF_vars(VoidStale(m))
    /\ SF_vars(Settled)

-----------------------------------------------------------------------------
Places == {"recovering", "checking", "checkClaiming", "passing", "creating",
           "looking", "sending", "voiding", "claiming"}

TypeOK ==
    /\ time \in 0..MaxClock
    /\ book \in [Markets -> Entry]
    /\ bound \in [Markets -> Modes \cup {None}]
    /\ tracked \subseteq Markets /\ lost \subseteq Markets
    /\ run.at \in Places
    /\ run.todo \subseteq Markets /\ run.market \in Markets \cup {None}
    /\ settledWindow \in Windows \cup {None}
    /\ background \subseteq Markets
    /\ run.at \in {"checkClaiming", "claiming"}
          => book[run.market].stage \in Decided
    /\ bonds \subseteq {m \in Markets : book[m].stage \in Decided}

(* The week has one line (weekKeeper.ts, the loop): although a restart     *)
(* forgets everything and the price that names the market has moved, a     *)
(* market is opened beside another open one of its window only after the   *)
(* scan, or the creation, of the other one looked failed.                  *)
OneLine ==
    [][\A m, n \in Markets :
          /\ book[m].stage = "none" /\ book'[m].stage = "open"
          /\ n.window = m.window /\ book[n].stage = "open"
          => n \in lost]_vars

(* weekKeeper.ts: every week the keeper opens one market.  It opens none   *)
(* while it tracks one, so a market that is decided must not stay tracked. *)
LoopRollsOn ==
    \A m \in Markets :
        (m \in tracked /\ book[m].stage \in Decided) ~> m \notin tracked

=============================================================================
