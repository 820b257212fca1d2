----------------------------- MODULE Matchkeeper -----------------------------
(***************************************************************************)
(* The agent loop (apps/agent/src/loop.ts, class Agent) as a client of     *)
(* MarketPromise: it creates markets when a match starts, settles them     *)
(* from a proof when it ends, retries what could not be proven yet and     *)
(* voids what could not be proven in time.                                 *)
(*                                                                         *)
(* The process is single-threaded, but every await lets another activity   *)
(* run: an event handler, a pass of the retry timer or a pass of the       *)
(* housekeeping timer.  Such an activity is a task; one step of a task is  *)
(* the code between two awaits.  A market is what findIndex looks for, the *)
(* kind and match of a predicate, and the address derived from it.  The    *)
(* dry-run mode and the sweep of bonds and payouts are left out.           *)
(***************************************************************************)
EXTENDS MarketPromise, FiniteSets, SequencesExt

CONSTANTS
    Matches,     \* the markets of each match, as sets of markets
    EventTasks, RetryTasks, HouseTasks,  \* activities that can be under way
    CloseDelay,  \* closesInSeconds of a template
    GiveUp,      \* SETTLE_RETRY_GIVE_UP_MS
    MaxRestarts, \* bound on process restarts
    None         \* no pending settlement

VARIABLES
    openMarkets,  \* this.openMarkets
    pending,      \* this.pendingSettlements: enqueuedAt of each market
    saved,        \* the pending-settlements file
    task,         \* what each activity has still to do, and where it is
    seen,         \* matches whose start this process has handled
    ended,        \* matches the feed has reported as final
    restarts,     \* how often the process was restarted
    firstPending  \* history: when a market first became pending

keeperVars == <<openMarkets, pending, saved, task>>
feedVars == <<seen, ended, restarts>>
vars == <<promiseVars, keeperVars, feedVars, firstPending>>

Tasks == EventTasks \cup RetryTasks \cup HouseTasks

ASSUME KeeperAssumption ==
    /\ IsFiniteSet(Markets) /\ IsFiniteSet(Tasks)
    /\ Matches \subseteq SUBSET Markets
    /\ {CloseDelay, GiveUp, MaxRestarts} \subseteq Nat
    /\ None \notin Nat

Jobs == [kind: {"create", "settle", "retry", "final"}, market: Markets]
Places == {"ready", "looking", "creating", "proving", "building", "bundled", "resolving",
           "settling", "attesting", "voiding", "sendingVoid", "dropping"}

Resting == [todo |-> <<>>, at |-> "ready", index |-> 0, closesAt |-> 0]

KeeperInit ==
    /\ PromiseInit
    /\ openMarkets = <<>>
    /\ pending = [m \in Markets |-> None]
    /\ saved = pending
    /\ task = [t \in Tasks |-> Resting]
    /\ seen = {} /\ ended = {} /\ restarts = 0
    /\ firstPending = [m \in Markets |-> None]

-----------------------------------------------------------------------------
Free(t) == task[t].todo = <<>>
Job(t) == Head(task[t].todo)
At(t, kinds, place) ==
    ~Free(t) /\ Job(t).kind \in kinds /\ task[t].at = place

SettleKinds == {"settle", "retry", "final"}

Jobs_(kind, markets) ==
    [i \in DOMAIN markets |-> [kind |-> kind, market |-> markets[i]]]

Goto(t, place) == [task EXCEPT ![t].at = place]
Advance(t) == [task EXCEPT ![t] = [Resting EXCEPT !.todo = Tail(task[t].todo)]]

(* After a settlement that did not succeed, housekeeping goes on to void.  *)
AfterFailure(t) ==
    IF Job(t).kind = "final"
    THEN [task EXCEPT ![t].at = "voiding", ![t].index = 0]
    ELSE Advance(t)

(* openMarkets.findIndex, and splice(idx, 1), which does nothing when the  *)
(* list has become too short.                                              *)
IndexIn(list, m) == SelectInSeq(list, LAMBDA entry : entry = m)
Splice(list, i) == IF i \in DOMAIN list THEN RemoveAt(list, i) ELSE list

Pending == {m \in Markets : pending[m] # None}
Overdue_AnyAge(m) == pending[m] # None   \* mutant: the window is not waited for
Overdue(m) == pending[m] # None /\ time - pending[m] > GiveUp

(* Every change of the pending settlements is written to the file at once. *)
SetPending_Unsaved(m, value) ==   \* mutant: persisted only by stop()
    /\ pending' = [pending EXCEPT ![m] = value]
    /\ UNCHANGED saved
SetPending(m, value) ==
    /\ pending' = [pending EXCEPT ![m] = value]
    /\ saved' = pending'

(* enqueueSettlementRetry keeps the time of the first attempt, and gives   *)
(* the market up when that is too long ago.                                *)
EnqueuedAt_Due(m) ==   \* mutant: the time of the next attempt
    IF pending[m] = None THEN time + GiveUp ELSE pending[m]
EnqueuedAt_Refreshed(m) == time   \* mutant: not kept from the first attempt
EnqueuedAt(m) == IF pending[m] = None THEN time ELSE pending[m]

EnqueueSettlementRetry(m) ==
    /\ SetPending(m, IF time - EnqueuedAt(m) > GiveUp THEN None
                                                      ELSE EnqueuedAt(m))
    /\ firstPending' = [firstPending EXCEPT ![m] = IF @ = None THEN time ELSE @]

-----------------------------------------------------------------------------
(* Events of the feed, and the strategy's decision on them.                *)
MatchStarted(t, match) ==
    /\ Free(t)
    /\ match \notin seen \cup ended
    /\ seen' = seen \cup {match}
    /\ \E order \in SetToSeqs(match) :
          task' = [task EXCEPT ![t].todo = Jobs_("create", order)]
    /\ UNCHANGED <<promiseVars, openMarkets, pending, saved, ended, restarts,
                   firstPending>>

(* Every update with the final status is reported as the end of the match. *)
MatchEnded(t, match) ==
    /\ Free(t)
    /\ ended' = ended \cup {match}
    /\ LET mine == {i \in DOMAIN openMarkets : openMarkets[i] \in match}
       IN  \E order \in SetToSeqs(mine) :
              /\ \A i, j \in DOMAIN order : i < j => order[i] < order[j]
              /\ task' = [task EXCEPT ![t].todo = Jobs_("settle",
                             [i \in DOMAIN order |-> openMarkets[order[i]]])]
    /\ UNCHANGED <<promiseVars, openMarkets, pending, saved, seen, restarts,
                   firstPending>>

(* processPendingSettlements works through a copy of the entries that are  *)
(* due; housekeepPass through a copy of those past the give-up window.     *)
RetryTick(t) ==
    /\ Free(t)
    /\ \E due \in SUBSET Pending \ {{}} : \E order \in SetToSeqs(due) :
          task' = [task EXCEPT ![t].todo = Jobs_("retry", order)]
    /\ UNCHANGED <<promiseVars, openMarkets, pending, saved, feedVars,
                   firstPending>>

HousekeepTick(t) ==
    /\ Free(t)
    /\ LET stale == {m \in Markets : Overdue(m)}
       IN  /\ stale # {}
           /\ \E order \in SetToSeqs(stale) :
                 task' = [task EXCEPT ![t].todo = Jobs_("final", order)]
    /\ UNCHANGED <<promiseVars, openMarkets, pending, saved, feedVars,
                   firstPending>>

(* The process stops anywhere and is started again: loadPendingSettlements *)
(* reads the file and tracks its markets as open.                          *)
Restart ==
    /\ restarts < MaxRestarts
    /\ restarts' = restarts + 1
    /\ pending' = saved
    /\ \E order \in SetToSeqs({m \in Markets : saved[m] # None}) :
          openMarkets' = order
    /\ task' = [t \in Tasks |-> Resting]
    /\ seen' = {}
    /\ UNCHANGED <<promiseVars, saved, ended, firstPending>>

-----------------------------------------------------------------------------
(* createMarket sets the closing time and looks the account up; it tracks  *)
(* the market in any case, and sends the transaction unless the account    *)
(* was there.  A failed lookup is ignored.                                 *)
BeginCreate(t) ==
    /\ At(t, {"create"}, "ready")
    /\ task' = [task EXCEPT ![t].at = "looking",
                            ![t].closesAt = time + CloseDelay]
    /\ UNCHANGED <<promiseVars, openMarkets, pending, saved, feedVars,
                   firstPending>>

CreateMarket(t) ==
    /\ At(t, {"create"}, "looking")
    /\ openMarkets' = Append(openMarkets, Job(t).market)
    /\ \/ book[Job(t).market].stage # "none" /\ task' = Advance(t)
       \/ task' = Goto(t, "creating")
    /\ UNCHANGED <<promiseVars, pending, saved, feedVars, firstPending>>

CreateLands(t) ==
    /\ At(t, {"create"}, "creating")
    /\ Open(Job(t).market, task[t].closesAt)
    /\ task' = Advance(t)
    /\ UNCHANGED <<openMarkets, pending, saved, feedVars, firstPending>>

CreateFails(t) ==
    /\ At(t, {"create"}, "creating")
    /\ task' = Advance(t)
    /\ UNCHANGED <<promiseVars, openMarkets, pending, saved, feedVars,
                   firstPending>>

-----------------------------------------------------------------------------
(* settleMarket: the index found here is used after all its awaits.  The   *)
(* retry pass first tracks a market that is not tracked any more.          *)
BeginSettle(t) ==
    /\ At(t, SettleKinds, "ready")
    /\ LET m == Job(t).market
           lost == Job(t).kind = "retry" /\ IndexIn(openMarkets, m) = 0
           list == IF lost THEN Append(openMarkets, m) ELSE openMarkets
           idx == IndexIn(list, m)
       IN  /\ openMarkets' = list
           /\ task' = IF idx = 0
                      THEN AfterFailure(t)
                      ELSE [task EXCEPT ![t].at = "proving", ![t].index = idx]
    /\ UNCHANGED <<promiseVars, pending, saved, feedVars, firstPending>>

(* No proof, or no credentials for one: a result with the market's address *)
(* and without success, the only kind that is enqueued.                    *)
ProofFails(t) ==
    /\ At(t, SettleKinds, "proving")
    /\ EnqueueSettlementRetry(Job(t).market)
    /\ task' = AfterFailure(t)
    /\ UNCHANGED <<promiseVars, openMarkets, feedVars>>

ProofArrives(t) ==
    /\ At(t, SettleKinds, "proving")
    /\ task' = Goto(t, "building")
    /\ UNCHANGED <<promiseVars, openMarkets, pending, saved, feedVars,
                   firstPending>>

(* One transaction, or a resolve and a settle of which the first is left   *)
(* out when the receipt is there.                                          *)
BuildSettleTransactions(t) ==
    /\ At(t, SettleKinds, "building")
    /\ \/ task' = Goto(t, "bundled")
       \/ /\ book[Job(t).market].receipt
          /\ task' = Goto(t, "settling")
       \/ /\ ~book[Job(t).market].receipt
          /\ task' = Goto(t, "resolving")
    /\ UNCHANGED <<promiseVars, openMarkets, pending, saved, feedVars,
                   firstPending>>

(* What fails by an exception ends in the catch of executeAction: a build, *)
(* a transaction that is not accepted, one that reverts.                   *)
AttemptThrows(t) ==
    /\ \E place \in {"building", "bundled", "resolving", "settling"} :
          At(t, SettleKinds, place)
    /\ task' = AfterFailure(t)
    /\ UNCHANGED <<promiseVars, openMarkets, pending, saved, feedVars,
                   firstPending>>

(* What the transactions do on chain.  submitSignedTx reads the status of  *)
(* a confirmed transaction, so it returns only after one that was accepted *)
(* -- but it may also throw after one that was.                            *)
SettleTx_StatusUnread(m) ==   \* mutant: confirmed is taken for accepted
    IF book[m].stage = "open" /\ book[m].receipt
    THEN Decide(m, "settled")
    ELSE UNCHANGED promiseVars
SettleTx(m) == book[m].receipt /\ Decide(m, "settled")

BundleTx(m) ==
    /\ book[m].stage = "open" /\ ~book[m].receipt
    /\ book' = [book EXCEPT ![m].receipt = TRUE, ![m].stage = "settled",
                            ![m].decidedAt = time]
    /\ UNCHANGED time

(* The settlement succeeded: the market is dropped at the index found      *)
(* before, and the verification is attested.                               *)
Settled(t) ==
    /\ openMarkets' = Splice(openMarkets, task[t].index)
    /\ task' = [task EXCEPT ![t].at = "attesting", ![t].index = 0]

ThrowsAnyway(t) == task' = AfterFailure(t) /\ UNCHANGED openMarkets

BundleLands(t) ==
    /\ At(t, SettleKinds, "bundled")
    /\ BundleTx(Job(t).market)
    /\ Settled(t) \/ ThrowsAnyway(t)
    /\ UNCHANGED <<pending, saved, feedVars, firstPending>>

ResolveLands(t) ==
    /\ At(t, SettleKinds, "resolving")
    /\ Prove(Job(t).market)
    /\ task' \in {Goto(t, "settling"), AfterFailure(t)}
    /\ UNCHANGED <<openMarkets, pending, saved, feedVars, firstPending>>

SettleLands(t) ==
    /\ At(t, SettleKinds, "settling")
    /\ SettleTx(Job(t).market)
    /\ Settled(t) \/ ThrowsAnyway(t)
    /\ UNCHANGED <<pending, saved, feedVars, firstPending>>

(* attestVerification never throws; then executeAction forgets the retry,  *)
(* which housekeepPass does again after a pause.                           *)
Attest(t) ==
    /\ At(t, SettleKinds, "attesting")
    /\ SetPending(Job(t).market, None)
    /\ task' = IF Job(t).kind = "final" THEN Goto(t, "dropping") ELSE Advance(t)
    /\ UNCHANGED <<promiseVars, openMarkets, feedVars, firstPending>>

-----------------------------------------------------------------------------
(* voidMarket drops the market before it sends the transaction, and        *)
(* housekeepPass drops the retry whatever came of it.                      *)
BeginVoid(t) ==
    /\ At(t, {"final"}, "voiding")
    /\ LET idx == IndexIn(openMarkets, Job(t).market)
       IN  /\ openMarkets' = Splice(openMarkets, idx)
           /\ task' = Goto(t, IF idx = 0 THEN "dropping" ELSE "sendingVoid")
    /\ UNCHANGED <<promiseVars, pending, saved, feedVars, firstPending>>

VoidLands(t) ==
    /\ At(t, {"final"}, "sendingVoid")
    /\ Void(Job(t).market)
    /\ task' = Goto(t, "dropping")
    /\ UNCHANGED <<openMarkets, pending, saved, feedVars, firstPending>>

VoidFails(t) ==
    /\ At(t, {"final"}, "sendingVoid")
    /\ task' = Goto(t, "dropping")
    /\ UNCHANGED <<promiseVars, openMarkets, pending, saved, feedVars,
                   firstPending>>

DropPending(t) ==
    /\ At(t, {"final"}, "dropping")
    /\ SetPending(Job(t).market, None)
    /\ task' = Advance(t)
    /\ UNCHANGED <<promiseVars, openMarkets, feedVars, firstPending>>

-----------------------------------------------------------------------------
TaskStep(t) ==
    \/ BeginCreate(t)
    \/ CreateMarket(t)
    \/ CreateLands(t)
    \/ CreateFails(t)
    \/ BeginSettle(t)
    \/ ProofFails(t)
    \/ ProofArrives(t)
    \/ BuildSettleTransactions(t)
    \/ AttemptThrows(t)
    \/ BundleLands(t)
    \/ ResolveLands(t)
    \/ SettleLands(t)
    \/ Attest(t)
    \/ BeginVoid(t)
    \/ VoidLands(t)
    \/ VoidFails(t)
    \/ DropPending(t)

(* Time, and everyone else who uses the programs.  The claims window is so *)
(* much longer than the retry window that no market is closed meanwhile.   *)
PassStep == Pass /\ UNCHANGED <<keeperVars, feedVars, firstPending>>

OthersStep ==
    /\ \E m \in Markets :
          \/ \E c \in CloseTimes : Open(m, c)
          \/ Prove(m)
          \/ Decide(m, "settled")
          \/ Void(m)
    /\ UNCHANGED <<keeperVars, feedVars, firstPending>>

KeeperNext ==
    \/ PassStep
    \/ OthersStep
    \/ Restart
    \/ \E t \in RetryTasks : RetryTick(t)
    \/ \E t \in HouseTasks : HousekeepTick(t)
    \/ \E t \in EventTasks, match \in Matches :
          MatchStarted(t, match) \/ MatchEnded(t, match)
    \/ \E t \in Tasks : TaskStep(t)

KeeperSpec == KeeperInit /\ [][KeeperNext]_vars

(* Every await returns, and setInterval starts a pass again and again; the *)
(* feed and everyone else owe nothing.                                     *)
FairKeeper ==
    /\ KeeperSpec
    /\ WF_vars(PassStep)
    /\ \A t \in Tasks : WF_vars(TaskStep(t))
    /\ \A t \in RetryTasks : WF_vars(RetryTick(t))
    /\ \A t \in HouseTasks : WF_vars(HousekeepTick(t))

-----------------------------------------------------------------------------
TypeOK ==
    /\ time \in 0..MaxClock
    /\ book \in [Markets -> Entry]
    /\ openMarkets \in Seq(Markets)
    /\ {pending, saved, firstPending}
          \subseteq [Markets -> 0..MaxClock \cup {None}]
    /\ task \in [Tasks -> [todo: Seq(Jobs), at: Places, index: Nat, closesAt: Nat]]
    /\ seen \subseteq Matches /\ ended \subseteq Matches
    /\ restarts \in 0..MaxRestarts

(* submitSignedTx: the keeper takes a market for settled, and forgets its  *)
(* retry, only when the chain has it as settled: not when its transaction  *)
(* was confirmed and reverted, because another settlement, a void or a     *)
(* housekeeping pass came first.                                           *)
SuccessIsReal ==
    \A t \in Tasks : At(t, SettleKinds, "attesting") =>
        book[Job(t).market].stage = "settled"

(* The keeper voids no market before its window for proofs is over, also   *)
(* when the retry was dropped and enqueued again during the pass, or the   *)
(* process was restarted.                                                  *)
VoidWaitsForProof ==
    \A t \in Tasks : At(t, {"final"}, "sendingVoid") =>
        /\ firstPending[Job(t).market] # None
        /\ time - firstPending[Job(t).market] > GiveUp

(* A restart loses no pending settlement.                                  *)
RestartKeepsPending ==
    [][restarts' # restarts => pending' = pending]_vars

(* No settlement stays pending for ever: a proof, the retry's or the       *)
(* housekeeper's deadline ends it.  (Within the modelled time: it has to   *)
(* become overdue before the clock stops.)                                 *)
PendingDrains ==
    \A m \in Markets :
        (pending[m] # None /\ pending[m] + GiveUp < MaxClock)
            ~> pending[m] = None

=============================================================================
