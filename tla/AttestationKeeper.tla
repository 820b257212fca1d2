-------------------------- MODULE AttestationKeeper --------------------------
(***************************************************************************)
(* The attestation keeper (apps/agent/src/attestationKeeper.ts) for one    *)
(* sports event: it creates the market, polls a public source until the    *)
(* match is finished, signs what it observed and settles with that.  It    *)
(* exits after that or on any error, and PM2 starts it again; nothing but  *)
(* the chain survives.  The source may still move the kickoff of a match   *)
(* that has not begun.  A final status always comes with the score.        *)
(***************************************************************************)
EXTENDS MarketPromise, Validators, FiniteSets

CONSTANTS
    Event,       \* the market of the event and the line, the only one
    Line,        \* the goal line of the predicate
    MaxGoals,    \* bound on the total of goals
    Kickoffs,    \* kickoff times the source may report
    ReferenceOffset, Window,  \* REFERENCE_OFFSET_SECONDS, WINDOW_SECONDS
    MaxFaults    \* bound on failures and lost answers

VARIABLES
    source,   \* what the source reports: kickoff, finished, goals
    config,   \* the attestor pinned by the validator's Config account
    at,       \* where the keeper is
    event,    \* the event as the keeper has read it
    deadline, \* when it stops polling
    obsTs,    \* the time of the observation it has signed
    verdict,  \* history: the outcome its settlement claimed, or None
    faults

keeperVars == <<at, event, deadline, obsTs>>
vars == <<promiseVars, source, config, keeperVars, verdict, faults>>

Report == [kickoff: Kickoffs, finished: BOOLEAN, goals: 0..MaxGoals]

ASSUME AttestationAssumption ==
    /\ Markets = {Event}
    /\ {Line, MaxGoals, ReferenceOffset, Window, MaxFaults} \subseteq Nat
    /\ Kickoffs \subseteq Nat
    /\ None \notin Report

Init ==
    /\ PromiseInit
    /\ source \in {r \in Report : r.kickoff > 0 /\ ~r.finished /\ r.goals = 0}
    /\ config = None
    /\ at = "down" /\ event = None /\ deadline = 0 /\ obsTs = 0
    /\ verdict = None /\ faults = 0

-----------------------------------------------------------------------------
(* The match, and everyone else who uses the programs.  Only the attestor  *)
(* can sign, so others can at most take the receipt with another oracle,   *)
(* settle by authority, or void.                                           *)
Begun == time >= source.kickoff

MatchGoesOn ==
    /\ \/ /\ ~Begun
          /\ \E k \in Kickoffs : k > time /\ source' = [source EXCEPT !.kickoff = k]
       \/ /\ Begun /\ ~source.finished /\ source.goals < MaxGoals
          /\ source' = [source EXCEPT !.goals = @ + 1]
       \/ /\ Begun /\ ~source.finished /\ time > source.kickoff
          /\ source' = [source EXCEPT !.finished = TRUE]
    /\ UNCHANGED <<promiseVars, config, keeperVars, verdict, faults>>

OthersAct ==
    /\ Pass \/ Prove(Event) \/ Decide(Event, "settled") \/ Void(Event)
    /\ UNCHANGED <<source, config, keeperVars, verdict, faults>>

-----------------------------------------------------------------------------
Goto(place) == at' = place /\ UNCHANGED <<event, deadline, obsTs>>
Exits == at' = "down" /\ event' = None /\ deadline' = 0 /\ obsTs' = 0

OnChain == UNCHANGED <<promiseVars, source, verdict, faults>>

Start ==
    /\ at = "down"
    /\ Goto("starting")
    /\ OnChain /\ UNCHANGED config

(* ensureAttestationConfig: the account is the attestor's own.             *)
EnsureConfig ==
    /\ at = "starting"
    /\ config' = "attestor"
    /\ Goto("fetching")
    /\ OnChain

(* An answer without the event is an error (Crash).                        *)
Fetched_Unchecked == None   \* mutant: no test for an empty answer
Fetched == source

FetchEvent ==
    /\ at = "fetching"
    /\ at' = "looking"
    /\ event' = Fetched
    /\ deadline' = source.kickoff + ReferenceOffset + Window
    /\ OnChain /\ UNCHANGED <<config, obsTs>>

(* A market that is decided leaves nothing to do; one that is missing is   *)
(* created, unless the match has begun.                                    *)
LookedUp_BegunFirst ==   \* mutant: the kickoff is checked in any case
    IF event.kickoff <= time THEN "down"
    ELSE IF book[Event].stage = "none" THEN "creating" ELSE "polling"
LookedUp ==
    IF book[Event].stage \in Decided THEN "down"
    ELSE IF book[Event].stage = "open" THEN "polling"
    ELSE IF event.kickoff <= time THEN "down"
    ELSE "creating"

Look ==
    /\ at = "looking"
    /\ IF LookedUp = "down" THEN Exits ELSE Goto(LookedUp)
    /\ OnChain /\ UNCHANGED config

(* The chain refuses a closing time that has passed meanwhile.             *)
CreateMarket ==
    /\ at = "creating"
    /\ \/ Open(Event, event.kickoff) /\ Goto("polling")
       \/ event.kickoff <= time /\ Exits /\ UNCHANGED promiseVars
    /\ UNCHANGED <<source, config, verdict, faults>>

(* The poll: the observation is as old as the moment it is signed, not as  *)
(* the moment the match ended.                                             *)
Final_Any(e) == TRUE   \* mutant: the status is not read
Final(e) == e.finished

PollAgain ==
    /\ at = "polling" /\ ~Final(event) /\ time <= deadline
    /\ Goto("sleeping")
    /\ OnChain /\ UNCHANGED config

(* A poll that fails is tried again.                                       *)
Polled ==
    /\ at = "sleeping"
    /\ at' = "polling" /\ event' \in {event, source}
    /\ OnChain /\ UNCHANGED <<config, deadline, obsTs>>

PollExpires ==
    /\ at = "polling" /\ ~Final(event) /\ time > deadline
    /\ Exits
    /\ OnChain /\ UNCHANGED config

Sign ==
    /\ at = "polling" /\ Final(event)
    /\ at' = "sending" /\ obsTs' = time
    /\ OnChain /\ UNCHANGED <<config, event, deadline>>

-----------------------------------------------------------------------------
Outcome == Answer(event.goals > Line)

ReferenceTs_Kickoff == event.kickoff   \* mutant: no offset to full time
ReferenceTs == event.kickoff + ReferenceOffset

OracleAnswer ==
    LET observation == [value |-> event.goals, obsTs |-> obsTs]
    IN  ValidateAttestation(config,
            [signer |-> "attestor", message |-> observation], observation,
            [threshold |-> Line + 1, referenceTs |-> ReferenceTs,
             window |-> Window, op |-> OP_GTE])

BundleAccepted ==
    /\ book[Event].stage = "open" /\ ~book[Event].receipt
    /\ ProofAccepted(OracleAnswer, Outcome)

SettleBundle ==
    /\ BundleAccepted
    /\ book' = [book EXCEPT ![Event].receipt = TRUE, ![Event].stage = "settled",
                            ![Event].decidedAt = time]
    /\ verdict' = Outcome
    /\ UNCHANGED <<time, source, config>>

(* A bundle that reverts is an error, which ends the process as well.      *)
SendBundle ==
    /\ at = "sending"
    /\ \/ SettleBundle
       \/ ~BundleAccepted /\ UNCHANGED <<promiseVars, source, config, verdict>>
    /\ Exits
    /\ UNCHANGED faults

(* A request or a transaction fails, or the process is stopped.            *)
Crash ==
    /\ at # "down" /\ faults < MaxFaults
    /\ faults' = faults + 1
    /\ Exits
    /\ UNCHANGED <<promiseVars, source, config, verdict>>

KeeperStep ==
    \/ Start
    \/ EnsureConfig
    \/ FetchEvent
    \/ Look
    \/ CreateMarket
    \/ PollAgain
    \/ Polled
    \/ PollExpires
    \/ Sign
    \/ SendBundle

Next == KeeperStep \/ Crash \/ MatchGoesOn \/ OthersAct

Spec == Init /\ [][Next]_vars

(* PM2 starts the keeper again and again, its calls return, and time goes  *)
(* on; what the source reports is read in the end.                         *)
FairSpec ==
    /\ Spec
    /\ WF_vars(KeeperStep)
    /\ SF_vars(Polled /\ event' = source)
    /\ WF_vars(Pass /\ UNCHANGED <<source, config, keeperVars, verdict, faults>>)

-----------------------------------------------------------------------------
TypeOK ==
    /\ time \in 0..MaxClock
    /\ book \in [Markets -> Entry]
    /\ source \in Report
    /\ config \in {"attestor", None}
    /\ at \in {"down", "starting", "fetching", "looking", "creating",
               "polling", "sleeping", "sending"}
    /\ event \in Report \cup {None}
    /\ at \in {"looking", "creating", "polling", "sleeping", "sending"}
          => event # None
    /\ obsTs \in 0..MaxClock
    /\ verdict \in Answers \cup {None}

(* What the keeper settles is what the match ended with, although the      *)
(* score it read is older than the transaction, the process may have been  *)
(* started anew and the kickoff moved (attestationKeeper.ts, the poll and  *)
(* the claim).                                                             *)
SettlesTheResult ==
    verdict # None =>
        source.finished /\ verdict = Answer(source.goals > Line)

(* No observation settles a market before the earliest full time of the    *)
(* match as it was played, wherever its kickoff was when the market was    *)
(* created (attestationKeeper.ts, REFERENCE_OFFSET_SECONDS).               *)
NotBeforeFullTime ==
    verdict # None =>
        book[Event].decidedAt >= source.kickoff + ReferenceOffset

(* A finished match is settled while its window is open, or its market is  *)
(* decided or its receipt taken by others: a keeper that is early, stopped *)
(* or rejected comes back and settles (attestationKeeper.ts, the look-up   *)
(* before the creation, and PM2's autorestart).  The clock of the model    *)
(* stops; the window of the matches looked at is open until then.          *)
EventuallySettled ==
    (/\ source.finished /\ book[Event].stage = "open"
     /\ source.kickoff + ReferenceOffset + Window >= MaxClock)
    ~> (book[Event].stage # "open" \/ book[Event].receipt)

=============================================================================
