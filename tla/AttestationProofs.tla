-------------------------- MODULE AttestationProofs --------------------------
(***************************************************************************)
(* What the attestation keeper settles, for every line, every score, every *)
(* set of kickoff times and any number of crashes.                         *)
(***************************************************************************)
EXTENDS AttestationKeeper, TLAPS

(* The source does not change its report of a finished match, and a final  *)
(* event in the keeper's memory is that report.                            *)
FinishedHasBegun == source.finished => time >= source.kickoff
FinalIsLast == event # None /\ event.finished => event = source

(* What is about to be sent was read as final, and signed before now.      *)
Signed ==
    /\ obsTs <= time
    /\ at = "sending" => event.finished

(* A market the keeper has settled stays decided, at the time it was.      *)
VerdictStands == verdict # None => book[Event].stage \in Decided

KeeperInv ==
    /\ TypeOK
    /\ FinishedHasBegun
    /\ FinalIsLast
    /\ Signed
    /\ VerdictStands
    /\ SettlesTheResult
    /\ NotBeforeFullTime

USE AttestationAssumption, PromiseAssumption

LEMMA EventIsMarket == Event \in Markets
OBVIOUS

(* The times are numbers.                                                  *)
LEMMA Numbers ==
    ASSUME TypeOK
    PROVE  /\ time \in Nat /\ obsTs \in Nat
           /\ \A r \in Report : r.kickoff \in Nat
           /\ source \in Report
<1>1. MaxClock \in Nat
  OBVIOUS
<1>2. time \in Nat /\ obsTs \in Nat
  BY <1>1 DEF TypeOK
<1> QED
  BY <1>2 DEF TypeOK, Report

-----------------------------------------------------------------------------
(* What others, time and a creation may do to the entry of the market: a   *)
(* verdict stays and so does its time.                                     *)
EntryStep ==
    /\ time' \in 0..MaxClock /\ time' >= time
    /\ book' \in [Markets -> Entry]
    /\ book[Event].stage \in Decided =>
          book'[Event].stage \in Decided
             /\ book'[Event].decidedAt = book[Event].decidedAt

LEMMA SameEntry == ASSUME TypeOK, UNCHANGED promiseVars PROVE EntryStep
BY DEF promiseVars, EntryStep, TypeOK

LEMMA OpenEntry ==
    ASSUME TypeOK, NEW c \in Nat, Open(Event, c)
    PROVE  EntryStep
<1>1. [book[Event] EXCEPT !.stage = "open", !.closesAt = c] \in Entry
  BY EventIsMarket DEF TypeOK, Entry, Stages
<1>2. book' = [book EXCEPT ![Event] =
                  [book[Event] EXCEPT !.stage = "open", !.closesAt = c]]
  BY EventIsMarket DEF Open, TypeOK
<1> QED
  BY <1>1, <1>2, EventIsMarket DEF Open, TypeOK, EntryStep, Decided

LEMMA OthersEntry == ASSUME TypeOK, OthersAct PROVE EntryStep
<1>1. CASE Pass
  BY <1>1 DEF Pass, TypeOK, EntryStep
<1>2. CASE Prove(Event)
  <2>1. [book[Event] EXCEPT !.receipt = TRUE] \in Entry
    BY EventIsMarket DEF TypeOK, Entry
  <2>2. book' = [book EXCEPT ![Event] = [book[Event] EXCEPT !.receipt = TRUE]]
    BY <1>2, EventIsMarket DEF Prove, TypeOK
  <2> QED
    BY <1>2, <2>1, <2>2, EventIsMarket DEF Prove, TypeOK, EntryStep, Entry
<1>3. ASSUME NEW v \in Decided, Decide(Event, v) PROVE EntryStep
  <2>1. [book[Event] EXCEPT !.stage = v, !.decidedAt = time] \in Entry
    BY Numbers, EventIsMarket DEF TypeOK, Entry, Stages
  <2>2. book' = [book EXCEPT ![Event] =
                    [book[Event] EXCEPT !.stage = v, !.decidedAt = time]]
    BY <1>3, EventIsMarket DEF Decide, TypeOK
  <2>3. book[Event].stage = "open"
    BY <1>3 DEF Decide
  <2> QED
    BY <1>3, <2>1, <2>2, <2>3 DEF Decide, TypeOK, EntryStep, Decided
<1>4. "settled" \in Decided /\ "void" \in Decided
  BY DEF Decided
<1> QED
  BY <1>1, <1>2, <1>3, <1>4 DEF OthersAct, Void

-----------------------------------------------------------------------------
(* A step that leaves source and verdict alone keeps what is said of the   *)
(* verdict.                                                                *)
LEMMA VerdictKept ==
    ASSUME KeeperInv, EntryStep, UNCHANGED <<source, verdict>>
    PROVE  /\ FinishedHasBegun' /\ VerdictStands'
           /\ SettlesTheResult' /\ NotBeforeFullTime'
<1>1. source.kickoff \in Nat /\ time \in Nat /\ time' \in Nat
  <2>1. MaxClock \in Nat /\ time' \in 0..MaxClock
    BY DEF EntryStep
  <2> QED
    BY <2>1, Numbers DEF KeeperInv
<1>2. FinishedHasBegun'
  BY <1>1 DEF KeeperInv, FinishedHasBegun, EntryStep
<1>3. VerdictStands' /\ SettlesTheResult' /\ NotBeforeFullTime'
  BY DEF KeeperInv, VerdictStands, SettlesTheResult, NotBeforeFullTime, EntryStep
<1> QED
  BY <1>2, <1>3

(* The match goes on only until it is finished, so a final event is still  *)
(* the last report and a verdict still the result.                         *)
LEMMA MatchKeeps == ASSUME KeeperInv, MatchGoesOn PROVE KeeperInv'
<1>1. ~source.finished
  BY DEF MatchGoesOn, Begun, KeeperInv, FinishedHasBegun
<1>2. verdict = None /\ ~(event # None /\ event.finished)
  BY <1>1 DEF KeeperInv, SettlesTheResult, FinalIsLast
<1>3. source' \in Report /\ (source'.finished => time >= source'.kickoff)
  <2>1. source \in Report /\ time \in Nat /\ source.kickoff \in Nat
    BY Numbers DEF KeeperInv
  <2>2. CASE \E k \in Kickoffs : source' = [source EXCEPT !.kickoff = k]
    BY <1>1, <2>1, <2>2 DEF Report
  <2>3. CASE source.goals < MaxGoals /\ source' = [source EXCEPT !.goals = @ + 1]
    BY <1>1, <2>1, <2>3 DEF Report
  <2>4. CASE time > source.kickoff /\ source' = [source EXCEPT !.finished = TRUE]
    <3>1. source' \in Report
      BY <2>1, <2>4 DEF Report
    <3>2. source'.kickoff = source.kickoff
      BY <2>1, <2>4 DEF Report
    <3> QED
      BY <2>1, <2>4, <3>1, <3>2
  <2> QED
    BY <2>2, <2>3, <2>4 DEF MatchGoesOn
<1>4. UNCHANGED <<time, book, config, at, event, deadline, obsTs, verdict>>
  BY DEF MatchGoesOn, promiseVars, keeperVars
<1>5. TypeOK'
  BY <1>3, <1>4 DEF KeeperInv, TypeOK
<1> QED
  BY <1>2, <1>3, <1>4, <1>5
     DEF KeeperInv, FinishedHasBegun, FinalIsLast, Signed, VerdictStands,
         SettlesTheResult, NotBeforeFullTime

LEMMA OthersKeep == ASSUME KeeperInv, OthersAct PROVE KeeperInv'
<1>1. EntryStep
  BY OthersEntry DEF KeeperInv
<1>2. UNCHANGED <<source, config, at, event, deadline, obsTs, verdict>>
  BY DEF OthersAct, keeperVars
<1>3. TypeOK'
  BY <1>1, <1>2 DEF KeeperInv, TypeOK, EntryStep
<1>4. FinalIsLast' /\ Signed'
  BY <1>1, <1>2 DEF KeeperInv, TypeOK, FinalIsLast, Signed, EntryStep
<1> QED
  BY <1>1, <1>2, <1>3, <1>4, VerdictKept DEF KeeperInv

-----------------------------------------------------------------------------
(* Steps of the keeper that change nothing on the chain.                   *)
LEMMA QuietKeeps ==
    ASSUME KeeperInv, UNCHANGED <<promiseVars, source, verdict>>,
           TypeOK', FinalIsLast', Signed'
    PROVE  KeeperInv'
<1>1. EntryStep
  BY SameEntry DEF KeeperInv
<1> QED
  BY <1>1, VerdictKept DEF KeeperInv

LEMMA ExitKeeps ==
    ASSUME KeeperInv, EntryStep, config' = config, verdict' \in Answers \cup {None},
           source' = source, Exits
    PROVE  TypeOK' /\ FinalIsLast' /\ Signed'
BY DEF KeeperInv, TypeOK, EntryStep, Exits, FinalIsLast, Signed

(* The settlement: the oracle has accepted the observation, so it was made *)
(* in the window, and it is what the finished match ended with.            *)
LEMMA SettleKeeps ==
    ASSUME KeeperInv, at = "sending", SettleBundle, Exits
    PROVE  KeeperInv'
<1>1. event \in Report /\ event.finished /\ event = source
  BY DEF KeeperInv, TypeOK, Signed, FinalIsLast
<1>2. obsTs >= event.kickoff + ReferenceOffset
  BY DEF SettleBundle, BundleAccepted, ProofAccepted, OracleAnswer,
         ValidateAttestation, WithinWindow, ReferenceTs, Answers
<1>3. Outcome \in Answers
  BY DEF SettleBundle, BundleAccepted, ProofAccepted
<1>4. [book[Event] EXCEPT !.receipt = TRUE, !.stage = "settled",
                          !.decidedAt = time] \in Entry
  BY Numbers, EventIsMarket DEF KeeperInv, TypeOK, Entry, Stages, Decided
<1>5. book' = [book EXCEPT ![Event] =
                  [book[Event] EXCEPT !.receipt = TRUE, !.stage = "settled",
                                      !.decidedAt = time]]
  BY EventIsMarket DEF SettleBundle, KeeperInv, TypeOK
<1>6. /\ book'[Event].stage = "settled" /\ book'[Event].decidedAt = time
      /\ book' \in [Markets -> Entry]
  BY <1>4, <1>5, EventIsMarket DEF KeeperInv, TypeOK, Entry
<1>7. EntryStep
  <2>1. book[Event].stage \notin Decided
    BY DEF SettleBundle, BundleAccepted, Decided
  <2>2. time' = time /\ time \in 0..MaxClock
    BY DEF SettleBundle, KeeperInv, TypeOK
  <2> QED
    BY <1>6, <2>1, <2>2, Numbers DEF EntryStep, KeeperInv
<1>8. TypeOK' /\ FinalIsLast' /\ Signed'
  BY <1>3, <1>7, ExitKeeps DEF SettleBundle
<1>9. FinishedHasBegun'
  BY DEF KeeperInv, FinishedHasBegun, SettleBundle
<1>10. VerdictStands'
  BY <1>6 DEF VerdictStands, Decided
<1>11. SettlesTheResult'
  BY <1>1 DEF SettleBundle, SettlesTheResult, Outcome
<1>12. NotBeforeFullTime'
  <2>1. obsTs <= time /\ obsTs \in Nat /\ time \in Nat /\ event.kickoff \in Nat
    BY <1>1, Numbers DEF KeeperInv, Signed
  <2>2. source'.kickoff = event.kickoff
    BY <1>1 DEF SettleBundle
  <2> QED
    BY <1>2, <1>6, <2>1, <2>2 DEF NotBeforeFullTime
<1> QED
  BY <1>8, <1>9, <1>10, <1>11, <1>12 DEF KeeperInv

LEMMA StepKeeps == ASSUME KeeperInv, KeeperStep PROVE KeeperInv'
<1> USE DEF KeeperInv
<1>0. ASSUME Exits, UNCHANGED <<promiseVars, source, config, verdict>>
      PROVE  KeeperInv'
  BY <1>0, SameEntry, ExitKeeps, QuietKeeps DEF TypeOK
<1>1. CASE Start
  BY <1>1, QuietKeeps
     DEF Start, Goto, OnChain, promiseVars, TypeOK, FinalIsLast, Signed
<1>2. CASE EnsureConfig
  BY <1>2, QuietKeeps
     DEF EnsureConfig, Goto, OnChain, promiseVars, TypeOK, FinalIsLast, Signed
<1>3. CASE FetchEvent
  BY <1>3, QuietKeeps
     DEF FetchEvent, Fetched, OnChain, promiseVars, TypeOK, FinalIsLast, Signed
<1>4. CASE Look
  <2>1. CASE LookedUp = "down"
    BY <1>0, <1>4, <2>1 DEF Look, OnChain
  <2>2. CASE LookedUp # "down"
    <3>1. at' \in {"polling", "creating"}
      BY <1>4, <2>2 DEF Look, LookedUp, Goto
    <3> QED
      BY <1>4, <2>2, <3>1, QuietKeeps
         DEF Look, Goto, OnChain, promiseVars, TypeOK, FinalIsLast, Signed
  <2> QED
    BY <2>1, <2>2
<1>5. CASE CreateMarket
  <2>1. CASE Open(Event, event.kickoff) /\ Goto("polling")
    <3>1. event.kickoff \in Nat
      BY <1>5 DEF CreateMarket, TypeOK, Report
    <3>2. EntryStep
      BY <2>1, <3>1, OpenEntry
    <3>3. TypeOK' /\ FinalIsLast' /\ Signed'
      BY <1>5, <2>1, <3>2
         DEF CreateMarket, Goto, Open, TypeOK, FinalIsLast, Signed, EntryStep
    <3> QED
      BY <1>5, <3>2, <3>3, VerdictKept DEF CreateMarket
  <2>2. CASE Exits /\ UNCHANGED promiseVars
    BY <1>0, <1>5, <2>2 DEF CreateMarket
  <2> QED
    BY <1>5, <2>1, <2>2 DEF CreateMarket
<1>6. CASE PollAgain
  BY <1>6, QuietKeeps
     DEF PollAgain, Goto, OnChain, promiseVars, TypeOK, FinalIsLast, Signed
<1>7. CASE Polled
  BY <1>7, QuietKeeps
     DEF Polled, OnChain, promiseVars, TypeOK, FinalIsLast, Signed
<1>8. CASE PollExpires
  BY <1>0, <1>8 DEF PollExpires, OnChain
<1>9. CASE Sign
  BY <1>9, QuietKeeps
     DEF Sign, Final, OnChain, promiseVars, TypeOK, FinalIsLast, Signed
<1>10. CASE SendBundle
  BY <1>0, <1>10, SettleKeeps DEF SendBundle
<1> QED
  BY <1>1, <1>2, <1>3, <1>4, <1>5, <1>6, <1>7, <1>8, <1>9, <1>10
     DEF KeeperStep

LEMMA CrashKeeps == ASSUME KeeperInv, Crash PROVE KeeperInv'
<1>1. EntryStep
  BY SameEntry DEF Crash, KeeperInv
<1>2. TypeOK' /\ FinalIsLast' /\ Signed'
  BY <1>1, ExitKeeps DEF Crash, KeeperInv, TypeOK
<1> QED
  BY <1>2, QuietKeeps DEF Crash

-----------------------------------------------------------------------------
LEMMA KeeperInvAlways == Spec => []KeeperInv
<1>1. Init => KeeperInv
  BY EventIsMarket
     DEF Init, PromiseInit, NoMarket, KeeperInv, TypeOK, Entry, Stages,
         FinishedHasBegun, FinalIsLast, Signed, VerdictStands,
         SettlesTheResult, NotBeforeFullTime
<1>2. KeeperInv /\ [Next]_vars => KeeperInv'
  <2> SUFFICES ASSUME KeeperInv, [Next]_vars PROVE KeeperInv'
    OBVIOUS
  <2>1. CASE UNCHANGED vars
    BY <2>1, QuietKeeps
       DEF vars, promiseVars, keeperVars, KeeperInv, TypeOK, FinalIsLast, Signed
  <2> QED
    BY <2>1, MatchKeeps, OthersKeep, StepKeeps, CrashKeeps DEF Next
<1> QED
  BY <1>1, <1>2, PTL DEF Spec

(* Wherever the keeper is, it has read the event it works on, and no       *)
(* answer without one (attestationKeeper.ts, the look-up of the event).    *)
THEOREM KeeperTyped == Spec => []TypeOK
<1>1. KeeperInv => TypeOK
  BY DEF KeeperInv
<1> QED
  BY <1>1, KeeperInvAlways, PTL

(* What the keeper settles is what the match ended with, for any scores,   *)
(* kickoff times and crashes (attestationKeeper.ts, the poll, the claim).  *)
THEOREM ResultIsSettled == Spec => []SettlesTheResult
<1>1. KeeperInv => SettlesTheResult
  BY DEF KeeperInv
<1> QED
  BY <1>1, KeeperInvAlways, PTL

(* No observation settles the market before the earliest full time of the  *)
(* match as it was played (attestationKeeper.ts, REFERENCE_OFFSET_SECONDS).*)
THEOREM FullTimeFirst == Spec => []NotBeforeFullTime
<1>1. KeeperInv => NotBeforeFullTime
  BY DEF KeeperInv
<1> QED
  BY <1>1, KeeperInvAlways, PTL

=============================================================================
