------------------------------ MODULE WeekProofs ------------------------------
(***************************************************************************)
(* The weekly keeper, for any weeks, prices, modes and numbers of          *)
(* restarts: one line a week, unless a step failed.                        *)
(***************************************************************************)
EXTENDS WeekKeeper, PriceMarketsProofs

(* Runs of the loop whose evidence is in E: what an observation holds does *)
(* not matter here.                                                        *)
RunsWith(E) == [at: Places, now: 0..MaxClock, todo: SUBSET Markets,
                market: Markets \cup {None}, evidence: E]

RunShaped == run \in RunsWith({run.evidence})

AtRest == {"recovering", "checking", "passing"}

(* An open market is tracked or lost, but before the scan, and the one     *)
(* whose void is under way.                                                *)
EachOpenIsKnown ==
    \A n \in Markets : book[n].stage = "open" =>
        \/ n \in tracked \/ n \in lost
        \/ run.at = "recovering"
        \/ run.at = "voiding" /\ run.market = n

(* While a market is created, nothing is tracked: whatever is open then    *)
(* was lost.                                                               *)
AloneAtCreation ==
    run.at = "creating" =>
        /\ book[run.market].stage = "none"
        /\ \A n \in Markets : book[n].stage = "open" => n \in lost

WeekInv ==
    /\ TypeOK
    /\ mode \in Modes
    /\ RunShaped
    /\ run.market = None <=> run.at \in AtRest
    /\ EachOpenIsKnown
    /\ AloneAtCreation

-----------------------------------------------------------------------------
(* The local variables of the loop.                                        *)
LEMMA RunIs ==
    ASSUME WeekInv
    PROVE  /\ TypeOK /\ BookFits /\ run \in RunsWith({run.evidence})
           /\ run.todo \in SUBSET Markets /\ run.at \in Places
           /\ run.now \in 0..MaxClock /\ run.market \in Markets \cup {None}
           /\ run.at \notin AtRest => run.market \in Markets
           /\ run.at \in AtRest => run.market = None
<1>1. BookFits
  BY PromiseAssumption DEF WeekInv, TypeOK, BookFits
<1> QED
  BY <1>1 DEF WeekInv, RunShaped, RunsWith, TypeOK

LEMMA HandledIs ==
    ASSUME WeekInv, NEW m
    PROVE  /\ Handled(m) \in RunsWith({run.evidence})
           /\ Handled(m).at = run.at /\ Handled(m).market = run.market
<1>1. run.todo \ {m} \in SUBSET Markets
  BY RunIs
<1>2. Handled(m) = [run EXCEPT !.todo = run.todo \ {m}]
  BY DEF Handled
<1>3. run \in RunsWith({run.evidence}) /\ run.at \in Places
  BY RunIs
<1> QED
  BY <1>1, <1>2, <1>3 DEF RunsWith

LEMMA IdleIs ==
    ASSUME NEW a \in Places
    PROVE  /\ Idle(a) \in RunsWith({None}) /\ Idle(a).at = a
           /\ Idle(a).todo = {} /\ Idle(a).market = None
<1>1. 0 \in 0..MaxClock
  BY PromiseAssumption
<1> QED
  BY <1>1 DEF Idle, RunsWith

Passing(r) ==
    r \in RunsWith({run.evidence, None}) /\ r.at = "passing" /\ r.market = None

LEMMA DoneIs ==
    ASSUME NEW r \in RunsWith({run.evidence})
    PROVE  Passing(Done(r)) /\ Passing(Thrown(r))
<1>1. ASSUME NEW q \in RunsWith({run.evidence}) PROVE Passing(Done(q))
  <2>1. "passing" \in Places /\ 0 \in 0..MaxClock /\ q.now \in 0..MaxClock
    BY PromiseAssumption DEF Places, RunsWith
  <2> QED
    BY <2>1 DEF Done, RunsWith, Passing
<1>2. [r EXCEPT !.todo = {}] \in RunsWith({run.evidence})
  BY DEF RunsWith
<1>3. Passing(Done([r EXCEPT !.todo = {}]))
  BY <1>1, <1>2
<1>4. Passing(Done(r))
  BY <1>1
<1> QED
  BY <1>3, <1>4 DEF Thrown

LEMMA PassIs ==
    ASSUME NEW t \in 0..MaxClock, NEW S \in SUBSET Markets
    PROVE  Passing(SettlePass(t, S))
<1> DEFINE due == {m \in S : t >= m.window}
<1>1. "passing" \in Places
  BY DEF Places
<1>2. /\ Idle("passing") \in RunsWith({None}) /\ Idle("passing").at = "passing"
      /\ Idle("passing").market = None
  BY <1>1, IdleIs
<1>3. due \in SUBSET Markets
  OBVIOUS
<1>4. SettlePass(t, S) = [Idle("passing") EXCEPT !.now = t, !.todo = due]
  BY DEF SettlePass
<1> HIDE DEF due
<1> QED
  BY <1>2, <1>3, <1>4 DEF RunsWith, Passing

-----------------------------------------------------------------------------
(* The invariant after a step, and after one of the loop's own.            *)
LEMMA StepFits ==
    ASSUME WeekInv, NEW E, NEW r \in RunsWith(E), run' = r,
           time' \in 0..MaxClock, book' \in [Markets -> Entry],
           bound' \in [Markets -> Modes \cup {None}], mode' \in Modes,
           tracked' \in SUBSET Markets, lost' \in SUBSET Markets,
           settledWindow' \in Windows \cup {None},
           background' \in SUBSET Markets,
           bonds' \subseteq {m \in Markets : book'[m].stage \in Decided},
           r.market = None <=> r.at \in AtRest,
           r.at \in {"checkClaiming", "claiming"} =>
              book'[r.market].stage \in Decided,
           r.at = "creating" =>
              /\ book'[r.market].stage = "none"
              /\ \A n \in Markets : book'[n].stage = "open" => n \in lost',
           \A n \in Markets : book'[n].stage = "open" =>
              \/ n \in tracked' \/ n \in lost' \/ r.at = "recovering"
              \/ r.at = "voiding" /\ r.market = n
    PROVE  WeekInv'
<1>1. r.at \in Places /\ r.todo \subseteq Markets /\ r.market \in Markets \cup {None}
  BY DEF RunsWith
<1>2. r \in RunsWith({r.evidence})
  BY DEF RunsWith
<1>3. TypeOK'
  BY <1>1 DEF TypeOK
<1>4. RunShaped'
  BY <1>2 DEF RunShaped, RunsWith
<1>5. EachOpenIsKnown' /\ AloneAtCreation'
  BY DEF EachOpenIsKnown, AloneAtCreation
<1> QED
  BY <1>3, <1>4, <1>5 DEF WeekInv

LEMMA LoopFits ==
    ASSUME WeekInv, NEW E, NEW r \in RunsWith(E), run' = r, NothingOpens,
           UNCHANGED <<time, bound, mode, bonds>>,
           tracked' \in SUBSET Markets, lost' \in SUBSET Markets,
           settledWindow' \in Windows \cup {None},
           background' \in SUBSET Markets,
           r.market = None <=> r.at \in AtRest,
           r.at \in {"checkClaiming", "claiming"} =>
              book'[r.market].stage \in Decided,
           r.at = "creating" =>
              /\ book'[r.market].stage = "none"
              /\ \A n \in Markets : book'[n].stage = "open" => n \in lost',
           \A n \in Markets : book'[n].stage = "open" =>
              \/ n \in tracked' \/ n \in lost' \/ r.at = "recovering"
              \/ r.at = "voiding" /\ r.market = n
    PROVE  WeekInv'
<1>1. /\ time' \in 0..MaxClock /\ bound' \in [Markets -> Modes \cup {None}]
      /\ mode' \in Modes
  BY DEF WeekInv, TypeOK
<1>2. book' \in [Markets -> Entry]
  BY DEF NothingOpens
<1>3. bonds' \subseteq {m \in Markets : book'[m].stage \in Decided}
  BY DEF WeekInv, TypeOK, NothingOpens
<1> QED
  BY <1>1, <1>2, <1>3, StepFits

LEMMA Known ==
    ASSUME WeekInv, run.at \notin {"recovering", "voiding"}
    PROVE  \A n \in Markets : book[n].stage = "open" => n \in tracked \/ n \in lost
BY DEF WeekInv, EachOpenIsKnown

LEMMA PassFits ==
    ASSUME WeekInv, NEW r, Passing(r), run' = r, NothingOpens,
           UNCHANGED <<time, bound, mode, bonds>>,
           tracked' \in SUBSET Markets, lost' \in SUBSET Markets,
           settledWindow' \in Windows \cup {None},
           background' \in SUBSET Markets,
           \A n \in Markets : book'[n].stage = "open" =>
              n \in tracked' \/ n \in lost'
    PROVE  WeekInv'
<1>1. /\ r \in RunsWith({run.evidence, None}) /\ r.at = "passing"
      /\ r.market = None
  BY DEF Passing
<1>2. "passing" \in AtRest
  BY DEF AtRest
<1> QED
  BY <1>1, <1>2, LoopFits

LEMMA StaysTyped ==
    ASSUME WeekInv
    PROVE  /\ tracked \in SUBSET Markets /\ lost \in SUBSET Markets
           /\ settledWindow \in Windows \cup {None}
           /\ background \in SUBSET Markets
           /\ \A m \in Markets : m.window \in Windows
           /\ None \notin Markets
           /\ time \in 0..MaxClock /\ run.now \in 0..MaxClock
BY RunIs, PriceAssumption DEF WeekInv, TypeOK

-----------------------------------------------------------------------------
(* The checks after the scan.                                              *)
LEMMA ScanKeeps == ASSUME WeekInv, BeginChecks PROVE WeekInv'
<1>1. /\ UNCHANGED <<time, book, bound, mode, bonds, settledWindow, background>>
      /\ run' = [Idle("checking") EXCEPT !.todo = tracked']
  BY DEF BeginChecks, Recover, Quiet, weekVars, promiseVars, worldVars
<1>2. /\ tracked' \in SUBSET Markets /\ lost' \in SUBSET Markets
      /\ \A n \in Markets : book[n].stage = "open" => n \in tracked' \/ n \in lost'
  BY StaysTyped DEF BeginChecks, Recover, OwnOpen
<1> DEFINE r == [Idle("checking") EXCEPT !.todo = tracked']
<1>3. r \in RunsWith({None}) /\ r.at = "checking" /\ r.market = None
  <2>1. "checking" \in Places
    BY DEF Places
  <2>2. /\ Idle("checking") \in RunsWith({None}) /\ Idle("checking").at = "checking"
        /\ Idle("checking").market = None
    BY <2>1, IdleIs
  <2> QED
    BY <1>2, <2>2 DEF RunsWith
<1>4. "checking" \in AtRest
  BY DEF AtRest
<1>5. NothingOpens
  BY <1>1, RunIs, SameBookOpensNothing
<1>6. run' = r
  BY <1>1
<1> HIDE DEF r
<1> QED
  BY <1>1, <1>2, <1>3, <1>4, <1>5, <1>6, StaysTyped, LoopFits

LEMMA CheckKeeps ==
    ASSUME WeekInv, NEW m \in Markets, Check(m)
    PROVE  WeekInv'
<1>1. /\ run.at = "checking" /\ run.at \in AtRest
      /\ run.at \notin {"recovering", "voiding"}
      /\ UNCHANGED <<time, book, bound, mode, tracked, lost, bonds, background>>
  BY DEF Check, Recorded, Unrecorded, Quiet, weekVars, promiseVars, worldVars, AtRest
<1>2. NothingOpens
  BY <1>1, RunIs, SameBookOpensNothing
<1>3. \A n \in Markets : book'[n].stage = "open" => n \in tracked' \/ n \in lost'
  BY <1>1, Known
<1>4. /\ Handled(m) \in RunsWith({run.evidence})
      /\ Handled(m).at = "checking" /\ Handled(m).market = None
  BY <1>1, HandledIs, RunIs
<1>5. CASE Unrecorded(Handled(m))
  <2>1. run' = Handled(m) /\ settledWindow' = settledWindow
    BY <1>5 DEF Unrecorded, Quiet, weekVars
  <2> QED
    BY <1>1, <1>2, <1>3, <1>4, <2>1, StaysTyped, LoopFits
<1>6. CASE Recorded(m, [Handled(m) EXCEPT !.at = "checkClaiming", !.market = m])
  <2> DEFINE r == [Handled(m) EXCEPT !.at = "checkClaiming", !.market = m]
  <2>1. /\ run' = r /\ settledWindow' = m.window
        /\ book[m].stage \notin {"none", "open"}
    BY <1>6 DEF Recorded
  <2>2. r \in RunsWith({run.evidence}) /\ r.at = "checkClaiming" /\ r.market = m
    <3>1. "checkClaiming" \in Places
      BY DEF Places
    <3> QED
      BY <1>4, <3>1 DEF RunsWith
  <2> HIDE DEF r
  <2>3. book[m].stage \in Decided
    BY <2>1, RunIs DEF TypeOK, Entry, Stages
  <2>4. "checkClaiming" \notin AtRest
    BY DEF AtRest
  <2> QED
    BY <1>1, <1>2, <1>3, <2>1, <2>2, <2>3, <2>4, StaysTyped, LoopFits
<1> QED
  BY <1>5, <1>6 DEF Check

LEMMA PassStarts ==
    ASSUME WeekInv, EndChecks \/ TickSettles
    PROVE  WeekInv'
<1>1. PICK r : Passing(r) /\ Unrecorded(r)
  <2>1. "passing" \in Places
    BY DEF Places
  <2>2. Passing(Idle("passing"))
    BY <2>1, IdleIs DEF Passing, RunsWith
  <2>3. Passing(SettlePass(time, tracked))
    BY StaysTyped, PassIs
  <2> QED
    BY <2>2, <2>3 DEF EndChecks, TickSettles
<1>2. /\ UNCHANGED <<time, book, bound, mode, tracked, lost, bonds, background,
                     settledWindow>>
      /\ run' = r
  BY <1>1 DEF Unrecorded, Quiet, weekVars, promiseVars, worldVars
<1>3. \A n \in Markets : book'[n].stage = "open" => n \in tracked' \/ n \in lost'
  BY <1>2, Known DEF EndChecks, TickSettles, TickDue
<1>4. NothingOpens
  BY <1>2, RunIs, SameBookOpensNothing
<1> QED
  BY <1>1, <1>2, <1>3, <1>4, StaysTyped, PassFits

-----------------------------------------------------------------------------
(* A market for the week.                                                  *)
LEMMA TickKeeps == ASSUME WeekInv, TickOpens PROVE WeekInv'
<1>1. PICK m \in Markets :
         /\ MayOpen(m.window)
         /\ \/ EnsureCreates(m)
            \/ /\ EnsureAdopts(m)
               /\ run' = [run EXCEPT !.at = "looking", !.now = time, !.market = m]
  BY DEF TickOpens
<1>2. PICK a \in {"creating", "looking"} :
         /\ run' = [run EXCEPT !.at = a, !.now = time, !.market = m]
         /\ a = "creating" => EnsureCreates(m)
  BY <1>1 DEF EnsureCreates
<1>3. /\ UNCHANGED <<time, book, bound, mode, lost, bonds, background, settledWindow>>
      /\ tracked' \in SUBSET Markets /\ tracked \subseteq tracked'
      /\ run.at = "passing" /\ tracked = {}
  BY <1>1, StaysTyped DEF TickOpens, TickDue, EnsureCreates, EnsureAdopts, MayOpen, Quiet, weekVars,
     promiseVars, worldVars
<1>4. \A n \in Markets : book[n].stage = "open" => n \in lost
  BY <1>3, Known
<1> DEFINE r == [run EXCEPT !.at = a, !.now = time, !.market = m]
<1>5. r \in RunsWith({run.evidence}) /\ r.at = a /\ r.market = m
  <2>1. a \in Places
    BY DEF Places
  <2> QED
    BY <2>1, RunIs, StaysTyped DEF RunsWith
<1>6. run' = r
  BY <1>2
<1> HIDE DEF r
<1>7. a \notin AtRest /\ a \notin {"checkClaiming", "claiming"}
  BY DEF AtRest
<1>8. a = "creating" => book'[m].stage = "none"
  BY <1>2, <1>3 DEF EnsureCreates, Adopted
<1>9. NothingOpens
  BY <1>3, RunIs, SameBookOpensNothing
<1>10. /\ m # None
       /\ \A n \in Markets : book'[n].stage = "open" => n \in lost'
  BY <1>3, <1>4, StaysTyped
<1>11. settledWindow' \in Windows \cup {None} /\ background' \in SUBSET Markets
       /\ lost' \in SUBSET Markets
  BY <1>3, StaysTyped
<1> QED
  BY <1>3, <1>5, <1>6, <1>7, <1>8, <1>9, <1>10, <1>11, LoopFits

LEMMA CreateKeeps == ASSUME WeekInv, Created \/ CreateThrows PROVE WeekInv'
<1>1. /\ run.at = "creating" /\ run.at \notin AtRest
      /\ run.at \notin {"recovering", "voiding"}
      /\ UNCHANGED <<mode, bonds, background, settledWindow>>
  BY DEF Created, CreateThrows, CreateLands, CreateUnseen, CreateFails, Quiet,
     weekVars, AtRest
<1> DEFINE m == run.market
<1>2. m \in Markets /\ m # None
  BY <1>1, RunIs, StaysTyped
<1>3. PICK E : /\ run' \in RunsWith(E)
               /\ \/ run'.at = "looking" /\ run'.market = m
                  \/ run'.at = "passing" /\ run'.market = None
  <2>1. "looking" \in Places /\ "passing" \in Places
    BY DEF Places
  <2>2. CASE Created
    <3> DEFINE q == [run EXCEPT !.at = "looking"]
    <3>1. q \in RunsWith({run.evidence}) /\ q.at = "looking" /\ q.market = m
      BY <2>1, RunIs DEF RunsWith
    <3>2. run' = q
      BY <2>2 DEF Created, CreateLands
    <3> HIDE DEF q, m
    <3> QED
      BY <3>1, <3>2
  <2>3. CASE CreateThrows
    <3>1. run' = Idle("passing")
      BY <2>3 DEF CreateThrows, CreateFails, CreateUnseen
    <3>2. /\ Idle("passing") \in RunsWith({None}) /\ Idle("passing").at = "passing"
          /\ Idle("passing").market = None
      BY <2>1, IdleIs
    <3> QED
      BY <3>1, <3>2
  <2> QED
    BY <2>2, <2>3
<1>4. /\ run'.market = None <=> run'.at \in AtRest
      /\ run'.at \notin {"checkClaiming", "claiming", "creating"}
  BY <1>2, <1>3 DEF AtRest
<1>5. /\ tracked' \in SUBSET Markets /\ lost' \in SUBSET Markets
      /\ tracked \subseteq tracked' /\ lost \subseteq lost'
  BY <1>2, StaysTyped DEF Created, CreateThrows, CreateLands, CreateUnseen, CreateFails
<1>6. \A n \in Markets : book[n].stage = "open" => n \in tracked \/ n \in lost
  BY <1>1, Known
<1>7. settledWindow' \in Windows \cup {None} /\ background' \in SUBSET Markets
  BY <1>1, StaysTyped
<1>8. CASE UNCHANGED <<promiseVars, worldVars>>
  <2>1. UNCHANGED <<time, book, bound>>
    BY <1>8 DEF promiseVars, worldVars
  <2>2. NothingOpens
    BY <2>1, RunIs, SameBookOpensNothing
  <2>3. PICK r \in RunsWith(E) : r = run'
    BY <1>3
  <2> HIDE DEF m
  <2> QED
    BY <1>1, <1>4, <1>5, <1>6, <1>7, <2>1, <2>2, <2>3, LoopFits
<1>9. CASE CreateAccount(m) /\ (m \in tracked' \/ m \in lost')
  <2>1. PICK closing \in Nat : closing = m.window
    BY <1>2, PriceAssumption
  <2>2. /\ book' = [book EXCEPT ![m].stage = "open", ![m].closesAt = closing]
        /\ time' = time /\ bound' = [bound EXCEPT ![m] = mode]
        /\ book[m].stage = "none"
    BY <1>9, <2>1 DEF CreateAccount, Open
  <2>3. "open" \in Stages /\ "none" \notin Decided
    BY DEF Stages, Decided
  <2> HIDE DEF m
  <2>4. /\ book' \in [Markets -> Entry]
        /\ \A n \in Markets \ {m} : book'[n] = book[n]
    BY <1>2, <2>2, <2>3, RunIs, StageChanged
  <2>5. bonds' \subseteq {n \in Markets : book'[n].stage \in Decided}
    BY <1>1, <2>2, <2>3, <2>4 DEF WeekInv, TypeOK
  <2>6. bound' \in [Markets -> Modes \cup {None}] /\ mode' \in Modes
        /\ time' \in 0..MaxClock
    BY <1>1, <2>2 DEF WeekInv, TypeOK
  <2>7. \A n \in Markets : book'[n].stage = "open" => n \in tracked' \/ n \in lost'
    BY <1>5, <1>6, <1>9, <2>4
  <2>8. PICK r \in RunsWith(E) : r = run'
    BY <1>3
  <2> QED
    BY <1>4, <1>5, <1>7, <2>4, <2>5, <2>6, <2>7, <2>8, StepFits
<1> QED
  BY <1>8, <1>9 DEF Created, CreateThrows, CreateLands, CreateUnseen, CreateFails

LEMMA LookKeeps == ASSUME WeekInv, Look PROVE WeekInv'
<1>1. /\ run.at = "looking" /\ run.at \notin AtRest
      /\ run.at \notin {"recovering", "voiding"}
      /\ UNCHANGED <<time, book, bound, mode, tracked, lost, bonds, background>>
  BY DEF Look, Recorded, Unrecorded, Quiet, weekVars, promiseVars, worldVars, AtRest
<1>2. NothingOpens
  BY <1>1, RunIs, SameBookOpensNothing
<1>3. \A n \in Markets : book'[n].stage = "open" => n \in tracked' \/ n \in lost'
  BY <1>1, Known
<1>4. run.market \in Markets /\ run.market # None
  BY <1>1, RunIs, StaysTyped
<1>5. CASE Unrecorded(SettlePass(run.now, tracked))
  <2>1. run' = SettlePass(run.now, tracked) /\ settledWindow' = settledWindow
    BY <1>5 DEF Unrecorded, Quiet, weekVars
  <2>2. Passing(SettlePass(run.now, tracked))
    BY StaysTyped, PassIs
  <2> QED
    BY <1>1, <1>2, <1>3, <2>1, <2>2, StaysTyped, PassFits
<1>6. CASE Recorded(run.market, [run EXCEPT !.at = "claiming"])
  <2> DEFINE r == [run EXCEPT !.at = "claiming"]
  <2>1. /\ run' = r /\ settledWindow' = run.market.window
        /\ book[run.market].stage \notin {"none", "open"}
    BY <1>6 DEF Recorded
  <2>2. r \in RunsWith({run.evidence}) /\ r.at = "claiming" /\ r.market = run.market
    <3>1. "claiming" \in Places
      BY DEF Places
    <3> QED
      BY <3>1, RunIs DEF RunsWith
  <2> HIDE DEF r
  <2>3. book[run.market].stage \in Decided
    BY <1>4, <2>1, RunIs DEF TypeOK, Entry, Stages
  <2>4. "claiming" \notin AtRest
    BY DEF AtRest
  <2> QED
    BY <1>1, <1>2, <1>3, <1>4, <2>1, <2>2, <2>3, <2>4, StaysTyped, LoopFits
<1> QED
  BY <1>5, <1>6 DEF Look

-----------------------------------------------------------------------------
(* The receipts.                                                           *)
LEMMA ReceiptsKeep ==
    ASSUME WeekInv, NEW m \in Markets, ClaimReceipts(m)
    PROVE  /\ UNCHANGED <<time, book, bound, mode, lost, settledWindow>>
           /\ tracked' \in SUBSET Markets
           /\ \A n \in tracked : book[n].stage = "open" => n \in tracked'
           /\ bonds' \subseteq {n \in Markets : book[n].stage \in Decided}
<1>1. "open" \notin Decided
  BY DEF Decided
<1>2. bonds \subseteq {n \in Markets : book[n].stage \in Decided}
  BY DEF WeekInv, TypeOK
<1>3. CASE UNCHANGED <<tracked, bonds>>
  BY <1>2, <1>3, StaysTyped DEF ClaimReceipts, promiseVars, worldVars
<1>4. CASE /\ book[m].stage \in Decided
           /\ tracked' = tracked \ {m}
           /\ bonds' = bonds \cup {m} \/ UNCHANGED bonds
  <2>1. UNCHANGED <<time, book, bound, mode, lost, settledWindow>>
    BY DEF ClaimReceipts, promiseVars, worldVars
  <2> QED
    BY <1>1, <1>2, <1>4, <2>1, StaysTyped
<1> QED
  BY <1>3, <1>4 DEF ClaimReceipts

LEMMA ClaimKeeps == ASSUME WeekInv, Claim PROVE WeekInv'
<1>1. /\ run.at \in {"checkClaiming", "claiming"} /\ run.at \notin AtRest
      /\ run.at \notin {"recovering", "voiding"}
      /\ background' = background
  BY DEF Claim, AtRest
<1>2. run.market \in Markets
  BY <1>1, RunIs
<1>3. /\ UNCHANGED <<time, book, bound, mode, lost, settledWindow>>
      /\ tracked' \in SUBSET Markets
      /\ \A n \in tracked : book[n].stage = "open" => n \in tracked'
      /\ bonds' \subseteq {n \in Markets : book[n].stage \in Decided}
  BY <1>2, ReceiptsKeep DEF Claim
<1>4. PICK a \in {"passing", "checking"} : run' = [Done(run) EXCEPT !.at = a]
  BY DEF Claim
<1>5. /\ Done(run) \in RunsWith({run.evidence, None}) /\ Done(run).market = None
  BY RunIs, DoneIs DEF Passing
<1>6. a \in Places /\ a \in AtRest
      /\ a \notin {"checkClaiming", "claiming", "creating"}
  BY DEF Places, AtRest
<1>7. PICK r \in RunsWith({run.evidence, None}) :
         run' = r /\ r.at = a /\ r.market = None
  <2> DEFINE q == Done(run)
  <2>1. q \in RunsWith({run.evidence, None}) /\ q.market = None
    BY <1>5
  <2>2. run' = [q EXCEPT !.at = a]
    BY <1>4
  <2> HIDE DEF q
  <2>3. /\ [q EXCEPT !.at = a] \in RunsWith({run.evidence, None})
        /\ [q EXCEPT !.at = a].at = a /\ [q EXCEPT !.at = a].market = None
    BY <1>6, <2>1 DEF RunsWith
  <2> QED
    BY <2>2, <2>3
<1>8. \A n \in Markets : book'[n].stage = "open" => n \in tracked' \/ n \in lost'
  BY <1>1, <1>3, Known
<1>9. /\ bound' \in [Markets -> Modes \cup {None}] /\ mode' \in Modes
      /\ time' \in 0..MaxClock /\ book' \in [Markets -> Entry]
      /\ lost' \in SUBSET Markets /\ settledWindow' \in Windows \cup {None}
      /\ background' \in SUBSET Markets
  BY <1>1, <1>3 DEF WeekInv, TypeOK
<1>10. bonds' \subseteq {n \in Markets : book'[n].stage \in Decided}
  BY <1>3
<1> QED
  BY <1>3, <1>6, <1>7, <1>8, <1>9, <1>10, StepFits

LEMMA BackgroundKeeps ==
    ASSUME WeekInv, NEW m \in Markets, ClaimInBackground(m)
    PROVE  WeekInv'
<1>1. /\ UNCHANGED <<time, book, bound, mode, lost, settledWindow>>
      /\ tracked' \in SUBSET Markets
      /\ \A n \in tracked : book[n].stage = "open" => n \in tracked'
      /\ bonds' \subseteq {n \in Markets : book[n].stage \in Decided}
      /\ run' = run /\ background' = background \ {m}
  BY ReceiptsKeep DEF ClaimInBackground
<1>2. /\ bound' \in [Markets -> Modes \cup {None}] /\ mode' \in Modes
      /\ time' \in 0..MaxClock /\ book' \in [Markets -> Entry]
      /\ lost' \in SUBSET Markets /\ settledWindow' \in Windows \cup {None}
      /\ background' \in SUBSET Markets
      /\ bonds' \subseteq {n \in Markets : book'[n].stage \in Decided}
  BY <1>1 DEF WeekInv, TypeOK
<1>3. \A n \in Markets : book'[n].stage = "open" =>
         \/ n \in tracked' \/ n \in lost' \/ run.at = "recovering"
         \/ run.at = "voiding" /\ run.market = n
  BY <1>1 DEF WeekInv, EachOpenIsKnown
<1>4. run.at \in {"checkClaiming", "claiming"} => book'[run.market].stage \in Decided
  BY <1>1 DEF WeekInv, TypeOK
<1>5. run.at = "creating" =>
         /\ book'[run.market].stage = "none"
         /\ \A n \in Markets : book'[n].stage = "open" => n \in lost'
  BY <1>1 DEF WeekInv, AloneAtCreation
<1>6. run.market = None <=> run.at \in AtRest
  BY DEF WeekInv
<1> QED
  BY <1>1, <1>2, <1>3, <1>4, <1>5, <1>6, RunIs, StepFits

-----------------------------------------------------------------------------
(* The settle pass.                                                        *)
LEMMA TurnKeeps ==
    ASSUME WeekInv, NEW m \in Markets, SettleTurn(m)
    PROVE  WeekInv'
<1>1. /\ run.at = "passing" /\ run.at \notin {"recovering", "voiding"}
      /\ UNCHANGED <<time, book, bound, mode, tracked, lost, bonds, background,
                     settledWindow>>
  BY DEF SettleTurn, SettleProves, SettleWaits, SettleThrows, Turn, Quiet,
     weekVars, promiseVars, worldVars
<1>2. NothingOpens
  BY <1>1, RunIs, SameBookOpensNothing
<1>3. \A n \in Markets : book'[n].stage = "open" => n \in tracked' \/ n \in lost'
  BY <1>1, Known
<1>4. CASE SettleWaits(m) \/ SettleThrows(m)
  <2>1. PICK r : Passing(r) /\ run' = r
    BY <1>4, HandledIs, DoneIs DEF SettleWaits, SettleThrows
  <2> QED
    BY <1>1, <1>2, <1>3, <2>1, StaysTyped, PassFits
<1>5. CASE SettleProves(m)
  <2> DEFINE e == Evidence(m)
             r == [Handled(m) EXCEPT !.at = "sending", !.market = m, !.evidence = e]
  <2>1. run' = r
    BY <1>5 DEF SettleProves
  <2>2. r \in RunsWith({e}) /\ r.at = "sending" /\ r.market = m
    <3>1. Handled(m) \in RunsWith({run.evidence}) /\ "sending" \in Places
      BY HandledIs DEF Places
    <3> HIDE DEF e
    <3> QED
      BY <3>1 DEF RunsWith
  <2>3. "sending" \notin AtRest /\ m # None
    BY StaysTyped DEF AtRest
  <2> HIDE DEF r, e
  <2> QED
    BY <1>1, <1>2, <1>3, <2>1, <2>2, <2>3, StaysTyped, LoopFits
<1> QED
  BY <1>4, <1>5 DEF SettleTurn

LEMMA VoidStaleKeeps ==
    ASSUME WeekInv, NEW m \in Markets, VoidStale(m)
    PROVE  WeekInv'
<1> DEFINE r == [Handled(m) EXCEPT !.at = "voiding", !.market = m]
<1>1. /\ run.at = "passing" /\ run.at \notin {"recovering", "voiding"}
      /\ run' = r /\ tracked' = tracked \ {m} /\ settledWindow' = m.window
      /\ UNCHANGED <<time, book, bound, mode, lost, bonds, background>>
  BY DEF VoidStale, SettleGivesUp, Turn, promiseVars, worldVars
<1>2. NothingOpens
  BY <1>1, RunIs, SameBookOpensNothing
<1>3. r \in RunsWith({run.evidence}) /\ r.at = "voiding" /\ r.market = m
  <2>1. Handled(m) \in RunsWith({run.evidence}) /\ "voiding" \in Places
    BY HandledIs DEF Places
  <2> QED
    BY <2>1 DEF RunsWith
<1> HIDE DEF r
<1>4. "voiding" \notin AtRest /\ m # None
  BY StaysTyped DEF AtRest
<1>5. \A n \in Markets : book'[n].stage = "open" =>
         n \in tracked' \/ n \in lost' \/ n = m
  BY <1>1, Known
<1> QED
  BY <1>1, <1>2, <1>3, <1>4, <1>5, StaysTyped, LoopFits

LEMMA SendingKeeps ==
    ASSUME WeekInv, Settled \/ NotSettled
    PROVE  WeekInv'
<1>1. /\ run.at = "sending" /\ run.at \notin {"recovering", "voiding"}
      /\ run.at \notin AtRest
      /\ UNCHANGED <<time, bound, mode, lost, bonds>>
  BY DEF Settled, NotSettled, BundleLands, BundleUnseen, BundleFails,
     SettleBundle, Quiet, weekVars, promiseVars, worldVars, AtRest
<1> DEFINE m == run.market
<1>2. m \in Markets
  BY <1>1, RunIs
<1>3. PICK r : Passing(r) /\ run' = r
  BY RunIs, DoneIs DEF Settled, NotSettled, BundleLands, BundleUnseen, BundleFails
<1>4. /\ tracked' \in SUBSET Markets /\ background' \in SUBSET Markets
      /\ settledWindow' \in Windows \cup {None} /\ lost' \in SUBSET Markets
  BY <1>1, <1>2, StaysTyped DEF Settled, NotSettled, BundleLands, BundleUnseen,
     BundleFails, Quiet, weekVars
<1>5. \A n \in Markets : book[n].stage = "open" => n \in tracked \/ n \in lost
  BY <1>1, Known
<1>6. CASE BundleFails
  <2>1. book' = book /\ tracked' = tracked
    BY <1>6 DEF BundleFails, promiseVars
  <2>2. NothingOpens
    BY <2>1, RunIs, SameBookOpensNothing
  <2> HIDE DEF m
  <2> QED
    BY <1>1, <1>3, <1>4, <1>5, <2>1, <2>2, PassFits
<1>7. CASE SettleBundle(m, run.evidence) /\ tracked' \in {tracked, tracked \ {m}}
  <2>1. /\ book' = [book EXCEPT ![m].receipt = TRUE, ![m].stage = "settled",
                                ![m].decidedAt = time]
        /\ book[m].stage = "open"
    BY <1>7 DEF SettleBundle
  <2> HIDE DEF m
  <2>2. NothingOpens /\ book'[m].stage \in Decided
    BY <1>2, <2>1, RunIs, DecisionOpensNothing
  <2>3. "open" \notin Decided
    BY DEF Decided
  <2>4. \A n \in Markets : book'[n].stage = "open" => n \in tracked' \/ n \in lost'
    BY <1>1, <1>5, <1>7, <2>2, <2>3 DEF NothingOpens
  <2> QED
    BY <1>1, <1>3, <1>4, <2>2, <2>4, PassFits
<1> QED
  BY <1>6, <1>7 DEF Settled, NotSettled, BundleLands, BundleUnseen

LEMMA VoidingKeeps ==
    ASSUME WeekInv, Voided \/ NotVoided
    PROVE  WeekInv'
<1>1. /\ run.at = "voiding" /\ run.at \notin AtRest
      /\ UNCHANGED <<time, bound, mode, bonds, tracked, background, settledWindow>>
  BY DEF Voided, NotVoided, VoidLands, VoidFails, Void, Decide, Quiet, weekVars,
     promiseVars, worldVars, AtRest
<1> DEFINE m == run.market
<1>2. m \in Markets /\ m # None
  BY <1>1, RunIs, StaysTyped
<1>3. \A n \in Markets : book[n].stage = "open" =>
         n \in tracked \/ n \in lost \/ n = m
  BY <1>1 DEF WeekInv, EachOpenIsKnown
<1>4. CASE NotVoided
  <2>1. /\ book' = book /\ lost' = lost \cup {m} /\ run' = Done(run)
    BY <1>4 DEF NotVoided, VoidFails, promiseVars
  <2>2. NothingOpens
    BY <2>1, RunIs, SameBookOpensNothing
  <2>3. Passing(Done(run))
    BY RunIs, DoneIs
  <2> HIDE DEF m
  <2> QED
    BY <1>1, <1>2, <1>3, <2>1, <2>2, <2>3, StaysTyped, PassFits
<1>5. CASE Voided
  <2> DEFINE r == [run EXCEPT !.at = "claiming"]
  <2>1. /\ book' = [book EXCEPT ![m].stage = "void", ![m].decidedAt = time]
        /\ book[m].stage = "open" /\ lost' = lost /\ run' = r
    BY <1>5 DEF Voided, VoidLands, Void, Decide
  <2>2. r \in RunsWith({run.evidence}) /\ r.at = "claiming" /\ r.market = m
    <3>1. "claiming" \in Places
      BY DEF Places
    <3> QED
      BY <3>1, RunIs DEF RunsWith
  <2> HIDE DEF r, m
  <2>3. "void" \in Decided /\ "open" \notin Decided
    BY DEF Decided
  <2>4. NothingOpens /\ book'[m].stage \in Decided
    BY <1>2, <2>1, <2>3, RunIs, DecisionOpensNothing
  <2>5. \A n \in Markets : book'[n].stage = "open" => n \in tracked' \/ n \in lost'
    BY <1>1, <1>3, <2>1, <2>3, <2>4 DEF NothingOpens
  <2>6. "claiming" \notin AtRest
    BY DEF AtRest
  <2> QED
    BY <1>1, <1>2, <2>1, <2>2, <2>4, <2>5, <2>6, StaysTyped, LoopFits
<1> QED
  BY <1>4, <1>5

-----------------------------------------------------------------------------
(* The world, and a restart.                                               *)
LEMMA WorldKeeps == ASSUME WeekInv, WorldStep PROVE WeekInv'
<1>1. UNCHANGED <<mode, tracked, run, lost, bound, bonds, settledWindow, background>>
  BY DEF WorldStep, keeperVars, TimePasses, OthersAct, CandleAppears, worldVars,
     Quiet, weekVars
<1>2. NothingOpens
  BY RunIs, WorldOpensNothing DEF WorldStep, WorldMoves
<1>3. time' \in 0..MaxClock
  <2>1. CASE TimePasses
    <3>1. time' = time + 1 /\ time < MaxClock
      BY <2>1 DEF TimePasses, Pass
    <3>2. time \in Nat /\ MaxClock \in Nat
      BY RunIs, PromiseAssumption DEF BookFits
    <3> QED
      BY <3>1, <3>2
  <2>2. CASE ~TimePasses
    <3>1. time' = time
      BY <2>2, RunIs, OthersOpenNothing DEF WorldStep, CandleAppears, promiseVars
    <3> QED
      BY <3>1, StaysTyped
  <2> QED
    BY <2>1, <2>2
<1>4. /\ bound' \in [Markets -> Modes \cup {None}] /\ mode' \in Modes
      /\ book' \in [Markets -> Entry]
      /\ bonds' \subseteq {m \in Markets : book'[m].stage \in Decided}
  BY <1>1, <1>2 DEF WeekInv, TypeOK, NothingOpens
<1>5. /\ run.market = None <=> run.at \in AtRest
      /\ run.at \in {"checkClaiming", "claiming"} =>
            book'[run.market].stage \in Decided
      /\ run.at = "creating" =>
            /\ book'[run.market].stage = "none"
            /\ \A n \in Markets : book'[n].stage = "open" => n \in lost
  <2>1. run.at \in {"checkClaiming", "claiming", "creating"} => run.market \in Markets
    BY RunIs DEF AtRest
  <2> QED
    BY <1>2, <2>1 DEF WeekInv, TypeOK, AloneAtCreation, NothingOpens
<1>6. \A n \in Markets : book'[n].stage = "open" =>
         \/ n \in tracked \/ n \in lost \/ run.at = "recovering"
         \/ run.at = "voiding" /\ run.market = n
  BY <1>2 DEF WeekInv, EachOpenIsKnown, NothingOpens
<1> QED
  BY <1>1, <1>3, <1>4, <1>5, <1>6, RunIs, StaysTyped, StepFits

LEMMA RestartKeeps == ASSUME WeekInv, Restart PROVE WeekInv'
<1>1. /\ run' = Idle("recovering") /\ tracked' = {} /\ mode' \in Modes
      /\ settledWindow' = None /\ background' = {}
      /\ UNCHANGED <<time, book, bound, lost, bonds>>
  BY DEF Restart, Boot, promiseVars, worldVars
<1>2. "recovering" \in Places /\ "recovering" \in AtRest
  BY DEF Places, AtRest
<1>3. /\ Idle("recovering") \in RunsWith({None})
      /\ Idle("recovering").at = "recovering" /\ Idle("recovering").market = None
  BY <1>2, IdleIs
<1>4. /\ bound' \in [Markets -> Modes \cup {None}]
      /\ time' \in 0..MaxClock /\ book' \in [Markets -> Entry]
      /\ lost' \in SUBSET Markets
      /\ bonds' \subseteq {m \in Markets : book'[m].stage \in Decided}
  BY <1>1 DEF WeekInv, TypeOK
<1>5. PICK r \in RunsWith({None}) :
         run' = r /\ r.at = "recovering" /\ r.market = None
  BY <1>1, <1>3
<1> QED
  BY <1>1, <1>2, <1>4, <1>5, StepFits

-----------------------------------------------------------------------------
LEMMA InitHolds == Init => WeekInv
<1> SUFFICES ASSUME Init PROVE WeekInv
  OBVIOUS
<1>1. /\ run = Idle("recovering") /\ tracked = {} /\ lost = {} /\ mode \in Modes
      /\ settledWindow = None /\ background = {} /\ bonds = {}
      /\ bound = [m \in Markets |-> None] /\ time = 0
      /\ book = [m \in Markets |-> NoMarket(FALSE)]
  BY DEF Init, PricesInit, PromiseInit
<1>2. "recovering" \in Places /\ "recovering" \in AtRest /\ 0 \in 0..MaxClock
  BY PromiseAssumption DEF Places, AtRest
<1>3. /\ run \in RunsWith({None}) /\ run.at = "recovering" /\ run.market = None
      /\ run.todo = {}
  BY <1>1, <1>2, IdleIs
<1>4. book \in [Markets -> Entry]
  BY <1>1 DEF NoMarket, Entry, Stages
<1>5. TypeOK
  BY <1>1, <1>2, <1>3, <1>4 DEF TypeOK
<1>6. RunShaped
  BY <1>3 DEF RunShaped, RunsWith
<1> QED
  BY <1>1, <1>2, <1>3, <1>5, <1>6 DEF WeekInv, EachOpenIsKnown, AloneAtCreation

LEMMA NextHolds == WeekInv /\ [Next]_vars => WeekInv'
<1> SUFFICES ASSUME WeekInv, [Next]_vars PROVE WeekInv'
  OBVIOUS
<1>1. CASE LoopStep
  <2>1. CASE BeginChecks
    BY <2>1, ScanKeeps
  <2>2. CASE EndChecks \/ TickSettles
    BY <2>2, PassStarts
  <2>3. CASE TickOpens
    BY <2>3, TickKeeps
  <2>4. CASE Created \/ CreateThrows
    BY <2>4, CreateKeeps
  <2>5. CASE Look
    BY <2>5, LookKeeps
  <2>6. CASE Claim
    BY <2>6, ClaimKeeps
  <2>7. CASE \E m \in Markets : Check(m) \/ SettleTurn(m) \/ VoidStale(m)
    BY <2>7, CheckKeeps, TurnKeeps, VoidStaleKeeps
  <2>8. CASE Settled \/ NotSettled
    BY <2>8, SendingKeeps
  <2>9. CASE Voided \/ NotVoided
    BY <2>9, VoidingKeeps
  <2> QED
    BY <1>1, <2>1, <2>2, <2>3, <2>4, <2>5, <2>6, <2>7, <2>8, <2>9 DEF LoopStep
<1>2. CASE \E m \in Markets : ClaimInBackground(m)
  BY <1>2, BackgroundKeeps
<1>3. CASE WorldStep
  BY <1>3, WorldKeeps
<1>4. CASE Restart
  BY <1>4, RestartKeeps
<1>5. CASE UNCHANGED vars
  BY <1>5 DEF vars, promiseVars, worldVars, keeperVars, weekVars, WeekInv, TypeOK,
     RunShaped, EachOpenIsKnown, AloneAtCreation
<1> QED
  BY <1>1, <1>2, <1>3, <1>4, <1>5 DEF Next

LEMMA WeekInvAlways == Spec => []WeekInv
BY InitHolds, NextHolds, PTL DEF Spec

-----------------------------------------------------------------------------
(* What is sent.  A pass visits markets whose window has begun, at a time  *)
(* that has come; the checks after a scan visit all.                       *)
Checks == {"checking", "checkClaiming"}

Due(r) ==
    /\ r.now <= time
    /\ r.at \notin Checks => \A m \in r.todo : m.window <= r.now

SendInv ==
    /\ FeedFits
    /\ Due(run)
    /\ WindowPassed
    /\ ProofFits
    /\ OnlyGapsAreVoided

LEMMA SendIs ==
    ASSUME WeekInv, SendInv
    PROVE  /\ FeedFits /\ run \in RunsWith({run.evidence})
           /\ time \in Nat /\ run.now \in Nat /\ run.now <= time
           /\ run.at \notin Checks => \A m \in run.todo : m.window <= run.now
<1>1. run \in RunsWith({run.evidence}) /\ run.now \in 0..MaxClock /\ time \in Nat
  BY RunIs DEF BookFits
<1>2. run.now \in Nat
  BY <1>1, PromiseAssumption
<1> QED
  BY <1>1, <1>2 DEF SendInv, Due

LEMMA HandledDue ==
    ASSUME WeekInv, SendInv, NEW m
    PROVE  /\ Handled(m) \in RunsWith({run.evidence})
           /\ Handled(m).now = run.now /\ Handled(m).at = run.at
           /\ Handled(m).todo = run.todo \ {m}
           /\ Due(Handled(m))
<1>1. Handled(m) = [run EXCEPT !.todo = run.todo \ {m}]
  BY DEF Handled
<1>2. run \in RunsWith({run.evidence})
  BY SendIs
<1>3. /\ Handled(m).now = run.now /\ Handled(m).at = run.at
      /\ Handled(m).todo = run.todo \ {m}
  BY <1>1, <1>2 DEF RunsWith
<1> QED
  BY <1>3, HandledIs, SendIs DEF Due

LEMMA DoneDue ==
    ASSUME WeekInv, SendInv, NEW r \in RunsWith({run.evidence}),
           r.now <= time, \A m \in r.todo : m.window <= r.now
    PROVE  /\ Due(Done(r)) /\ Done(r).at = "passing"
           /\ Due(Thrown(r)) /\ Thrown(r).at = "passing"
<1>1. ASSUME NEW q \in RunsWith({run.evidence}), q.now <= time,
             \A m \in q.todo : m.window <= q.now
      PROVE  Due(Done(q)) /\ Done(q).at = "passing"
  <2>1. /\ Done(q).at = "passing" /\ Done(q).todo = q.todo
        /\ Done(q).now = IF q.todo = {} THEN 0 ELSE q.now
    BY DEF Done, RunsWith
  <2>2. 0 <= time
    BY SendIs
  <2>3. CASE q.todo = {}
    BY <2>1, <2>2, <2>3 DEF Due
  <2>4. CASE q.todo # {}
    BY <1>1, <2>1, <2>4 DEF Due
  <2> QED
    BY <1>1, <2>1, <2>3, <2>4
<1> DEFINE stopped == [r EXCEPT !.todo = {}]
<1>2. stopped \in RunsWith({run.evidence}) /\ stopped.todo = {} /\ stopped.now = r.now
  BY DEF RunsWith
<1>3. Due(Done(stopped)) /\ Done(stopped).at = "passing"
  <2> HIDE DEF stopped
  <2> QED
    BY <1>1, <1>2
<1>4. Due(Done(r)) /\ Done(r).at = "passing"
  BY <1>1
<1> QED
  BY <1>3, <1>4 DEF Thrown

LEMMA IdleDue ==
    ASSUME WeekInv, SendInv, NEW a
    PROVE  Due(Idle(a)) /\ Idle(a).at = a /\ Idle(a).now = 0
BY SendIs DEF Due, Idle

LEMMA PassDue ==
    ASSUME WeekInv, SendInv, NEW t \in Nat, t <= time, NEW S \in SUBSET Markets
    PROVE  Due(SettlePass(t, S)) /\ SettlePass(t, S).at = "passing"
<1> DEFINE due == {m \in S : t >= m.window}
<1>1. SettlePass(t, S) = [Idle("passing") EXCEPT !.now = t, !.todo = due]
  BY DEF SettlePass
<1>2. /\ SettlePass(t, S).at = "passing" /\ SettlePass(t, S).now = t
      /\ SettlePass(t, S).todo = due
  <2> HIDE DEF due
  <2> QED
    BY <1>1 DEF Idle
<1>3. \A m \in due : m.window <= t
  BY MarketsAre
<1> HIDE DEF due
<1> QED
  BY <1>2, <1>3 DEF Due

(* The steps after which nothing is sent.                                  *)
LEMMA StepSendsNothing ==
    ASSUME WeekInv, SendInv, NEW r, run' = r, Due(r),
           r.at \notin {"sending", "voiding"},
           UNCHANGED <<time, updates, candles>>
    PROVE  SendInv'
<1>1. FeedFits'
  BY SendIs, FeedStays
<1>2. Due(run)'
  BY DEF Due
<1>3. WindowPassed' /\ ProofFits' /\ OnlyGapsAreVoided'
  BY NothingIsSent
<1> QED
  BY <1>1, <1>2, <1>3 DEF SendInv

LEMMA ChecksSend ==
    ASSUME WeekInv, SendInv,
           BeginChecks \/ EndChecks \/ \E m \in Markets : Check(m)
    PROVE  SendInv'
<1>1. UNCHANGED <<time, updates, candles>>
  BY DEF BeginChecks, Recover, EndChecks, Check, Recorded, Unrecorded,
     promiseVars, worldVars
<1>2. CASE BeginChecks
  <2> DEFINE r == [Idle("checking") EXCEPT !.todo = tracked']
  <2>1. run' = r
    BY <1>2 DEF BeginChecks, Recover
  <2>2. r.at = "checking" /\ r.now = 0
    BY DEF Idle
  <2> HIDE DEF r
  <2>3. Due(r)
    BY <2>2, SendIs DEF Due, Checks
  <2> QED
    BY <1>1, <2>1, <2>2, <2>3, StepSendsNothing
<1>3. CASE EndChecks
  BY <1>1, <1>3, IdleDue, StepSendsNothing DEF EndChecks, Unrecorded
<1>4. ASSUME NEW m \in Markets, Check(m) PROVE SendInv'
  <2> DEFINE h == Handled(m)
  <2>1. h \in RunsWith({run.evidence}) /\ h.now <= time /\ h.at = "checking"
    BY <1>4, HandledDue, SendIs DEF Check
  <2>2. CASE Unrecorded(h)
    BY <1>1, <2>1, <2>2, HandledDue, StepSendsNothing DEF Unrecorded
  <2>3. CASE Recorded(m, [h EXCEPT !.at = "checkClaiming", !.market = m])
    <3> DEFINE r == [h EXCEPT !.at = "checkClaiming", !.market = m]
    <3>1. run' = r
      BY <2>3 DEF Recorded
    <3> HIDE DEF h
    <3>2. r.at = "checkClaiming" /\ r.now = h.now
      BY <2>1 DEF RunsWith
    <3> HIDE DEF r
    <3>3. Due(r)
      BY <2>1, <3>2 DEF Due, Checks
    <3> QED
      BY <1>1, <3>1, <3>2, <3>3, StepSendsNothing
  <2> QED
    BY <1>4, <2>2, <2>3 DEF Check
<1> QED
  BY <1>2, <1>3, <1>4

LEMMA TickSends ==
    ASSUME WeekInv, SendInv,
           TickSettles \/ TickOpens \/ Created \/ CreateThrows \/ Look
    PROVE  SendInv'
<1>1. UNCHANGED <<time, updates, candles>>
  BY DEF TickSettles, TickOpens, EnsureCreates, EnsureAdopts, Created,
     CreateThrows, CreateLands, CreateFails, CreateUnseen, CreateAccount, Open,
     Look, Recorded, Unrecorded, promiseVars, worldVars
<1>2. /\ run \in RunsWith({run.evidence}) /\ time \in Nat /\ run.now \in Nat
      /\ run.now <= time /\ tracked \in SUBSET Markets
  BY SendIs, StaysTyped
<1>3. CASE TickSettles
  <2>1. time <= time
    BY <1>2
  <2> QED
    BY <1>1, <1>2, <1>3, <2>1, PassDue, StepSendsNothing DEF TickSettles, Unrecorded
<1>4. CASE TickOpens
  <2>1. PICK m \in Markets, a \in {"creating", "looking"} :
           run' = [run EXCEPT !.at = a, !.now = time, !.market = m]
    BY <1>4 DEF TickOpens, EnsureCreates
  <2> DEFINE r == [run EXCEPT !.at = a, !.now = time, !.market = m]
  <2>2. run.todo = {}
    BY <1>4 DEF TickOpens, TickDue
  <2>3. r.at = a /\ r.now = time /\ r.todo = {}
    BY <1>2, <2>2 DEF RunsWith
  <2>4. run' = r
    BY <2>1
  <2> HIDE DEF r
  <2>5. Due(r)
    BY <1>2, <2>3 DEF Due
  <2> QED
    BY <1>1, <2>3, <2>4, <2>5, StepSendsNothing
<1>5. CASE Created
  <2> DEFINE r == [run EXCEPT !.at = "looking"]
  <2>1. run' = r /\ run.at = "creating"
    BY <1>5 DEF Created, CreateLands
  <2>2. r.at = "looking" /\ r.now = run.now /\ r.todo = run.todo
    BY <1>2 DEF RunsWith
  <2> HIDE DEF r
  <2>3. Due(r)
    BY <2>1, <2>2, SendIs DEF Due, Checks
  <2> QED
    BY <1>1, <2>1, <2>2, <2>3, StepSendsNothing
<1>6. CASE CreateThrows
  BY <1>1, <1>6, IdleDue, StepSendsNothing DEF CreateThrows, CreateFails, CreateUnseen
<1>7. CASE Look
  <2>1. CASE Unrecorded(SettlePass(run.now, tracked))
    BY <1>1, <1>2, <2>1, PassDue, StepSendsNothing DEF Unrecorded
  <2>2. CASE Recorded(run.market, [run EXCEPT !.at = "claiming"])
    <3> DEFINE r == [run EXCEPT !.at = "claiming"]
    <3>1. run' = r /\ run.at = "looking"
      BY <1>7, <2>2 DEF Look, Recorded
    <3>2. r.at = "claiming" /\ r.now = run.now /\ r.todo = run.todo
      BY <1>2 DEF RunsWith
    <3> HIDE DEF r
    <3>3. Due(r)
      BY <3>1, <3>2, SendIs DEF Due, Checks
    <3> QED
      BY <1>1, <3>1, <3>2, <3>3, StepSendsNothing
  <2> QED
    BY <1>7, <2>1, <2>2 DEF Look
<1> QED
  BY <1>3, <1>4, <1>5, <1>6, <1>7

LEMMA ClaimSends ==
    ASSUME WeekInv, SendInv, Claim
    PROVE  SendInv'
<1>1. /\ UNCHANGED <<time, updates, candles>>
      /\ run.at \in {"checkClaiming", "claiming"}
  BY DEF Claim, ClaimReceipts, promiseVars, worldVars
<1> DEFINE d == Done(run)
           a == IF run.at = "claiming" THEN "passing" ELSE "checking"
           r == [d EXCEPT !.at = a]
<1>2. run' = r
  BY DEF Claim
<1>3. /\ r.at = a /\ r.todo = run.todo
      /\ r.now = IF run.todo = {} THEN 0 ELSE run.now
  <2> HIDE DEF a
  <2> QED
    BY SendIs DEF Done, RunsWith
<1> HIDE DEF r, d
<1>4. r.now <= time
  BY <1>3, SendIs
<1>5. CASE run.at = "checkClaiming"
  <2>1. r.at = "checking"
    BY <1>3, <1>5
  <2>2. Due(r)
    BY <1>4, <2>1 DEF Due, Checks
  <2> QED
    BY <1>1, <1>2, <2>1, <2>2, StepSendsNothing
<1>6. CASE run.at = "claiming"
  <2>1. r.at = "passing"
    BY <1>3, <1>6
  <2>2. \A m \in r.todo : m.window <= r.now
    BY <1>3, <1>6, SendIs DEF Checks
  <2>3. Due(r)
    BY <1>4, <2>2 DEF Due
  <2> QED
    BY <1>1, <1>2, <2>1, <2>3, StepSendsNothing
<1> QED
  BY <1>1, <1>5, <1>6

LEMMA TurnSends ==
    ASSUME WeekInv, SendInv, NEW m \in Markets, SettleTurn(m) \/ VoidStale(m)
    PROVE  SendInv'
<1>1. /\ UNCHANGED <<time, updates, candles, bound, mode>>
      /\ run.at = "passing" /\ m \in run.todo
  BY DEF SettleTurn, SettleProves, SettleWaits, SettleThrows, VoidStale,
     SettleGivesUp, Turn, promiseVars, worldVars
<1> DEFINE h == Handled(m)
<1>2. /\ h \in RunsWith({run.evidence}) /\ h.now = run.now /\ h.now <= time
      /\ h.todo = run.todo \ {m} /\ \A n \in h.todo : n.window <= h.now
  BY <1>1, HandledDue, SendIs DEF Checks
<1>3. m.window <= time
  <2>1. m.window <= run.now
    BY <1>1, SendIs DEF Checks
  <2> QED
    BY <2>1, MarketsAre, SendIs
<1>4. FeedFits'
  BY <1>1, SendIs, FeedStays
<1>5. ASSUME NEW r, run' = r, r.now = h.now, r.todo = h.todo PROVE Due(run)'
  BY <1>1, <1>2, <1>5 DEF Due
<1>6. CASE SettleWaits(m) \/ SettleThrows(m)
  <2>1. run' = Done(h) \/ run' = Thrown(h)
    BY <1>6 DEF SettleWaits, SettleThrows
  <2> HIDE DEF h
  <2>2. /\ Due(Done(h)) /\ Done(h).at = "passing"
        /\ Due(Thrown(h)) /\ Thrown(h).at = "passing"
    BY <1>2, DoneDue
  <2> QED
    BY <1>1, <2>1, <2>2, StepSendsNothing
<1>7. CASE SettleProves(m)
  <2> DEFINE e == Evidence(m)
             r == [h EXCEPT !.at = "sending", !.market = m, !.evidence = e]
  <2>1. run' = r /\ e # None
    BY <1>7 DEF SettleProves
  <2>2. /\ r.at = "sending" /\ r.market = m /\ r.evidence = e
        /\ r.now = h.now /\ r.todo = h.todo
    <3> HIDE DEF h, e
    <3> QED
      BY <1>2 DEF RunsWith
  <2>3. ProofFits'
    <3>1. run'.at = "sending" /\ run'.market = m /\ run'.evidence = Evidence(m)
      BY <2>1, <2>2
    <3> QED
      BY <1>1, <1>3, <2>1, <3>1, SendIs, SentProofFits
  <2> HIDE DEF r
  <2>4. WindowPassed' /\ OnlyGapsAreVoided'
    BY <2>1, <2>2 DEF WindowPassed, OnlyGapsAreVoided
  <2>5. Due(run)'
    BY <1>5, <2>1, <2>2
  <2> QED
    BY <1>4, <2>3, <2>4, <2>5 DEF SendInv
<1>8. CASE VoidStale(m)
  <2> DEFINE r == [h EXCEPT !.at = "voiding", !.market = m]
  <2>1. run' = r /\ SettleGivesUp(m)
    BY <1>8 DEF VoidStale, SettleGivesUp
  <2>2. r.at = "voiding" /\ r.market = m /\ r.now = h.now /\ r.todo = h.todo
    <3> HIDE DEF h
    <3> QED
      BY <1>2 DEF RunsWith
  <2> HIDE DEF r
  <2>3. WindowPassed' /\ OnlyGapsAreVoided'
    BY <2>1, <2>2, SendIs, SentVoidFits
  <2>4. ProofFits'
    BY <2>1, <2>2 DEF ProofFits
  <2>5. Due(run)'
    BY <1>5, <2>1, <2>2
  <2> QED
    BY <1>4, <2>3, <2>4, <2>5 DEF SendInv
<1> QED
  BY <1>6, <1>7, <1>8 DEF SettleTurn

LEMMA EndSends ==
    ASSUME WeekInv, SendInv, Settled \/ NotSettled \/ Voided \/ NotVoided
    PROVE  SendInv'
<1>1. /\ UNCHANGED <<time, updates, candles>>
      /\ run.at \in {"sending", "voiding"}
  BY DEF Settled, NotSettled, BundleLands, BundleUnseen, BundleFails,
     SettleBundle, Voided, NotVoided, VoidLands, VoidFails, Void, Decide,
     promiseVars, worldVars
<1>2. /\ run \in RunsWith({run.evidence}) /\ run.now <= time
      /\ \A n \in run.todo : n.window <= run.now
  BY <1>1, SendIs DEF Checks
<1>3. CASE Settled \/ NotSettled \/ NotVoided
  <2>1. run' = Done(run) \/ run' = Thrown(run)
    BY <1>3 DEF Settled, NotSettled, BundleLands, BundleUnseen, BundleFails,
       NotVoided, VoidFails
  <2>2. /\ Due(Done(run)) /\ Done(run).at = "passing"
        /\ Due(Thrown(run)) /\ Thrown(run).at = "passing"
    BY <1>2, DoneDue
  <2> QED
    BY <1>1, <2>1, <2>2, StepSendsNothing
<1>4. CASE Voided
  <2> DEFINE r == [run EXCEPT !.at = "claiming"]
  <2>1. run' = r
    BY <1>4 DEF Voided, VoidLands
  <2>2. r.at = "claiming" /\ r.now = run.now /\ r.todo = run.todo
    BY <1>2 DEF RunsWith
  <2> HIDE DEF r
  <2>3. Due(r)
    BY <1>2, <2>2 DEF Due
  <2> QED
    BY <1>1, <2>1, <2>2, <2>3, StepSendsNothing
<1> QED
  BY <1>3, <1>4

LEMMA SendHolds == WeekInv /\ SendInv /\ [Next]_vars => SendInv'
<1> SUFFICES ASSUME WeekInv, SendInv, [Next]_vars PROVE SendInv'
  OBVIOUS
<1>1. CASE UNCHANGED vars \/ \E m \in Markets : ClaimInBackground(m)
  <2>1. UNCHANGED <<time, updates, candles, bound, mode, run>>
    BY <1>1 DEF vars, ClaimInBackground, ClaimReceipts, promiseVars, worldVars,
       keeperVars
  <2>2. FeedFits' /\ Due(run)'
    BY <2>1, FeedStays DEF SendInv, Due
  <2> QED
    BY <2>1, <2>2, SentStays DEF SendInv
<1>2. CASE WorldStep
  <2>1. WorldMoves /\ UNCHANGED keeperVars /\ run' = run
    BY <1>2 DEF WorldStep, WorldMoves, keeperVars
  <2>2. FeedFits' /\ time \in Nat /\ time' \in Nat /\ time <= time'
    BY <2>1, SendIs, FeedGoesOn, FeedMoves
  <2>3. Due(run)'
    <3>1. run.now <= time'
      BY <2>2, SendIs
    <3> QED
      BY <2>1, <3>1, SendIs DEF Due
  <2>4. run.at = "voiding" => run.market \in Markets
    BY RunIs DEF AtRest
  <2>5. WindowPassed' /\ ProofFits' /\ OnlyGapsAreVoided'
    <3>1. WindowPassed /\ ProofFits /\ OnlyGapsAreVoided
      BY DEF SendInv
    <3> QED
      BY <2>1, <2>4, <3>1, SendIs, SentKeepsFitting
  <2> QED
    BY <2>2, <2>3, <2>5 DEF SendInv
<1>3. CASE Restart
  <2>1. UNCHANGED <<time, updates, candles>> /\ run' = Idle("recovering")
    BY <1>3 DEF Restart, Boot, promiseVars, worldVars
  <2> QED
    BY <2>1, IdleDue, StepSendsNothing
<1>4. CASE LoopStep
  BY <1>4, ChecksSend, TickSends, ClaimSends, TurnSends, EndSends DEF LoopStep
<1> QED
  BY <1>1, <1>2, <1>3, <1>4 DEF Next

LEMMA SendInvAlways == Spec => []SendInv
<1>1. Init => SendInv
  <2> SUFFICES ASSUME Init PROVE SendInv
    OBVIOUS
  <2>1. /\ FeedFits /\ WindowPassed /\ ProofFits /\ OnlyGapsAreVoided /\ time = 0
    BY FeedBegins DEF Init
  <2>2. run = Idle("recovering")
    BY DEF Init, PricesInit
  <2>3. Due(run)
    BY <2>1, <2>2 DEF Due, Idle
  <2> QED
    BY <2>1, <2>3 DEF SendInv
<1> QED
  BY <1>1, SendHolds, WeekInvAlways, PTL DEF Spec

-----------------------------------------------------------------------------
(* Only a creation opens a market, and it happens alone.                   *)
OneLineStep ==
    \A m, n \in Markets :
        /\ book[m].stage = "none" /\ book'[m].stage = "open"
        /\ n.window = m.window /\ book[n].stage = "open"
        => n \in lost

LEMMA LineStep == WeekInv /\ [Next]_vars => OneLineStep
<1> SUFFICES ASSUME WeekInv, [Next]_vars,
                    NEW m \in Markets, NEW n \in Markets,
                    book[m].stage = "none", book'[m].stage = "open",
                    book[n].stage = "open"
             PROVE  n \in lost
  BY DEF OneLineStep
<1>1. ~NothingOpens /\ book' # book
  BY RunIs, SameBookOpensNothing DEF NothingOpens
<1>2. run.at = "creating" => n \in lost
  BY DEF WeekInv, AloneAtCreation
<1>3. CASE Created \/ CreateThrows
  BY <1>2, <1>3 DEF Created, CreateThrows, CreateLands, CreateUnseen, CreateFails
<1>4. CASE Settled \/ NotSettled
  <2>1. run.at = "sending" /\ (SettleBundle(run.market, run.evidence) \/ book' = book)
    BY <1>4 DEF Settled, NotSettled, BundleLands, BundleUnseen, BundleFails, promiseVars
  <2>2. run.market \in Markets
    BY <2>1, RunIs DEF AtRest
  <2>3. PICK k \in Markets : k = run.market
    BY <2>2
  <2>4. CASE SettleBundle(k, run.evidence)
    BY <1>1, <2>4, RunIs, DecisionOpensNothing DEF SettleBundle
  <2> QED
    BY <1>1, <2>1, <2>3, <2>4
<1>5. CASE Voided \/ NotVoided
  <2>1. run.at = "voiding" /\ (Void(run.market) \/ book' = book)
    BY <1>5 DEF Voided, NotVoided, VoidLands, VoidFails, promiseVars
  <2>2. run.market \in Markets
    BY <2>1, RunIs DEF AtRest
  <2>3. PICK k \in Markets : k = run.market
    BY <2>2
  <2>4. CASE Void(k)
    <3>1. book[k].stage = "open" /\ "void" \in Decided
          /\ book' = [book EXCEPT ![k].stage = "void", ![k].decidedAt = time]
      BY <2>4 DEF Void, Decide, Decided
    <3> QED
      BY <1>1, <3>1, RunIs, DecisionOpensNothing
  <2> QED
    BY <1>1, <2>1, <2>3, <2>4
<1>6. CASE WorldStep
  BY <1>1, <1>6, RunIs, WorldOpensNothing DEF WorldStep, WorldMoves
<1>7. CASE \/ BeginChecks \/ EndChecks \/ TickSettles \/ TickOpens \/ Look \/ Claim
           \/ \E k \in Markets : Check(k) \/ SettleTurn(k) \/ VoidStale(k)
           \/ \E k \in Markets : ClaimInBackground(k)
           \/ Restart \/ UNCHANGED vars
  <2>1. book' = book
    BY <1>7 DEF BeginChecks, Recover, EndChecks, TickSettles, TickOpens,
       EnsureCreates, EnsureAdopts, Look, Claim, ClaimReceipts, Check, Recorded,
       Unrecorded, SettleTurn, SettleProves, SettleWaits, SettleThrows, VoidStale,
       SettleGivesUp, ClaimInBackground, Restart, Boot, promiseVars, vars
  <2> QED
    BY <1>1, <2>1
<1> QED
  BY <1>3, <1>4, <1>5, <1>6, <1>7 DEF Next, LoopStep

(* The weekly keeper's variables keep their types (weekKeeper.ts,          *)
(* runWeekKeeper): it claims receipts, and counts a bond as claimed, only  *)
(* of markets that are decided.                                            *)
THEOREM WeekTyped == Spec => []TypeOK
<1>1. WeekInv => TypeOK
  BY DEF WeekInv
<1> QED
  BY <1>1, WeekInvAlways, PTL

(* No second market is opened beside an open one of its window, unless a   *)
(* scan or a creation looked failed (weekKeeper.ts, the loop), for any     *)
(* number of lines, weeks and restarts.                                    *)
THEOREM OneLineAWeek == Spec => OneLine
<1>1. WeekInv /\ [Next]_vars => [OneLineStep]_vars
  BY LineStep
<1>2. Spec => [][OneLineStep]_vars
  BY <1>1, WeekInvAlways, PTL DEF Spec
<1> QED
  BY <1>2 DEF OneLine, OneLineStep

(* An open market of the week is out of the keeper's sight only after a    *)
(* step that failed, until the next scan, although a decided one is        *)
(* dropped wherever claimReceipts finds it, also in the background.        *)
THEOREM NoWeekForgotten == Spec => []EachOpenIsKnown
<1>1. WeekInv => EachOpenIsKnown
  BY DEF WeekInv
<1> QED
  BY <1>1, WeekInvAlways, PTL

(* What the weekly keeper sends through settlePriceMarket is accepted by   *)
(* the oracle of the market, although its tick began earlier, waited for   *)
(* receipts in between, or belongs to a process started since.             *)
THEOREM WeekProofsAreAccepted == Spec => []ProofFits
<1>1. SendInv => ProofFits
  BY DEF SendInv
<1> QED
  BY <1>1, SendInvAlways, PTL

(* voidStale is sent for no week market with an observation in its window  *)
(* that the keeper could have read.                                        *)
THEOREM WeekVoidsAreGaps == Spec => []OnlyGapsAreVoided
<1>1. SendInv => OnlyGapsAreVoided
  BY DEF SendInv
<1> QED
  BY <1>1, SendInvAlways, PTL

(* What the loop does to the accounts.                                     *)
LEMMA LoopsOnBook ==
    ASSUME WeekInv, [Next]_vars
    PROVE  BookStep
<1>1. run.at \in {"creating", "sending", "voiding"} => run.market \in Markets
  BY RunIs DEF AtRest
<1>2. CASE Created \/ CreateThrows
  BY <1>1, <1>2 DEF Created, CreateThrows, CreateLands, CreateUnseen, CreateFails,
     promiseVars, BookStep
<1>3. CASE Settled \/ NotSettled
  BY <1>1, <1>3 DEF Settled, NotSettled, BundleLands, BundleUnseen, BundleFails,
     promiseVars, BookStep
<1>4. CASE Voided \/ NotVoided
  BY <1>1, <1>4 DEF Voided, NotVoided, VoidLands, VoidFails, promiseVars, BookStep
<1>5. CASE WorldStep
  BY <1>5 DEF WorldStep, TimePasses, Pass, CandleAppears, promiseVars, BookStep
<1>6. CASE \/ BeginChecks \/ EndChecks \/ TickSettles \/ TickOpens \/ Look \/ Claim
           \/ \E m \in Markets : Check(m) \/ SettleTurn(m) \/ VoidStale(m)
           \/ \E m \in Markets : ClaimInBackground(m)
           \/ Restart \/ UNCHANGED vars
  BY <1>6 DEF BeginChecks, Recover, EndChecks, TickSettles, TickOpens,
     EnsureCreates, EnsureAdopts, Look, Claim, ClaimReceipts, Check, Recorded,
     Unrecorded, SettleTurn, SettleProves, SettleWaits, SettleThrows, VoidStale,
     SettleGivesUp, ClaimInBackground, Restart, Boot, promiseVars, vars, BookStep
<1> QED
  BY <1>2, <1>3, <1>4, <1>5, <1>6 DEF Next, LoopStep

(* A void the weekly keeper sends is never too early for the program       *)
(* (voidStale): the week is recorded as settled before it is sent, so that *)
(* a refused one would leave the market open until a restart.              *)
THEOREM WeekVoidsAreRipe == Spec => []VoidsAreRipe
<1>1. Init => ClosesWithWindow
  BY FeedBegins DEF Init
<1>2. WeekInv /\ ClosesWithWindow /\ [Next]_vars => ClosesWithWindow'
  BY RunIs, LoopsOnBook, TimesStay
<1>3. WeekInv /\ SendInv /\ ClosesWithWindow => VoidsAreRipe
  <2>1. WeekInv => BookFits /\ (run.at = "voiding" => run.market \in Markets)
    BY RunIs DEF AtRest
  <2> QED
    BY <2>1, RipeOnce DEF SendInv
<1> QED
  BY <1>1, <1>2, <1>3, WeekInvAlways, SendInvAlways, PTL DEF Spec

=============================================================================
