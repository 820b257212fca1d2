-------------------------- MODULE MatchkeeperProofs --------------------------
(***************************************************************************)
(* The agent loop, for any number of markets, matches, activities and      *)
(* restarts: what it takes for settled is settled, and what it voids had   *)
(* its window for a proof.                                                 *)
(***************************************************************************)
EXTENDS Matchkeeper, FiniteSetTheorems, SequenceTheorems, WellFoundedInduction,
        TLAPS

Activity == [todo: Seq(Jobs), at: Places, index: Nat, closesAt: Nat]

(* The window of a market that was pending is over.                        *)
Due(m) == firstPending[m] # None /\ time - firstPending[m] > GiveUp

(* Not only the market an activity is at work on, but all that it has      *)
(* still to void are due: the list was made before.                        *)
JobsDue(todo) ==
    \A i \in DOMAIN todo : todo[i].kind = "final" => Due(todo[i].market)

FinalsDue == \A t \in Tasks : JobsDue(task[t].todo)

(* Nothing is pending since before it first was, also when it was dropped  *)
(* and enqueued again.                                                     *)
PendingSince ==
    \A m \in Markets :
        /\ firstPending[m] # None => firstPending[m] <= time
        /\ pending[m] # None =>
              firstPending[m] # None /\ firstPending[m] <= pending[m]

(* An activity with nothing to do is at none of the places of a job.       *)
Rested == \A t \in Tasks : Free(t) => task[t].at = "ready"

KeeperInv ==
    /\ TypeOK
    /\ Rested
    /\ SuccessIsReal
    /\ saved = pending
    /\ PendingSince
    /\ FinalsDue

-----------------------------------------------------------------------------
(* Lists of jobs and of markets.                                           *)
LEMMA OrderIsSeq ==
    ASSUME NEW S, IsFiniteSet(S), NEW order \in SetToSeqs(S)
    PROVE  order \in Seq(S)
<1>1. Cardinality(S) \in Nat /\ order \in [1..Cardinality(S) -> S]
  BY FS_CardinalityType DEF SetToSeqs
<1> QED
  BY <1>1

LEMMA JobsAreSeq ==
    ASSUME NEW kind \in {"create", "settle", "retry", "final"},
           NEW markets \in Seq(Markets)
    PROVE  /\ Jobs_(kind, markets) \in Seq(Jobs)
           /\ \A i \in DOMAIN Jobs_(kind, markets) :
                 /\ i \in DOMAIN markets
                 /\ Jobs_(kind, markets)[i] = [kind |-> kind, market |-> markets[i]]
<1>1. DOMAIN markets = 1..Len(markets) /\ Len(markets) \in Nat
      /\ \A i \in 1..Len(markets) : markets[i] \in Markets
  BY LenProperties, ElementOfSeq
<1>2. Jobs_(kind, markets) \in [1..Len(markets) -> Jobs]
  BY <1>1 DEF Jobs_, Jobs
<1> QED
  BY <1>1, <1>2 DEF Jobs_

LEMMA LeastExists ==
    ASSUME NEW S \in SUBSET Nat, S # {}
    PROVE  \E x \in S : \A y \in S : x <= y
<1>1. PICK x \in S : \A y \in S : ~(<<y, x>> \in OpToRel(<, Nat))
  BY NatLessThanWellFounded, WFMin
<1>2. ASSUME NEW y \in S PROVE x <= y
  <2>1. ~(<<y, x>> \in OpToRel(<, Nat)) /\ x \in Nat /\ y \in Nat
    BY <1>1
  <2>2. ~(y < x)
    BY <2>1 DEF OpToRel
  <2>3. x \in Nat /\ y \in Nat
    OBVIOUS
  <2> QED
    BY <2>2, <2>3
<1> QED
  BY <1>2

LEMMA IndexFound ==
    ASSUME NEW list \in Seq(Markets), NEW m
    PROVE  /\ IndexIn(list, m) \in Nat
           /\ IndexIn(list, m) # 0 =>
                 IndexIn(list, m) \in DOMAIN list /\ list[IndexIn(list, m)] = m
<1> DEFINE I == {i \in 1..Len(list) : list[i] = m}
<1>1. Len(list) \in Nat /\ DOMAIN list = 1..Len(list)
  BY LenProperties
<1>2. CASE I = {}
  BY <1>2 DEF IndexIn, SelectInSeq
<1>3. CASE I # {}
  <2>1. \E x \in I : \A y \in I : x <= y
    <3>1. I \in SUBSET Nat
      BY <1>1
    <3> QED
      BY <1>3, <3>1, LeastExists
  <2>2. IndexIn(list, m) = Min(I)
    BY <1>3 DEF IndexIn, SelectInSeq
  <2>3. Min(I) \in I
    BY <2>1 DEF Min
  <2> QED
    BY <1>1, <2>2, <2>3
<1> QED
  BY <1>2, <1>3

LEMMA SpliceIsSeq ==
    ASSUME NEW list \in Seq(Markets), NEW i \in Nat
    PROVE  Splice(list, i) \in Seq(Markets)
<1>1. Len(list) \in Nat /\ DOMAIN list = 1..Len(list)
      /\ \A k \in 1..Len(list) : list[k] \in Markets
  BY LenProperties, ElementOfSeq
<1>2. CASE i \in DOMAIN list
  <2>1. SubSeq(list, 1, i - 1) \in Seq(Markets)
    BY <1>1, <1>2, SubSeqProperties
  <2>2. SubSeq(list, i + 1, Len(list)) \in Seq(Markets)
    BY <1>1, <1>2, SubSeqProperties
  <2> QED
    BY <1>2, <2>1, <2>2, ConcatProperties DEF Splice, RemoveAt
<1> QED
  BY <1>2 DEF Splice

-----------------------------------------------------------------------------
(* What any step does to the clock and the accounts, and to the pending    *)
(* settlements.                                                            *)
PromiseKept ==
    /\ time' \in 0..MaxClock /\ time <= time'
    /\ book' \in [Markets -> Entry]
    /\ \A m \in Markets : book[m].stage = "settled" => book'[m].stage = "settled"

PendingKept ==
    /\ {pending', saved', firstPending'} \subseteq [Markets -> 0..MaxClock \cup {None}]
    /\ saved' = pending'
    /\ \A m \in Markets :
          /\ firstPending[m] # None => firstPending'[m] = firstPending[m]
          /\ firstPending'[m] # None => firstPending'[m] <= time'
          /\ pending'[m] # None =>
                firstPending'[m] # None /\ firstPending'[m] <= pending'[m]

LEMMA Clock ==
    ASSUME TypeOK
    PROVE  /\ time \in Nat /\ GiveUp \in Nat /\ MaxClock \in Nat /\ None \notin Nat
           /\ \A m \in Markets :
                 /\ pending[m] # None => pending[m] \in Nat /\ pending[m] \in 0..MaxClock
                 /\ firstPending[m] # None =>
                       firstPending[m] \in Nat /\ firstPending[m] \in 0..MaxClock
<1>1. GiveUp \in Nat /\ None \notin Nat
  BY KeeperAssumption
<1>2. MaxClock \in Nat
  BY PromiseAssumption
<1> QED
  BY <1>1, <1>2 DEF TypeOK

LEMMA SamePromise == ASSUME KeeperInv, UNCHANGED promiseVars PROVE PromiseKept
<1>1. time \in Nat /\ time \in 0..MaxClock
  BY Clock DEF KeeperInv, TypeOK
<1> QED
  BY <1>1 DEF PromiseKept, promiseVars, KeeperInv, TypeOK

LEMMA SamePending ==
    ASSUME KeeperInv, UNCHANGED <<pending, saved, firstPending>>, PromiseKept
    PROVE  PendingKept
<1>1. \A m \in Markets : firstPending'[m] # None => firstPending'[m] <= time'
  <2> SUFFICES ASSUME NEW m \in Markets, firstPending[m] # None
               PROVE  firstPending[m] <= time'
    OBVIOUS
  <2>1. time' \in Nat /\ time <= time' /\ time \in Nat
        /\ firstPending[m] \in Nat /\ firstPending[m] <= time
    BY Clock DEF PromiseKept, KeeperInv, PendingSince
  <2> QED
    BY <2>1
<1> QED
  BY <1>1 DEF PendingKept, KeeperInv, TypeOK, PendingSince

DueNext(m) == firstPending'[m] # None /\ time' - firstPending'[m] > GiveUp

JobsDueNext(todo) ==
    \A i \in DOMAIN todo : todo[i].kind = "final" => DueNext(todo[i].market)

LEMMA StaysDue ==
    ASSUME KeeperInv, PromiseKept, PendingKept, NEW m \in Markets, Due(m)
    PROVE  DueNext(m)
<1>1. /\ time \in Nat /\ time' \in Nat /\ time <= time' /\ GiveUp \in Nat
      /\ firstPending[m] \in Nat /\ firstPending'[m] = firstPending[m]
      /\ firstPending[m] # None
  BY Clock DEF PromiseKept, PendingKept, KeeperInv, Due
<1> QED
  BY <1>1 DEF Due, DueNext

LEMMA JobAt ==
    ASSUME NEW todo \in Seq(Jobs), NEW i \in DOMAIN todo
    PROVE  todo[i] \in Jobs /\ todo[i].market \in Markets
<1>1. DOMAIN todo = 1..Len(todo)
  BY LenProperties
<1>2. todo[i] \in Jobs
  BY <1>1, ElementOfSeq
<1> QED
  BY <1>2 DEF Jobs

(* The invariant after a step of the activity t.                           *)
LEMMA StepOf ==
    ASSUME KeeperInv, PromiseKept, PendingKept,
           NEW t \in Tasks, NEW r \in Activity,
           task' = [task EXCEPT ![t] = r],
           openMarkets' \in Seq(Markets),
           seen' \subseteq Matches, ended' \subseteq Matches,
           restarts' = restarts,
           JobsDueNext(r.todo),
           r.todo # <<>> /\ r.at = "attesting" =>
              book'[Head(r.todo).market].stage = "settled",
           r.todo = <<>> => r.at = "ready"
    PROVE  KeeperInv'
<1>1. task' \in [Tasks -> Activity] /\ task'[t] = r
      /\ \A n \in Tasks : n # t => task'[n] = task[n]
  BY DEF KeeperInv, TypeOK, Activity
<1>2. TypeOK'
  BY <1>1 DEF KeeperInv, TypeOK, Activity, PromiseKept, PendingKept
<1>3. SuccessIsReal'
  <2> SUFFICES ASSUME NEW n \in Tasks, At(n, SettleKinds, "attesting")'
               PROVE  book'[Head(task'[n].todo).market].stage = "settled"
    BY DEF SuccessIsReal, Job
  <2>1. CASE n = t
    BY <1>1, <2>1 DEF At, Free
  <2>2. CASE n # t
    <3>1. At(n, SettleKinds, "attesting") /\ task'[n] = task[n]
      BY <1>1, <2>2 DEF At, Free, Job
    <3>2. Head(task[n].todo) \in Jobs
      BY <3>1, HeadTailProperties DEF At, Free, KeeperInv, TypeOK
    <3>3. book[Head(task[n].todo).market].stage = "settled"
      BY <3>1 DEF KeeperInv, SuccessIsReal, Job
    <3> QED
      BY <3>1, <3>2, <3>3 DEF Jobs, PromiseKept
  <2> QED
    BY <2>1, <2>2
<1>4. PendingSince' /\ saved' = pending'
  BY DEF PendingKept, PendingSince
<1>5. \A n \in Tasks : JobsDueNext(task'[n].todo)
  <2> SUFFICES ASSUME NEW n \in Tasks, NEW i \in DOMAIN task'[n].todo,
                      task'[n].todo[i].kind = "final"
               PROVE  DueNext(task'[n].todo[i].market)
    BY DEF JobsDueNext
  <2>1. CASE n = t
    BY <1>1, <2>1 DEF JobsDueNext
  <2>2. CASE n # t
    <3>1. task'[n] = task[n] /\ task[n].todo \in Seq(Jobs)
      BY <1>1, <2>2 DEF KeeperInv, TypeOK
    <3>2. task[n].todo[i].market \in Markets
      BY <3>1, JobAt
    <3>3. Due(task[n].todo[i].market)
      BY <3>1 DEF KeeperInv, FinalsDue, JobsDue
    <3> QED
      BY <3>1, <3>2, <3>3, StaysDue
  <2> QED
    BY <2>1, <2>2
<1>6. FinalsDue'
  BY <1>5 DEF FinalsDue, JobsDue, Due, JobsDueNext, DueNext
<1>7. Rested'
  BY <1>1 DEF KeeperInv, Rested, Free
<1> QED
  BY <1>2, <1>3, <1>4, <1>6, <1>7 DEF KeeperInv

-----------------------------------------------------------------------------
(* An activity that goes on with its job, and one that is done with it.    *)
LEMMA ItsJob ==
    ASSUME KeeperInv, NEW t \in Tasks, ~Free(t)
    PROVE  /\ task[t] \in Activity /\ task[t].todo \in Seq(Jobs)
           /\ Job(t) \in Jobs /\ Job(t).market \in Markets
           /\ Tail(task[t].todo) \in Seq(Jobs)
           /\ 1 \in DOMAIN task[t].todo /\ Job(t) = task[t].todo[1]
           /\ \A i \in DOMAIN Tail(task[t].todo) :
                 /\ i + 1 \in DOMAIN task[t].todo
                 /\ Tail(task[t].todo)[i] = task[t].todo[i + 1]
<1>1. task[t] \in Activity /\ task[t].todo \in Seq(Jobs) /\ task[t].todo # <<>>
  BY DEF KeeperInv, TypeOK, Activity, Free
<1>2. /\ Head(task[t].todo) \in Jobs /\ Tail(task[t].todo) \in Seq(Jobs)
      /\ Len(Tail(task[t].todo)) = Len(task[t].todo) - 1
      /\ \A i \in 1..Len(Tail(task[t].todo)) :
            Tail(task[t].todo)[i] = task[t].todo[i + 1]
      /\ Len(task[t].todo) \in Nat \ {0}
      /\ DOMAIN task[t].todo = 1..Len(task[t].todo)
      /\ Head(task[t].todo) = task[t].todo[1]
  BY <1>1, HeadTailProperties, EmptySeq, LenProperties
<1>3. DOMAIN Tail(task[t].todo) = 1..Len(Tail(task[t].todo))
  BY <1>2, LenProperties
<1> QED
  BY <1>1, <1>2, <1>3 DEF Job, Jobs

LEMMA OwnJobsDue ==
    ASSUME KeeperInv, PromiseKept, PendingKept, NEW t \in Tasks,
           NEW todo \in Seq(Jobs),
           \A i \in DOMAIN todo : \E j \in DOMAIN task[t].todo :
              todo[i] = task[t].todo[j]
    PROVE  JobsDueNext(todo)
<1> SUFFICES ASSUME NEW i \in DOMAIN todo, todo[i].kind = "final"
             PROVE  DueNext(todo[i].market)
  BY DEF JobsDueNext
<1>1. todo[i].market \in Markets
  BY JobAt
<1>2. Due(todo[i].market)
  BY DEF KeeperInv, FinalsDue, JobsDue
<1> QED
  BY <1>1, <1>2, StaysDue

LEMMA PlaceSet ==
    ASSUME NEW r \in Activity, NEW place
    PROVE  [r EXCEPT !.at = place] = [todo |-> r.todo, at |-> place,
                                      index |-> r.index, closesAt |-> r.closesAt]
BY DEF Activity

LEMMA MovedTo ==
    ASSUME KeeperInv, NEW t \in Tasks, NEW place
    PROVE  Goto(t, place)
              = [task EXCEPT ![t] = [todo |-> task[t].todo, at |-> place,
                       index |-> task[t].index, closesAt |-> task[t].closesAt]]
<1>1. task \in [Tasks -> Activity] /\ task[t] \in Activity
  BY DEF KeeperInv, TypeOK, Activity
<1>2. [task[t] EXCEPT !.at = place]
         = [todo |-> task[t].todo, at |-> place,
                       index |-> task[t].index, closesAt |-> task[t].closesAt]
  BY <1>1, PlaceSet
<1>3. [task EXCEPT ![t].at = place] = [task EXCEPT ![t] = [task[t] EXCEPT !.at = place]]
  BY <1>1
<1> QED
  BY <1>2, <1>3 DEF Goto

LEMMA MovedWithIndex ==
    ASSUME KeeperInv, NEW t \in Tasks, NEW place, NEW index
    PROVE  [task EXCEPT ![t].at = place, ![t].index = index]
              = [task EXCEPT ![t] = [todo |-> task[t].todo, at |-> place,
                       index |-> index, closesAt |-> task[t].closesAt]]
<1>1. task \in [Tasks -> Activity] /\ task[t] \in Activity
  BY DEF KeeperInv, TypeOK, Activity
<1> DEFINE q == [task[t] EXCEPT !.at = place]
<1>2. [task[t] EXCEPT !.at = place, !.index = index]
         = [todo |-> task[t].todo, at |-> place,
                       index |-> index, closesAt |-> task[t].closesAt]
  <2>1. q = [todo |-> task[t].todo, at |-> place,
             index |-> task[t].index, closesAt |-> task[t].closesAt]
    BY <1>1, PlaceSet
  <2>2. [task[t] EXCEPT !.at = place, !.index = index] = [q EXCEPT !.index = index]
    OBVIOUS
  <2> HIDE DEF q
  <2>3. [q EXCEPT !.index = index]
           = [todo |-> task[t].todo, at |-> place,
                       index |-> index, closesAt |-> task[t].closesAt]
    BY <2>1
  <2> QED
    BY <2>2, <2>3
<1>3. [task EXCEPT ![t].at = place, ![t].index = index] = [task EXCEPT ![t] = [task[t] EXCEPT !.at = place, !.index = index]]
  BY <1>1
<1> QED
  BY <1>2, <1>3

LEMMA MovedWithClose ==
    ASSUME KeeperInv, NEW t \in Tasks, NEW place, NEW closesAt
    PROVE  [task EXCEPT ![t].at = place, ![t].closesAt = closesAt]
              = [task EXCEPT ![t] = [todo |-> task[t].todo, at |-> place,
                       index |-> task[t].index, closesAt |-> closesAt]]
<1>1. task \in [Tasks -> Activity] /\ task[t] \in Activity
  BY DEF KeeperInv, TypeOK, Activity
<1> DEFINE q == [task[t] EXCEPT !.at = place]
<1>2. [task[t] EXCEPT !.at = place, !.closesAt = closesAt]
         = [todo |-> task[t].todo, at |-> place,
                       index |-> task[t].index, closesAt |-> closesAt]
  <2>1. q = [todo |-> task[t].todo, at |-> place,
             index |-> task[t].index, closesAt |-> task[t].closesAt]
    BY <1>1, PlaceSet
  <2>2. [task[t] EXCEPT !.at = place, !.closesAt = closesAt] = [q EXCEPT !.closesAt = closesAt]
    OBVIOUS
  <2> HIDE DEF q
  <2>3. [q EXCEPT !.closesAt = closesAt]
           = [todo |-> task[t].todo, at |-> place,
                       index |-> task[t].index, closesAt |-> closesAt]
    BY <2>1
  <2> QED
    BY <2>2, <2>3
<1>3. [task EXCEPT ![t].at = place, ![t].closesAt = closesAt] = [task EXCEPT ![t] = [task[t] EXCEPT !.at = place, !.closesAt = closesAt]]
  BY <1>1
<1> QED
  BY <1>2, <1>3

LEMMA GoesOn ==
    ASSUME KeeperInv, PromiseKept, PendingKept, NEW t \in Tasks, ~Free(t),
           NEW place \in Places, NEW index \in Nat, NEW closesAt \in Nat,
           task' = [task EXCEPT ![t] = [todo |-> task[t].todo, at |-> place,
                                        index |-> index, closesAt |-> closesAt]],
           openMarkets' \in Seq(Markets), UNCHANGED feedVars,
           place = "attesting" => book'[Job(t).market].stage = "settled"
    PROVE  KeeperInv'
<1> DEFINE r == [todo |-> task[t].todo, at |-> place,
                 index |-> index, closesAt |-> closesAt]
<1>1. r \in Activity /\ r.todo = task[t].todo /\ r.at = place
  BY DEF KeeperInv, TypeOK, Activity
<1>2. task' = [task EXCEPT ![t] = r]
  OBVIOUS
<1> HIDE DEF r
<1>3. JobsDueNext(r.todo)
  BY <1>1, OwnJobsDue, ItsJob
<1>4. UNCHANGED restarts /\ seen' \subseteq Matches /\ ended' \subseteq Matches
  BY DEF feedVars, KeeperInv, TypeOK
<1> QED
  BY <1>1, <1>2, <1>3, <1>4, StepOf DEF Job, Free

LEMMA Done ==
    ASSUME KeeperInv, PromiseKept, PendingKept, NEW t \in Tasks, ~Free(t),
           task' = Advance(t),
           openMarkets' \in Seq(Markets), UNCHANGED feedVars
    PROVE  KeeperInv'
<1> DEFINE r == [Resting EXCEPT !.todo = Tail(task[t].todo)]
<1>1. r \in Activity /\ r.at = "ready" /\ r.todo = Tail(task[t].todo)
  BY ItsJob DEF Resting, Activity, Places
<1>2. task' = [task EXCEPT ![t] = r]
  BY DEF Advance
<1> HIDE DEF r
<1>3. JobsDueNext(r.todo)
  BY <1>1, OwnJobsDue, ItsJob
<1>4. UNCHANGED restarts /\ seen' \subseteq Matches /\ ended' \subseteq Matches
  BY DEF feedVars, KeeperInv, TypeOK
<1> QED
  BY <1>1, <1>2, <1>3, <1>4, StepOf

LEMMA GoesTo ==
    ASSUME KeeperInv, PromiseKept, PendingKept, NEW t \in Tasks, ~Free(t),
           NEW place \in Places, task' = Goto(t, place),
           openMarkets' \in Seq(Markets), UNCHANGED feedVars,
           place # "attesting"
    PROVE  KeeperInv'
<1>1. task[t] \in Activity
  BY ItsJob
<1>2. task' = [task EXCEPT ![t] = [todo |-> task[t].todo, at |-> place,
                      index |-> task[t].index, closesAt |-> task[t].closesAt]]
  BY MovedTo
<1>3. task[t].index \in Nat /\ task[t].closesAt \in Nat
  BY <1>1 DEF Activity
<1> QED
  BY <1>2, <1>3, GoesOn

LEMMA GivesUp ==
    ASSUME KeeperInv, PromiseKept, PendingKept, NEW t \in Tasks, ~Free(t),
           task' = AfterFailure(t),
           openMarkets' \in Seq(Markets), UNCHANGED feedVars
    PROVE  KeeperInv'
<1>1. CASE Job(t).kind = "final"
  <2>1. task[t] \in Activity
    BY ItsJob
  <2>2. task' = [task EXCEPT ![t].at = "voiding", ![t].index = 0]
    BY <1>1 DEF AfterFailure
  <2>3. task' = [task EXCEPT ![t] = [todo |-> task[t].todo, at |-> "voiding",
                        index |-> 0, closesAt |-> task[t].closesAt]]
    <3>1. \A place, index :
             [task EXCEPT ![t].at = place, ![t].index = index]
                = [task EXCEPT ![t] = [todo |-> task[t].todo, at |-> place,
                       index |-> index, closesAt |-> task[t].closesAt]]
      BY MovedWithIndex
    <3>2. [task EXCEPT ![t].at = "voiding", ![t].index = 0]
             = [task EXCEPT ![t] = [todo |-> task[t].todo, at |-> "voiding",
                       index |-> 0, closesAt |-> task[t].closesAt]]
      BY <3>1, Zenon
    <3> QED
      BY <2>2, <3>2, Zenon
  <2>4. task[t].closesAt \in Nat /\ "voiding" \in Places /\ 0 \in Nat
    BY <2>1 DEF Activity, Places
  <2>5. "voiding" # "attesting"
    OBVIOUS
  <2> QED
    BY <2>3, <2>4, <2>5, GoesOn, Zenon
<1>2. CASE Job(t).kind # "final"
  BY <1>2, Done DEF AfterFailure
<1> QED
  BY <1>1, <1>2

-----------------------------------------------------------------------------
(* The programs' part of a step: what is settled stays so.                 *)
LEMMA BookStep ==
    ASSUME KeeperInv, NEW m \in Markets, NEW e \in Entry,
           book' = [book EXCEPT ![m] = e], UNCHANGED time,
           book[m].stage = "settled" => e.stage = "settled"
    PROVE  PromiseKept /\ book'[m] = e
<1>1. time \in Nat /\ time \in 0..MaxClock /\ book \in [Markets -> Entry]
  BY Clock DEF KeeperInv, TypeOK
<1> QED
  BY <1>1 DEF PromiseKept

LEMMA EntryOf ==
    ASSUME KeeperInv, NEW m \in Markets
    PROVE  /\ book \in [Markets -> Entry] /\ book[m] \in Entry
           /\ time \in Nat /\ book[m].decidedAt \in Nat /\ book[m].closesAt \in Nat
BY Clock DEF KeeperInv, TypeOK, Entry

LEMMA OpenKept ==
    ASSUME KeeperInv, NEW m \in Markets, NEW c \in Nat, Open(m, c)
    PROVE  PromiseKept
<1> DEFINE e == [book[m] EXCEPT !.stage = "open", !.closesAt = c]
<1>1. e \in Entry /\ book' = [book EXCEPT ![m] = e]
      /\ book[m].stage = "none" /\ UNCHANGED time
  BY EntryOf DEF Open, Entry, Stages
<1> QED
  BY <1>1, BookStep

LEMMA ProveKept ==
    ASSUME KeeperInv, NEW m \in Markets, Prove(m) PROVE PromiseKept
<1> DEFINE e == [book[m] EXCEPT !.receipt = TRUE]
<1>1. e \in Entry /\ e.stage = book[m].stage
      /\ book' = [book EXCEPT ![m] = e] /\ UNCHANGED time
  BY EntryOf DEF Prove, Entry
<1> QED
  BY <1>1, BookStep

LEMMA DecideKept ==
    ASSUME KeeperInv, NEW m \in Markets, NEW verdict \in Decided, Decide(m, verdict)
    PROVE  PromiseKept /\ book'[m].stage = verdict
<1> DEFINE e == [book[m] EXCEPT !.stage = verdict, !.decidedAt = time]
<1>1. e \in Entry /\ e.stage = verdict /\ book[m].stage = "open"
      /\ book' = [book EXCEPT ![m] = e] /\ UNCHANGED time
  BY EntryOf DEF Decide, Entry, Stages
<1> QED
  BY <1>1, BookStep

LEMMA BundleKept ==
    ASSUME KeeperInv, NEW m \in Markets, BundleTx(m)
    PROVE  PromiseKept /\ book'[m].stage = "settled"
<1> DEFINE e == [book[m] EXCEPT !.receipt = TRUE, !.stage = "settled",
                                !.decidedAt = time]
<1>1. e \in Entry /\ e.stage = "settled" /\ book[m].stage = "open"
      /\ book' = [book EXCEPT ![m] = e] /\ UNCHANGED time
  BY EntryOf DEF BundleTx, Entry, Stages, Decided
<1> QED
  BY <1>1, BookStep

-----------------------------------------------------------------------------
(* The pending settlements' part of a step.                                *)
LEMMA Dropped ==
    ASSUME KeeperInv, PromiseKept, NEW m \in Markets, SetPending(m, None),
           UNCHANGED firstPending
    PROVE  PendingKept
<1>1. /\ pending' = [pending EXCEPT ![m] = None] /\ saved' = pending'
      /\ {pending, firstPending} \subseteq [Markets -> 0..MaxClock \cup {None}]
  BY DEF SetPending, KeeperInv, TypeOK
<1>2. \A n \in Markets : firstPending[n] # None => firstPending[n] <= time'
  <2> SUFFICES ASSUME NEW n \in Markets, firstPending[n] # None
               PROVE  firstPending[n] <= time'
    OBVIOUS
  <2>1. time' \in Nat /\ time <= time' /\ time \in Nat
        /\ firstPending[n] \in Nat /\ firstPending[n] <= time
    BY Clock DEF PromiseKept, KeeperInv, PendingSince
  <2> QED
    BY <2>1
<1>3. \A n \in Markets : pending'[n] # None => pending'[n] = pending[n]
  BY <1>1
<1>4. pending' \in [Markets -> 0..MaxClock \cup {None}]
  BY <1>1
<1>5. \A n \in Markets : pending'[n] # None =>
         firstPending'[n] # None /\ firstPending'[n] <= pending'[n]
  BY <1>3 DEF KeeperInv, PendingSince
<1> QED
  BY <1>1, <1>2, <1>4, <1>5 DEF PendingKept

LEMMA Enqueued ==
    ASSUME KeeperInv, UNCHANGED promiseVars, NEW m \in Markets,
           EnqueueSettlementRetry(m)
    PROVE  PendingKept
<1> DEFINE value == IF time - EnqueuedAt(m) > GiveUp THEN None ELSE EnqueuedAt(m)
           first == IF firstPending[m] = None THEN time ELSE firstPending[m]
<1>1. /\ time \in Nat /\ time \in 0..MaxClock /\ time' = time /\ None \notin Nat
      /\ {pending, firstPending} \subseteq [Markets -> 0..MaxClock \cup {None}]
  BY Clock DEF promiseVars, KeeperInv, TypeOK
<1>2. /\ pending' = [pending EXCEPT ![m] = value] /\ saved' = pending'
      /\ firstPending' = [firstPending EXCEPT ![m] = first]
  BY DEF EnqueueSettlementRetry, SetPending
<1>3. first \in 0..MaxClock /\ first \in Nat /\ first <= time /\ first # None
  BY <1>1, Clock DEF KeeperInv, PendingSince
<1>4. firstPending[m] # None => first = firstPending[m]
  OBVIOUS
<1>5. EnqueuedAt(m) \in 0..MaxClock /\ EnqueuedAt(m) \in Nat /\ first <= EnqueuedAt(m)
  <2>1. CASE pending[m] = None
    BY <1>1, <1>3, <2>1 DEF EnqueuedAt
  <2>2. CASE pending[m] # None
    <3>1. firstPending[m] # None /\ firstPending[m] <= pending[m]
      BY <2>2 DEF KeeperInv, PendingSince
    <3>2. pending[m] \in 0..MaxClock /\ pending[m] \in Nat
      BY <2>2, Clock DEF KeeperInv
    <3> QED
      BY <1>4, <2>2, <3>1, <3>2 DEF EnqueuedAt
  <2> QED
    BY <2>1, <2>2
<1>6. value \in 0..MaxClock \cup {None} /\ (value # None => first <= value)
  BY <1>5
<1> HIDE DEF value, first
<1>7. {pending', firstPending'} \subseteq [Markets -> 0..MaxClock \cup {None}]
  BY <1>1, <1>2, <1>3, <1>6
<1>8. \A n \in Markets :
         /\ n = m => pending'[n] = value /\ firstPending'[n] = first
         /\ n # m => pending'[n] = pending[n] /\ firstPending'[n] = firstPending[n]
  BY <1>1, <1>2
<1>9. \A n \in Markets :
         /\ firstPending[n] # None => firstPending'[n] = firstPending[n]
         /\ firstPending'[n] # None => firstPending'[n] <= time'
         /\ pending'[n] # None =>
               firstPending'[n] # None /\ firstPending'[n] <= pending'[n]
  BY <1>1, <1>3, <1>4, <1>6, <1>8 DEF KeeperInv, PendingSince
<1> QED
  BY <1>2, <1>7, <1>9 DEF PendingKept

-----------------------------------------------------------------------------
(* The steps of an activity.                                               *)
LEMMA Busy ==
    ASSUME KeeperInv, NEW t \in Tasks, NEW kinds, NEW place, At(t, kinds, place)
    PROVE  /\ ~Free(t) /\ Job(t).kind \in kinds /\ task[t].at = place
           /\ Job(t).market \in Markets /\ task[t].index \in Nat
           /\ task[t].closesAt \in Nat /\ openMarkets \in Seq(Markets)
<1>1. ~Free(t) /\ Job(t).kind \in kinds /\ task[t].at = place
  BY DEF At
<1>2. task[t] \in Activity /\ Job(t).market \in Markets
  BY <1>1, ItsJob
<1> QED
  BY <1>1, <1>2 DEF Activity, KeeperInv, TypeOK

(* One that leaves the accounts and the pending settlements alone.         *)
LEMMA NothingElse ==
    ASSUME KeeperInv, UNCHANGED <<promiseVars, pending, saved, firstPending>>
    PROVE  PromiseKept /\ PendingKept
BY SamePromise, SamePending

LEMMA CreateSteps ==
    ASSUME KeeperInv, NEW t \in Tasks,
           \/ BeginCreate(t) \/ CreateMarket(t) \/ CreateLands(t) \/ CreateFails(t)
    PROVE  KeeperInv'
<1>1. CASE BeginCreate(t)
  <2>1. PromiseKept /\ PendingKept
    BY <1>1, NothingElse DEF BeginCreate
  <2>2. task' = [task EXCEPT ![t].at = "looking",
                             ![t].closesAt = time + CloseDelay]
    BY <1>1 DEF BeginCreate
  <2>3. /\ ~Free(t) /\ task[t].index \in Nat /\ openMarkets' \in Seq(Markets)
        /\ UNCHANGED feedVars
    BY <1>1, Busy DEF BeginCreate
  <2>4. time + CloseDelay \in Nat
    BY KeeperAssumption, Clock DEF KeeperInv
  <2>5. \A place, closesAt :
           [task EXCEPT ![t].at = place, ![t].closesAt = closesAt]
              = [task EXCEPT ![t] = [todo |-> task[t].todo, at |-> place,
                       index |-> task[t].index, closesAt |-> closesAt]]
    BY MovedWithClose
  <2>6. task' = [task EXCEPT ![t] = [todo |-> task[t].todo, at |-> "looking",
                    index |-> task[t].index, closesAt |-> time + CloseDelay]]
    BY <2>2, <2>5, Zenon
  <2>7. "looking" \in Places /\ "looking" # "attesting"
    BY DEF Places
  <2> QED
    BY <2>1, <2>3, <2>4, <2>6, <2>7, GoesOn, Zenon
<1>2. CASE CreateMarket(t)
  <2>1. PromiseKept /\ PendingKept
    BY <1>2, NothingElse DEF CreateMarket
  <2>2. ~Free(t) /\ openMarkets' \in Seq(Markets) /\ UNCHANGED feedVars
    <3>1. ~Free(t) /\ openMarkets \in Seq(Markets) /\ Job(t).market \in Markets
      BY <1>2, Busy DEF CreateMarket
    <3> QED
      BY <1>2, <3>1 DEF CreateMarket
  <2> QED
    BY <1>2, <2>1, <2>2, Done, GoesTo DEF CreateMarket, Places
<1>3. CASE CreateLands(t)
  <2>1. /\ ~Free(t) /\ openMarkets' \in Seq(Markets) /\ UNCHANGED feedVars
        /\ Job(t).market \in Markets /\ task[t].closesAt \in Nat
    BY <1>3, Busy DEF CreateLands
  <2>2. PromiseKept
    BY <1>3, <2>1, OpenKept DEF CreateLands
  <2>3. PendingKept
    BY <1>3, <2>2, SamePending DEF CreateLands
  <2> QED
    BY <1>3, <2>1, <2>2, <2>3, Done DEF CreateLands
<1>4. CASE CreateFails(t)
  <2>1. PromiseKept /\ PendingKept
    BY <1>4, NothingElse DEF CreateFails
  <2>2. ~Free(t) /\ openMarkets' \in Seq(Markets) /\ UNCHANGED feedVars
    BY <1>4, Busy DEF CreateFails
  <2> QED
    BY <1>4, <2>1, <2>2, Done DEF CreateFails
<1> QED
  BY <1>1, <1>2, <1>3, <1>4

LEMMA BeginSettleStep ==
    ASSUME KeeperInv, NEW t \in Tasks, BeginSettle(t) PROVE KeeperInv'
<1> DEFINE m == Job(t).market
           lost == Job(t).kind = "retry" /\ IndexIn(openMarkets, m) = 0
           list == IF lost THEN Append(openMarkets, m) ELSE openMarkets
           idx == IndexIn(list, m)
<1>1. /\ ~Free(t) /\ m \in Markets /\ task[t].closesAt \in Nat
      /\ openMarkets \in Seq(Markets)
  BY Busy DEF BeginSettle
<1>2. list \in Seq(Markets)
  BY <1>1
<1>3. idx \in Nat
  BY <1>2, IndexFound
<1>4. PromiseKept /\ PendingKept
  BY NothingElse DEF BeginSettle
<1>5. openMarkets' = list /\ UNCHANGED feedVars
      /\ task' = IF idx = 0 THEN AfterFailure(t)
                 ELSE [task EXCEPT ![t].at = "proving", ![t].index = idx]
  BY DEF BeginSettle
<1> HIDE DEF m, lost, list, idx
<1>6. CASE idx = 0
  BY <1>1, <1>2, <1>4, <1>5, <1>6, GivesUp
<1>7. CASE idx # 0
  <2>1. \A place, index :
           [task EXCEPT ![t].at = place, ![t].index = index]
              = [task EXCEPT ![t] = [todo |-> task[t].todo, at |-> place,
                     index |-> index, closesAt |-> task[t].closesAt]]
    BY MovedWithIndex
  <2>2. task' = [task EXCEPT ![t].at = "proving", ![t].index = idx]
    BY <1>5, <1>7
  <2>3. task' = [task EXCEPT ![t] = [todo |-> task[t].todo, at |-> "proving",
                     index |-> idx, closesAt |-> task[t].closesAt]]
    BY <2>1, <2>2, Zenon
  <2>4. "proving" \in Places /\ openMarkets' \in Seq(Markets)
    BY <1>2, <1>5 DEF Places
  <2>5. "proving" = "attesting" => book'[Job(t).market].stage = "settled"
    OBVIOUS
  <2>6. ~Free(t) /\ task[t].closesAt \in Nat /\ UNCHANGED feedVars
    BY <1>1, <1>5
  <2> DEFINE closing == task[t].closesAt
  <2> HIDE DEF closing
  <2>7. closing \in Nat
        /\ task' = [task EXCEPT ![t] = [todo |-> task[t].todo, at |-> "proving",
                                       index |-> idx, closesAt |-> closing]]
    BY <2>3, <2>6 DEF closing
  <2> QED
    BY <1>3, <1>4, <2>4, <2>5, <2>6, <2>7, GoesOn
<1> QED
  BY <1>6, <1>7

LEMMA AttemptSteps ==
    ASSUME KeeperInv, NEW t \in Tasks,
           \/ ProofFails(t) \/ ProofArrives(t) \/ BuildSettleTransactions(t)
           \/ AttemptThrows(t) \/ ResolveLands(t)
    PROVE  KeeperInv'
<1>1. CASE ProofFails(t)
  <2>1. /\ ~Free(t) /\ openMarkets' \in Seq(Markets) /\ UNCHANGED feedVars
        /\ Job(t).market \in Markets /\ UNCHANGED promiseVars
    BY <1>1, Busy DEF ProofFails
  <2>2. PromiseKept /\ PendingKept
    BY <1>1, <2>1, SamePromise, Enqueued DEF ProofFails
  <2> QED
    BY <1>1, <2>1, <2>2, GivesUp DEF ProofFails
<1>2. CASE ProofArrives(t)
  <2>1. PromiseKept /\ PendingKept
    BY <1>2, NothingElse DEF ProofArrives
  <2>2. ~Free(t) /\ openMarkets' \in Seq(Markets) /\ UNCHANGED feedVars
    BY <1>2, Busy DEF ProofArrives
  <2> QED
    BY <1>2, <2>1, <2>2, GoesTo DEF ProofArrives, Places
<1>3. CASE BuildSettleTransactions(t)
  <2>1. PromiseKept /\ PendingKept
    BY <1>3, NothingElse DEF BuildSettleTransactions
  <2>2. ~Free(t) /\ openMarkets' \in Seq(Markets) /\ UNCHANGED feedVars
    BY <1>3, Busy DEF BuildSettleTransactions
  <2>3. \E place \in {"bundled", "settling", "resolving"} : task' = Goto(t, place)
    BY <1>3 DEF BuildSettleTransactions
  <2> QED
    BY <2>1, <2>2, <2>3, GoesTo DEF Places
<1>4. CASE AttemptThrows(t)
  <2>1. PromiseKept /\ PendingKept
    BY <1>4, NothingElse DEF AttemptThrows
  <2>2. ~Free(t) /\ openMarkets' \in Seq(Markets) /\ UNCHANGED feedVars
    BY <1>4, Busy DEF AttemptThrows
  <2> QED
    BY <1>4, <2>1, <2>2, GivesUp DEF AttemptThrows
<1>5. CASE ResolveLands(t)
  <2>1. /\ ~Free(t) /\ openMarkets' \in Seq(Markets) /\ UNCHANGED feedVars
        /\ Job(t).market \in Markets
    BY <1>5, Busy DEF ResolveLands
  <2>2. PromiseKept
    BY <1>5, <2>1, ProveKept DEF ResolveLands
  <2>3. PendingKept
    BY <1>5, <2>2, SamePending DEF ResolveLands
  <2>4. task' = Goto(t, "settling") \/ task' = AfterFailure(t)
    BY <1>5 DEF ResolveLands
  <2> QED
    BY <2>1, <2>2, <2>3, <2>4, GoesTo, GivesUp DEF Places
<1> QED
  BY <1>1, <1>2, <1>3, <1>4, <1>5

(* The settlement landed: the answer, or an exception after all.           *)
LEMMA LandedStep ==
    ASSUME KeeperInv, NEW t \in Tasks, ~Free(t), PromiseKept, PendingKept,
           book'[Job(t).market].stage = "settled",
           Settled(t) \/ ThrowsAnyway(t), UNCHANGED feedVars
    PROVE  KeeperInv'
<1>1. /\ task[t] \in Activity /\ task[t].index \in Nat
      /\ task[t].closesAt \in Nat /\ openMarkets \in Seq(Markets)
  BY ItsJob DEF Activity, KeeperInv, TypeOK
<1>2. CASE Settled(t)
  <2>1. openMarkets' \in Seq(Markets)
    BY <1>1, <1>2, SpliceIsSeq DEF Settled
  <2>2. \A place, index :
           [task EXCEPT ![t].at = place, ![t].index = index]
              = [task EXCEPT ![t] = [todo |-> task[t].todo, at |-> place,
                     index |-> index, closesAt |-> task[t].closesAt]]
    BY MovedWithIndex
  <2>3. task' = [task EXCEPT ![t].at = "attesting", ![t].index = 0]
    BY <1>2 DEF Settled
  <2>4. task' = [task EXCEPT ![t] = [todo |-> task[t].todo, at |-> "attesting",
                     index |-> 0, closesAt |-> task[t].closesAt]]
    BY <2>2, <2>3, Zenon
  <2>5. "attesting" \in Places /\ 0 \in Nat
    BY DEF Places
  <2> QED
    BY <1>1, <2>1, <2>4, <2>5, GoesOn, Zenon
<1>3. CASE ThrowsAnyway(t)
  BY <1>1, <1>3, GivesUp DEF ThrowsAnyway
<1> QED
  BY <1>2, <1>3

LEMMA SettleSteps ==
    ASSUME KeeperInv, NEW t \in Tasks,
           BundleLands(t) \/ SettleLands(t) \/ Attest(t)
    PROVE  KeeperInv'
<1>1. CASE BundleLands(t)
  <2>1. ~Free(t) /\ Job(t).market \in Markets
    BY <1>1, Busy DEF BundleLands
  <2>2. PromiseKept /\ book'[Job(t).market].stage = "settled"
    BY <1>1, <2>1, BundleKept DEF BundleLands
  <2>3. PendingKept
    BY <1>1, <2>2, SamePending DEF BundleLands
  <2> QED
    BY <1>1, <2>1, <2>2, <2>3, LandedStep DEF BundleLands
<1>2. CASE SettleLands(t)
  <2>1. ~Free(t) /\ Job(t).market \in Markets
    BY <1>2, Busy DEF SettleLands
  <2>2. PromiseKept /\ book'[Job(t).market].stage = "settled"
    BY <1>2, <2>1, DecideKept DEF SettleLands, SettleTx, Decided
  <2>3. PendingKept
    BY <1>2, <2>2, SamePending DEF SettleLands
  <2> QED
    BY <1>2, <2>1, <2>2, <2>3, LandedStep DEF SettleLands
<1>3. CASE Attest(t)
  <2>1. /\ ~Free(t) /\ openMarkets' \in Seq(Markets) /\ UNCHANGED feedVars
        /\ Job(t).market \in Markets
    BY <1>3, Busy DEF Attest
  <2>2. PromiseKept
    BY <1>3, SamePromise DEF Attest
  <2>3. PendingKept
    BY <1>3, <2>1, <2>2, Dropped DEF Attest
  <2>4. task' = Goto(t, "dropping") \/ task' = Advance(t)
    BY <1>3 DEF Attest
  <2> QED
    BY <2>1, <2>2, <2>3, <2>4, GoesTo, Done DEF Places
<1> QED
  BY <1>1, <1>2, <1>3

LEMMA VoidSteps ==
    ASSUME KeeperInv, NEW t \in Tasks,
           BeginVoid(t) \/ VoidLands(t) \/ VoidFails(t) \/ DropPending(t)
    PROVE  KeeperInv'
<1>1. CASE BeginVoid(t)
  <2>1. PromiseKept /\ PendingKept
    BY <1>1, NothingElse DEF BeginVoid
  <2>2. ~Free(t) /\ openMarkets \in Seq(Markets) /\ UNCHANGED feedVars
    BY <1>1, Busy DEF BeginVoid
  <2>3. openMarkets' \in Seq(Markets)
    BY <1>1, <2>2, IndexFound, SpliceIsSeq DEF BeginVoid
  <2>4. task' = Goto(t, "dropping") \/ task' = Goto(t, "sendingVoid")
    BY <1>1 DEF BeginVoid
  <2> QED
    BY <2>1, <2>2, <2>3, <2>4, GoesTo DEF Places
<1>2. CASE VoidLands(t)
  <2>1. /\ ~Free(t) /\ openMarkets' \in Seq(Markets) /\ UNCHANGED feedVars
        /\ Job(t).market \in Markets
    BY <1>2, Busy DEF VoidLands
  <2>2. PromiseKept
    BY <1>2, <2>1, DecideKept DEF VoidLands, Void, Decided
  <2>3. PendingKept
    BY <1>2, <2>2, SamePending DEF VoidLands
  <2> QED
    BY <1>2, <2>1, <2>2, <2>3, GoesTo DEF VoidLands, Places
<1>3. CASE VoidFails(t)
  <2>1. PromiseKept /\ PendingKept
    BY <1>3, NothingElse DEF VoidFails
  <2>2. ~Free(t) /\ openMarkets' \in Seq(Markets) /\ UNCHANGED feedVars
    BY <1>3, Busy DEF VoidFails
  <2> QED
    BY <1>3, <2>1, <2>2, GoesTo DEF VoidFails, Places
<1>4. CASE DropPending(t)
  <2>1. /\ ~Free(t) /\ openMarkets' \in Seq(Markets) /\ UNCHANGED feedVars
        /\ Job(t).market \in Markets
    BY <1>4, Busy DEF DropPending
  <2>2. PromiseKept
    BY <1>4, SamePromise DEF DropPending
  <2>3. PendingKept
    BY <1>4, <2>1, <2>2, Dropped DEF DropPending
  <2> QED
    BY <1>4, <2>1, <2>2, <2>3, Done DEF DropPending
<1> QED
  BY <1>1, <1>2, <1>3, <1>4

-----------------------------------------------------------------------------
(* A free activity is given jobs.                                          *)
LEMMA Given ==
    ASSUME KeeperInv, NEW t \in Tasks, Free(t),
           UNCHANGED <<promiseVars, openMarkets, pending, saved, restarts,
                       firstPending>>,
           NEW kind \in {"create", "settle", "retry", "final"},
           NEW markets \in Seq(Markets),
           kind = "final" => \A i \in DOMAIN markets : Due(markets[i]),
           task' = [task EXCEPT ![t].todo = Jobs_(kind, markets)],
           seen' \subseteq Matches, ended' \subseteq Matches
    PROVE  KeeperInv'
<1> DEFINE r == [task[t] EXCEPT !.todo = Jobs_(kind, markets)]
<1>1. PromiseKept /\ PendingKept
  BY NothingElse
<1>2. task[t] \in Activity /\ task[t].at = "ready"
  BY DEF KeeperInv, TypeOK, Activity, Rested
<1>3. Jobs_(kind, markets) \in Seq(Jobs)
  BY JobsAreSeq
<1>4. r \in Activity /\ r.todo = Jobs_(kind, markets) /\ r.at = "ready"
  BY <1>2, <1>3 DEF Activity
<1>5. task' = [task EXCEPT ![t] = r]
  BY DEF KeeperInv, TypeOK
<1>6. JobsDueNext(Jobs_(kind, markets))
  <2> SUFFICES ASSUME NEW i \in DOMAIN Jobs_(kind, markets),
                      Jobs_(kind, markets)[i].kind = "final"
               PROVE  DueNext(Jobs_(kind, markets)[i].market)
    BY DEF JobsDueNext
  <2>1. /\ i \in DOMAIN markets
        /\ Jobs_(kind, markets)[i] = [kind |-> kind, market |-> markets[i]]
    BY JobsAreSeq
  <2>2. Due(markets[i]) /\ markets[i] \in Markets
    BY <2>1, LenProperties, ElementOfSeq
  <2> QED
    BY <1>1, <2>1, <2>2, StaysDue
<1> HIDE DEF r
<1>7. openMarkets' \in Seq(Markets)
  BY DEF KeeperInv, TypeOK
<1>8. JobsDueNext(r.todo) /\ r.at # "attesting"
  BY <1>4, <1>6
<1> QED
  BY <1>1, <1>4, <1>5, <1>7, <1>8, StepOf

LEMMA FiniteMarkets ==
    ASSUME NEW S \in SUBSET Markets, NEW order \in SetToSeqs(S)
    PROVE  /\ order \in Seq(S) /\ order \in Seq(Markets)
           /\ \A i \in DOMAIN order : order[i] \in S
<1>1. IsFiniteSet(S)
  BY KeeperAssumption, FS_Subset
<1>2. order \in Seq(S)
  BY <1>1, OrderIsSeq
<1> QED
  BY <1>2, SeqMonotonic, LenProperties, ElementOfSeq

LEMMA EventSteps ==
    ASSUME KeeperInv, NEW t \in Tasks, NEW match \in Matches,
           MatchStarted(t, match) \/ MatchEnded(t, match)
    PROVE  KeeperInv'
<1>1. /\ match \in SUBSET Markets
      /\ seen \subseteq Matches /\ ended \subseteq Matches
      /\ openMarkets \in Seq(Markets)
  BY KeeperAssumption DEF KeeperInv, TypeOK
<1>2. CASE MatchStarted(t, match)
  <2>1. PICK order \in SetToSeqs(match) :
           task' = [task EXCEPT ![t].todo = Jobs_("create", order)]
    BY <1>2 DEF MatchStarted
  <2>2. order \in Seq(Markets)
    BY <1>1, FiniteMarkets
  <2>3. Free(t) /\ seen' \subseteq Matches /\ ended' \subseteq Matches
    BY <1>1, <1>2 DEF MatchStarted
  <2>4. UNCHANGED <<promiseVars, openMarkets, pending, saved, restarts,
                    firstPending>>
    BY <1>2 DEF MatchStarted
  <2> QED
    BY <2>1, <2>2, <2>3, <2>4, Given
<1>3. CASE MatchEnded(t, match)
  <2> DEFINE mine == {i \in DOMAIN openMarkets : openMarkets[i] \in match}
  <2>1. PICK order \in SetToSeqs(mine) :
           task' = [task EXCEPT ![t].todo = Jobs_("settle",
                       [i \in DOMAIN order |-> openMarkets[order[i]]])]
    BY <1>3 DEF MatchEnded
  <2> DEFINE markets == [i \in DOMAIN order |-> openMarkets[order[i]]]
  <2>2. IsFiniteSet(mine)
    <3>1. DOMAIN openMarkets = 1..Len(openMarkets) /\ Len(openMarkets) \in Nat
      BY <1>1, LenProperties
    <3>2. IsFiniteSet(1..Len(openMarkets))
      BY <3>1, FS_Interval
    <3> QED
      BY <3>1, <3>2, FS_Subset
  <2>3. order \in Seq(mine)
    BY <2>2, OrderIsSeq
  <2>4. markets \in Seq(Markets)
    <3>1. DOMAIN order = 1..Len(order) /\ Len(order) \in Nat
          /\ \A i \in 1..Len(order) : order[i] \in mine
      BY <2>3, LenProperties, ElementOfSeq
    <3>2. \A i \in 1..Len(order) : openMarkets[order[i]] \in Markets
      BY <1>1, <3>1, LenProperties, ElementOfSeq
    <3>3. markets \in [1..Len(order) -> Markets]
      BY <3>1, <3>2
    <3> QED
      BY <3>1, <3>3
  <2>5. Free(t) /\ seen' \subseteq Matches /\ ended' \subseteq Matches
    BY <1>1, <1>3 DEF MatchEnded
  <2>6. UNCHANGED <<promiseVars, openMarkets, pending, saved, restarts,
                    firstPending>>
    BY <1>3 DEF MatchEnded
  <2>7. task' = [task EXCEPT ![t].todo = Jobs_("settle", markets)]
    BY <2>1
  <2> HIDE DEF markets
  <2> QED
    BY <2>4, <2>5, <2>6, <2>7, Given
<1> QED
  BY <1>2, <1>3

LEMMA RetryTickStep ==
    ASSUME KeeperInv, NEW t \in Tasks, RetryTick(t) PROVE KeeperInv'
<1>1. PICK due \in SUBSET Pending \ {{}} : \E order \in SetToSeqs(due) :
          task' = [task EXCEPT ![t].todo = Jobs_("retry", order)]
  BY DEF RetryTick
<1>2. PICK order \in SetToSeqs(due) :
          task' = [task EXCEPT ![t].todo = Jobs_("retry", order)]
  BY <1>1
<1>3. due \in SUBSET Markets
  BY DEF Pending
<1>4. order \in Seq(Markets)
  BY <1>3, FiniteMarkets
<1>5. Free(t) /\ seen' \subseteq Matches /\ ended' \subseteq Matches
      /\ UNCHANGED <<promiseVars, openMarkets, pending, saved, restarts, firstPending>>
  BY DEF RetryTick, feedVars, KeeperInv, TypeOK
<1> QED
  BY <1>2, <1>4, <1>5, Given

LEMMA HousekeepTickStep ==
    ASSUME KeeperInv, NEW t \in Tasks, HousekeepTick(t) PROVE KeeperInv'
<1> DEFINE stale == {m \in Markets : Overdue(m)}
<1>1. PICK order \in SetToSeqs(stale) :
          task' = [task EXCEPT ![t].todo = Jobs_("final", order)]
  BY DEF HousekeepTick
<1>2. order \in Seq(Markets) /\ \A i \in DOMAIN order : order[i] \in stale
  BY FiniteMarkets
<1>3. \A m \in stale : Due(m)
  <2> SUFFICES ASSUME NEW m \in Markets, Overdue(m) PROVE Due(m)
    OBVIOUS
  <2>1. /\ pending[m] # None /\ time - pending[m] > GiveUp
        /\ firstPending[m] # None /\ firstPending[m] <= pending[m]
    BY DEF Overdue, KeeperInv, PendingSince
  <2>2. /\ pending[m] \in Nat /\ firstPending[m] \in Nat
        /\ time \in Nat /\ GiveUp \in Nat
    BY <2>1, Clock DEF KeeperInv
  <2> QED
    BY <2>1, <2>2 DEF Due
<1>4. Free(t) /\ seen' \subseteq Matches /\ ended' \subseteq Matches
      /\ UNCHANGED <<promiseVars, openMarkets, pending, saved, restarts, firstPending>>
  BY DEF HousekeepTick, feedVars, KeeperInv, TypeOK
<1> QED
  BY <1>1, <1>2, <1>3, <1>4, Given

-----------------------------------------------------------------------------
(* Time, everyone else, and a restart.                                     *)
LEMMA WorldStep ==
    ASSUME KeeperInv, PromiseKept, UNCHANGED <<keeperVars, feedVars, firstPending>>
    PROVE  KeeperInv'
<1>1. PendingKept
  BY SamePending DEF keeperVars
<1>2. UNCHANGED <<openMarkets, pending, saved, task, seen, ended, restarts,
                  firstPending>>
  BY DEF keeperVars, feedVars
<1>3. TypeOK'
  BY <1>2 DEF KeeperInv, TypeOK, PromiseKept
<1>4. PendingSince' /\ saved' = pending'
  BY <1>1 DEF PendingKept, PendingSince
<1>5. Rested'
  BY <1>2 DEF KeeperInv, Rested, Free
<1>6. SuccessIsReal'
  <2> SUFFICES ASSUME NEW n \in Tasks, At(n, SettleKinds, "attesting")
               PROVE  book'[Job(n).market].stage = "settled"
    BY <1>2 DEF SuccessIsReal, At, Free, Job
  <2>1. Job(n).market \in Markets
    BY Busy
  <2> QED
    BY <2>1 DEF KeeperInv, SuccessIsReal, PromiseKept
<1>7. \A n \in Tasks : JobsDueNext(task[n].todo)
  <2> SUFFICES ASSUME NEW n \in Tasks PROVE JobsDueNext(task[n].todo)
    OBVIOUS
  <2>1. task[n].todo \in Seq(Jobs)
    BY DEF KeeperInv, TypeOK
  <2> QED
    BY <1>1, <2>1, OwnJobsDue
<1>8. FinalsDue'
  BY <1>2, <1>7 DEF FinalsDue, JobsDue, Due, JobsDueNext, DueNext
<1> QED
  BY <1>3, <1>4, <1>5, <1>6, <1>8 DEF KeeperInv

LEMMA PassKept == ASSUME KeeperInv, Pass PROVE PromiseKept
<1>1. time \in Nat /\ MaxClock \in Nat /\ time' = time + 1 /\ time < MaxClock
      /\ book' = book
  BY Clock DEF KeeperInv, Pass
<1> QED
  BY <1>1 DEF PromiseKept, KeeperInv, TypeOK

LEMMA OthersKept == ASSUME KeeperInv, OthersStep PROVE PromiseKept
<1>1. PICK m \in Markets : \/ \E c \in CloseTimes : Open(m, c)
                           \/ Prove(m) \/ Decide(m, "settled") \/ Void(m)
  BY DEF OthersStep
<1>2. CloseTimes \subseteq Nat /\ {"settled", "void"} = Decided
  BY PromiseAssumption DEF Decided
<1> QED
  BY <1>1, <1>2, OpenKept, ProveKept, DecideKept DEF Void

LEMMA RestartStep == ASSUME KeeperInv, Restart PROVE KeeperInv'
<1>1. PICK order \in SetToSeqs({m \in Markets : saved[m] # None}) :
         openMarkets' = order
  BY DEF Restart
<1>2. openMarkets' \in Seq(Markets)
  BY <1>1, FiniteMarkets
<1>3. /\ task' = [t \in Tasks |-> Resting] /\ pending' = saved
      /\ UNCHANGED <<time, book, saved, ended, firstPending>> /\ seen' = {}
      /\ restarts' = restarts + 1 /\ restarts < MaxRestarts
  BY DEF Restart, promiseVars
<1>4. Resting \in Activity /\ Resting.at = "ready" /\ Resting.todo = <<>>
  BY DEF Resting, Activity, Places
<1>5. restarts' \in 0..MaxRestarts
  <2>1. MaxRestarts \in Nat
    BY KeeperAssumption
  <2> QED
    BY <1>3, <2>1 DEF KeeperInv, TypeOK
<1>6. TypeOK'
  BY <1>2, <1>3, <1>4, <1>5 DEF KeeperInv, TypeOK, Activity
<1>7. saved' = pending' /\ PendingSince'
  BY <1>3 DEF KeeperInv, PendingSince
<1>8. Rested' /\ SuccessIsReal' /\ FinalsDue'
  BY <1>3, <1>4 DEF Rested, SuccessIsReal, At, Free, FinalsDue, JobsDue
<1> QED
  BY <1>6, <1>7, <1>8 DEF KeeperInv

-----------------------------------------------------------------------------
LEMMA InitKeeps == KeeperInit => KeeperInv
<1> SUFFICES ASSUME KeeperInit PROVE KeeperInv
  OBVIOUS
<1>1. MaxRestarts \in Nat /\ MaxClock \in Nat
  BY KeeperAssumption, PromiseAssumption
<1>2. /\ time = 0 /\ book = [m \in Markets |-> NoMarket(FALSE)]
      /\ openMarkets = <<>> /\ pending = [m \in Markets |-> None]
      /\ saved = pending /\ task = [t \in Tasks |-> Resting]
      /\ seen = {} /\ ended = {} /\ restarts = 0
      /\ firstPending = [m \in Markets |-> None]
  BY DEF KeeperInit, PromiseInit
<1>3. Resting \in Activity /\ Resting.at = "ready" /\ Resting.todo = <<>>
  BY DEF Resting, Activity, Places
<1>4. NoMarket(FALSE) \in Entry
  BY DEF NoMarket, Entry, Stages
<1>5. TypeOK
  <2>1. time \in 0..MaxClock /\ restarts \in 0..MaxRestarts
    BY <1>1, <1>2
  <2>2. book \in [Markets -> Entry] /\ openMarkets \in Seq(Markets)
    <3>1. \A m \in Markets : book[m] \in Entry
      BY <1>2, <1>4, Zenon
    <3>2. DOMAIN book = Markets /\ book = [m \in Markets |-> book[m]]
      BY <1>2, Zenon
    <3>3. openMarkets \in Seq(Markets)
      BY <1>2
    <3> QED
      BY <3>1, <3>2, <3>3, Zenon
  <2>3. task \in [Tasks -> Activity]
    BY <1>2, <1>3
  <2>4. {pending, saved, firstPending} \subseteq [Markets -> 0..MaxClock \cup {None}]
    BY <1>2
  <2> QED
    BY <1>2, <2>1, <2>2, <2>3, <2>4 DEF TypeOK, Activity
<1>6. Rested /\ SuccessIsReal /\ FinalsDue
  <2>1. \A t \in Tasks : Free(t) /\ task[t].at = "ready"
    BY <1>2, <1>3 DEF Free
  <2>2. \A t \in Tasks : DOMAIN task[t].todo = {}
    BY <1>2, <1>3
  <2> QED
    BY <2>1, <2>2 DEF Rested, SuccessIsReal, At, FinalsDue, JobsDue
<1>7. saved = pending /\ PendingSince
  BY <1>2 DEF PendingSince
<1> QED
  BY <1>5, <1>6, <1>7 DEF KeeperInv

LEMMA NextKeeps == KeeperInv /\ [KeeperNext]_vars => KeeperInv'
<1> SUFFICES ASSUME KeeperInv, [KeeperNext]_vars PROVE KeeperInv'
  OBVIOUS
<1>1. EventTasks \subseteq Tasks /\ RetryTasks \subseteq Tasks /\ HouseTasks \subseteq Tasks
  BY DEF Tasks
<1>2. CASE PassStep
  BY <1>2, PassKept, WorldStep DEF PassStep
<1>3. CASE OthersStep
  BY <1>3, OthersKept, WorldStep DEF OthersStep
<1>4. CASE Restart
  BY <1>4, RestartStep
<1>5. ASSUME NEW t \in RetryTasks, RetryTick(t) PROVE KeeperInv'
  BY <1>1, <1>5, RetryTickStep
<1>6. ASSUME NEW t \in HouseTasks, HousekeepTick(t) PROVE KeeperInv'
  BY <1>1, <1>6, HousekeepTickStep
<1>7. ASSUME NEW t \in EventTasks, NEW match \in Matches,
             MatchStarted(t, match) \/ MatchEnded(t, match)
      PROVE  KeeperInv'
  BY <1>1, <1>7, EventSteps
<1>8. ASSUME NEW t \in Tasks, TaskStep(t) PROVE KeeperInv'
  BY <1>8, CreateSteps, BeginSettleStep, AttemptSteps, SettleSteps, VoidSteps
     DEF TaskStep
<1>9. CASE UNCHANGED vars
  <2>1. UNCHANGED promiseVars /\ UNCHANGED <<keeperVars, feedVars, firstPending>>
    BY <1>9 DEF vars
  <2> QED
    BY <2>1, SamePromise, WorldStep
<1> QED
  BY <1>2, <1>3, <1>4, <1>5, <1>6, <1>7, <1>8, <1>9 DEF KeeperNext

LEMMA KeeperInvAlways == KeeperSpec => []KeeperInv
BY InitKeeps, NextKeeps, PTL DEF KeeperSpec

-----------------------------------------------------------------------------
(* The types of the tracked markets, the pending settlements and of what   *)
(* each activity has still to do.                                          *)
THEOREM LoopTyped == KeeperSpec => []TypeOK
<1>1. KeeperInv => TypeOK
  BY DEF KeeperInv
<1> QED
  BY <1>1, KeeperInvAlways, PTL

(* submitSignedTx: a market is taken for settled only when the chain has   *)
(* it so, however many activities settle and void it at once, and whatever *)
(* everyone else does with it.                                             *)
THEOREM SettledIsReal == KeeperSpec => []SuccessIsReal
<1>1. KeeperInv => SuccessIsReal
  BY DEF KeeperInv
<1> QED
  BY <1>1, KeeperInvAlways, PTL

(* The keeper voids no market before its window for proofs is over: what   *)
(* is on a list of markets to void was due when the list was made, the     *)
(* time a market is pending since is never before the first one, and a     *)
(* restart reads it back from the file.                                    *)
THEOREM VoidHadItsWindow == KeeperSpec => []VoidWaitsForProof
<1>1. KeeperInv => VoidWaitsForProof
  <2> SUFFICES ASSUME KeeperInv, NEW t \in Tasks, At(t, {"final"}, "sendingVoid")
               PROVE  Due(Job(t).market)
    BY DEF VoidWaitsForProof, Due
  <2>1. 1 \in DOMAIN task[t].todo /\ Job(t) = task[t].todo[1] /\ Job(t).kind = "final"
    BY ItsJob DEF At
  <2> QED
    BY <2>1 DEF KeeperInv, FinalsDue, JobsDue
<1> QED
  BY <1>1, KeeperInvAlways, PTL

(* A restart loses no pending settlement: the file is written at every     *)
(* change of them.                                                         *)
THEOREM NothingPendingIsLost == KeeperSpec => RestartKeepsPending
<1>1. KeeperInv /\ [KeeperNext]_vars
         => [restarts' # restarts => pending' = pending]_vars
  <2> SUFFICES ASSUME KeeperInv, KeeperNext, restarts' # restarts
               PROVE  pending' = pending
    BY DEF vars, feedVars
  <2>1. Restart
    BY DEF KeeperNext, PassStep, OthersStep, RetryTick, HousekeepTick,
           MatchStarted, MatchEnded, TaskStep, BeginCreate, CreateMarket,
           CreateLands, CreateFails, BeginSettle, ProofFails, ProofArrives,
           BuildSettleTransactions, AttemptThrows, BundleLands, ResolveLands,
           SettleLands, Attest, BeginVoid, VoidLands, VoidFails, DropPending,
           feedVars
  <2> QED
    BY <2>1 DEF Restart, KeeperInv
<1> QED
  BY <1>1, KeeperInvAlways, PTL DEF KeeperSpec, RestartKeepsPending

(* A settlement stops being pending only when the market is settled on     *)
(* chain or its window for a proof is over (loop.ts:735-746, 868-893):     *)
(* no failed attempt, overlapping pass or restart ends it before.          *)
PendingEndsForAReason ==
    [][\A m \in Markets : pending[m] # None /\ pending'[m] = None =>
          book[m].stage = "settled" \/ Due(m)]_vars

(* Only three steps change what is pending.                                *)
LEMMA PendingChanges ==
    ASSUME KeeperInv, KeeperNext, pending' # pending
    PROVE  \E t \in Tasks : ProofFails(t) \/ Attest(t) \/ DropPending(t)
<1>1. ~Restart
  BY DEF Restart, KeeperInv
<1>2. ~PassStep /\ ~OthersStep
  BY DEF PassStep, OthersStep, keeperVars
<1>3. \A t : ~RetryTick(t) /\ ~HousekeepTick(t)
  BY DEF RetryTick, HousekeepTick
<1>4. \A t, match : ~MatchStarted(t, match) /\ ~MatchEnded(t, match)
  BY DEF MatchStarted, MatchEnded
<1>5. PICK t \in Tasks : TaskStep(t)
  BY <1>1, <1>2, <1>3, <1>4 DEF KeeperNext
<1>6. ~BeginCreate(t) /\ ~CreateMarket(t) /\ ~CreateLands(t) /\ ~CreateFails(t)
  BY DEF BeginCreate, CreateMarket, CreateLands, CreateFails
<1>7. ~BeginSettle(t) /\ ~ProofArrives(t) /\ ~BuildSettleTransactions(t)
        /\ ~AttemptThrows(t)
  BY DEF BeginSettle, ProofArrives, BuildSettleTransactions, AttemptThrows
<1>8. ~BundleLands(t) /\ ~ResolveLands(t) /\ ~SettleLands(t)
  BY DEF BundleLands, ResolveLands, SettleLands
<1>9. ~BeginVoid(t) /\ ~VoidLands(t) /\ ~VoidFails(t)
  BY DEF BeginVoid, VoidLands, VoidFails
<1> QED
  BY <1>5, <1>6, <1>7, <1>8, <1>9 DEF TaskStep

(* No settlement is forgotten early, for any number of markets, matches,   *)
(* activities and restarts.                                                *)
THEOREM NoneForgottenEarly == KeeperSpec => PendingEndsForAReason
<1>1. ASSUME KeeperInv, KeeperNext, NEW m \in Markets,
             pending[m] # None, pending'[m] = None
      PROVE  book[m].stage = "settled" \/ Due(m)
  <2>1. PICK t \in Tasks : ProofFails(t) \/ Attest(t) \/ DropPending(t)
    BY <1>1, PendingChanges
  <2>2. ~Free(t)
    BY <2>1 DEF ProofFails, Attest, DropPending, At
  <2>3. /\ Job(t).market \in Markets
        /\ 1 \in DOMAIN task[t].todo /\ Job(t) = task[t].todo[1]
    BY <1>1, <2>2, ItsJob
  <2>4. pending \in [Markets -> 0..MaxClock \cup {None}]
    BY <1>1 DEF KeeperInv, TypeOK
  <2>5. \A value : SetPending(Job(t).market, value) => m = Job(t).market
    BY <1>1, <2>3, <2>4 DEF SetPending
  <2>6. CASE ProofFails(t)
    <3>1. EnqueueSettlementRetry(Job(t).market)
      BY <2>6 DEF ProofFails
    <3>2. m = Job(t).market
      BY <2>5, <3>1 DEF EnqueueSettlementRetry
    <3>3. EnqueuedAt(m) = pending[m] /\ pending[m] \in 0..MaxClock
      BY <1>1, <2>4 DEF EnqueuedAt
    <3>4. SetPending(m, IF time - pending[m] > GiveUp THEN None ELSE pending[m])
      BY <3>1, <3>2, <3>3 DEF EnqueueSettlementRetry
    <3>5. time - pending[m] > GiveUp
      BY <1>1, <2>4, <3>4 DEF SetPending
    <3>6. /\ firstPending[m] \in 0..MaxClock
          /\ firstPending[m] <= pending[m] /\ firstPending[m] # None
      BY <1>1 DEF KeeperInv, PendingSince, TypeOK
    <3>7. time \in Nat /\ GiveUp \in Nat /\ MaxClock \in Nat
      BY <1>1, Clock DEF KeeperInv
    <3> QED
      BY <3>3, <3>5, <3>6, <3>7 DEF Due
  <2>7. CASE Attest(t)
    <3>1. At(t, SettleKinds, "attesting") /\ SetPending(Job(t).market, None)
      BY <2>7 DEF Attest
    <3> QED
      BY <1>1, <2>5, <3>1 DEF KeeperInv, SuccessIsReal
  <2>8. CASE DropPending(t)
    <3>1. Job(t).kind = "final" /\ SetPending(Job(t).market, None)
      BY <2>8 DEF DropPending, At
    <3>2. Due(Job(t).market)
      BY <1>1, <2>3, <3>1 DEF KeeperInv, FinalsDue, JobsDue
    <3> QED
      BY <2>5, <3>1, <3>2
  <2> QED
    BY <2>1, <2>6, <2>7, <2>8
<1>2. KeeperInv /\ [KeeperNext]_vars
         => [\A m \in Markets : pending[m] # None /\ pending'[m] = None =>
               book[m].stage = "settled" \/ Due(m)]_vars
  BY <1>1
<1> QED
  BY <1>2, KeeperInvAlways, PTL DEF KeeperSpec, PendingEndsForAReason

=============================================================================
