----------------------------- MODULE FeedProofs -----------------------------
(***************************************************************************)
(* The score feed, for any number of points, of updates in flight and of   *)
(* faults: the score of a US football match that quotes are priced with    *)
(* was a score of the match, and its start is told once.                   *)
(***************************************************************************)
EXTENDS Feed, SequenceTheorems, TLAPS

Begun == Phases \ {NotStarted}

(* What is said of the score is, or was, true.                             *)
ScoresReal ==
    /\ match.score \in had /\ NoScore \in had
    /\ stream # None =>
          \A i \in DOMAIN stream : stream[i].stats \in had \cup {None}

(* After an update with a later status, none says that the match has not   *)
(* started; after one that says it is over, none has another status.       *)
StatusesInOrder ==
    stream # None =>
        /\ \A i \in DOMAIN stream :
              /\ stream[i].status \in Begun => match.phase \in Begun
              /\ Final(stream[i]) => /\ match.phase = FINAL_STATUS_ID
                                     /\ stream[i].status \in {0, FINAL_STATUS_ID}
        /\ \A i, j \in DOMAIN stream : i < j =>
              /\ stream[i].status \in Begun => stream[j].status # NotStarted
              /\ Final(stream[i]) => stream[j].status \in {0, FINAL_STATUS_ID}

(* The same of the update the source has kept.                             *)
KeptInOrder ==
    prevStatus \in Begun =>
        /\ match.phase \in Begun
        /\ stream # None =>
              \A i \in DOMAIN stream : stream[i].status # NotStarted

EndInOrder ==
    ended =>
        /\ match.phase = FINAL_STATUS_ID
        /\ stream # None =>
              \A i \in DOMAIN stream : stream[i].status \in {0, FINAL_STATUS_ID}

FeedInv ==
    /\ TypeOK
    /\ ScoresReal /\ QuotedScoreWasReal
    /\ StatusesInOrder /\ KeptInOrder /\ EndInOrder
    /\ starts > 0 => prevStatus \in Begun

-----------------------------------------------------------------------------
(* What a step of the match does: it goes on from phase to phase, and      *)
(* sends at most one update, which says what is so.                        *)
NewUpdate(u) ==
    /\ u \in Update
    /\ u.status \in {match'.phase, 0} /\ u.stats \in {match'.score, None}
    /\ u.action = "game_finalised" => match'.phase = FINAL_STATUS_ID

MatchGoesOn ==
    /\ sport' = sport
    /\ match' \in [phase: Phases, score: Score]
    /\ match.phase \in Begun => match'.phase \in Begun
    /\ match.phase = FINAL_STATUS_ID => match'.phase = FINAL_STATUS_ID
    /\ had \subseteq had' /\ had' \subseteq Score /\ match'.score \in had'
    /\ \/ UNCHANGED stream
       \/ /\ stream # None /\ Len(stream) < MaxInFlight
          /\ \E u \in Update : NewUpdate(u) /\ stream' = Append(stream, u)

LEMMA SendsOne ==
    ASSUME match' \in [phase: Phases, score: Score],
           NEW action \in {"goal", "own_goal", "game_finalised", "other"},
           NEW by \in Participants \cup {0},
           action = "game_finalised" => match'.phase = FINAL_STATUS_ID,
           Sends(action, by)
    PROVE  \/ UNCHANGED stream
           \/ /\ stream # None /\ Len(stream) < MaxInFlight
              /\ \E u \in Update : NewUpdate(u) /\ stream' = Append(stream, u)
<1> SUFFICES ASSUME stream # None
             PROVE  /\ Len(stream) < MaxInFlight
                    /\ \E u \in Update : NewUpdate(u) /\ stream' = Append(stream, u)
  BY DEF Sends
<1>1. PICK status \in {match'.phase, 0}, stats \in {match'.score, None},
           participant \in {by, 0} :
              stream' = Append(stream,
                           [status |-> status, stats |-> stats,
                            action |-> action, participant |-> participant])
  BY DEF Sends
<1> DEFINE u == [status |-> status, stats |-> stats,
                 action |-> action, participant |-> participant]
<1>2. u \in Update /\ NewUpdate(u)
  BY DEF NewUpdate, Update
<1> QED
  BY <1>1, <1>2 DEF Sends

LEMMA PhasesGoOn ==
    ASSUME NEW p \in Phases, NEW q \in After[p]
    PROVE  q \in Begun /\ p # FINAL_STATUS_ID
BY DEF After, Phases, Begun, InPlay, NotStarted, FirstHalf, Halftime,
       SecondHalf, Interrupted, FINAL_STATUS_ID

LEMMA MatchMoves == ASSUME FeedInv, MatchStep PROVE MatchGoesOn
<1>1. /\ match \in [phase: Phases, score: Score]
      /\ match.score \in had /\ had \subseteq Score
  BY DEF FeedInv, TypeOK, ScoresReal
<1>2. MaxPoints \in Nat /\ Points \subseteq Nat
  BY FeedAssumption
<1>3. \A s \in Sports : PointsOf(s) \subseteq Nat
  BY <1>2 DEF PointsOf
<1>4. CASE PhaseChanges
  <2>1. PICK p \in After[match.phase] : match' = [match EXCEPT !.phase = p]
    BY <1>4 DEF PhaseChanges
  <2>2. p \in Begun /\ match.phase # FINAL_STATUS_ID
    BY <1>1, <2>1, PhasesGoOn
  <2>3. /\ match' \in [phase: Phases, score: Score]
        /\ match'.phase = p /\ match'.score = match.score
    BY <1>1, <2>1, <2>2 DEF Begun
  <2>4. /\ UNCHANGED <<sport, had>>
        /\ Sends(IF match'.phase = FINAL_STATUS_ID THEN "game_finalised"
                                                   ELSE "other", 0)
    BY <1>4 DEF PhaseChanges
  <2>5. CASE match'.phase = FINAL_STATUS_ID
    <3>1. Sends("game_finalised", 0)
      BY <2>4, <2>5
    <3> QED
      BY <1>1, <2>2, <2>3, <2>4, <2>5, <3>1, SendsOne DEF MatchGoesOn
  <2>6. CASE match'.phase # FINAL_STATUS_ID
    <3>1. Sends("other", 0)
      BY <2>4, <2>6
    <3> QED
      BY <1>1, <2>2, <2>3, <2>4, <3>1, SendsOne DEF MatchGoesOn
  <2> QED
    BY <2>5, <2>6
<1>5. ASSUME NEW p \in Participants, Scores(p) PROVE MatchGoesOn
  <2>1. PICK n \in PointsOf(sport) :
           /\ match.score[p] + n <= MaxPoints
           /\ match' = [match EXCEPT !.score[p] = @ + n]
    BY <1>5 DEF Scores
  <2>2. n \in Nat /\ match.score[p] \in 0..MaxPoints
    BY <1>1, <1>3 DEF FeedInv, TypeOK, Score
  <2>3. match'.score = [match.score EXCEPT ![p] = @ + n]
        /\ match'.phase = match.phase
    BY <1>1, <2>1
  <2>4. match.score[p] + n \in 0..MaxPoints
    BY <1>2, <2>1, <2>2
  <2>5. match'.score \in Score
    BY <1>1, <2>3, <2>4 DEF Score
  <2>6. match' \in [phase: Phases, score: Score]
    BY <1>1, <2>1, <2>3, <2>5
  <2>7. PICK action \in {"goal", "own_goal", "other"} : Sends(action, p)
    BY <1>5 DEF Scores
  <2>8. UNCHANGED sport /\ had' = had \cup {match'.score}
    BY <1>5 DEF Scores
  <2> QED
    BY <1>1, <2>3, <2>5, <2>6, <2>7, <2>8, SendsOne DEF MatchGoesOn
<1>6. ASSUME NEW p \in Participants, Amended(p) PROVE MatchGoesOn
  <2>1. PICK n \in PointsOf(sport) :
           /\ match.score[p] >= n
           /\ match' = [match EXCEPT !.score[p] = @ - n]
    BY <1>6 DEF Amended
  <2>2. n \in Nat /\ match.score[p] \in 0..MaxPoints
    BY <1>1, <1>3 DEF FeedInv, TypeOK, Score
  <2>3. match'.score = [match.score EXCEPT ![p] = @ - n]
        /\ match'.phase = match.phase
    BY <1>1, <2>1
  <2>4. match.score[p] - n \in 0..MaxPoints
    BY <1>2, <2>1, <2>2
  <2>5. match'.score \in Score
    BY <1>1, <2>3, <2>4 DEF Score
  <2>6. match' \in [phase: Phases, score: Score]
    BY <1>1, <2>1, <2>3, <2>5
  <2>7. UNCHANGED sport /\ had' = had \cup {match'.score} /\ Sends("other", 0)
    BY <1>6 DEF Amended
  <2> QED
    BY <1>1, <2>3, <2>5, <2>6, <2>7, SendsOne DEF MatchGoesOn
<1>7. CASE Repeats
  <2>1. UNCHANGED <<sport, match, had>> /\ Sends("other", 0)
    BY <1>7 DEF Repeats, matchVars
  <2> QED
    BY <1>1, <2>1, SendsOne DEF MatchGoesOn
<1> QED
  BY <1>4, <1>5, <1>6, <1>7 DEF MatchStep

-----------------------------------------------------------------------------
LEMMA FaultsCount ==
    ASSUME TypeOK, UNCHANGED faults \/ (faults < MaxFaults /\ faults' = faults + 1)
    PROVE  faults' \in 0..MaxFaults
<1>1. MaxFaults \in Nat
  BY FeedAssumption
<1> QED
  BY <1>1 DEF TypeOK

LEMMA MatchStepKeeps == ASSUME FeedInv, MatchStep PROVE FeedInv'
<1>1. MatchGoesOn
  BY MatchMoves
<1>2. UNCHANGED <<prevStats, prevStatus, live, starts, ended>>
  BY DEF MatchStep, sourceVars, agentVars
<1>3. faults' \in 0..MaxFaults
  BY FaultsCount DEF MatchStep, Amended, FeedInv
<1>4. stream # None => stream \in Seq(Update) /\ Len(stream) <= MaxInFlight
  BY DEF FeedInv, TypeOK
<1>5. QuotedScoreWasReal'
  BY <1>1, <1>2 DEF FeedInv, QuotedScoreWasReal, MatchGoesOn
<1>6. CASE UNCHANGED stream
  <2>1. TypeOK'
    BY <1>1, <1>2, <1>3, <1>6 DEF FeedInv, TypeOK, MatchGoesOn
  <2>2. ScoresReal'
    BY <1>1, <1>6 DEF FeedInv, ScoresReal, MatchGoesOn
  <2>3. StatusesInOrder' /\ KeptInOrder' /\ EndInOrder'
    BY <1>1, <1>2, <1>6
       DEF FeedInv, StatusesInOrder, KeptInOrder, EndInOrder, Final, MatchGoesOn
  <2> QED
    BY <1>2, <1>5, <2>1, <2>2, <2>3 DEF FeedInv
<1>7. ASSUME stream # None, NEW u \in Update, NewUpdate(u),
             Len(stream) < MaxInFlight, stream' = Append(stream, u)
      PROVE  FeedInv'
  <2>1. /\ stream' \in Seq(Update) /\ Len(stream') <= MaxInFlight
        /\ DOMAIN stream' = 1..(Len(stream) + 1) /\ DOMAIN stream = 1..Len(stream)
        /\ Len(stream) \in Nat
        /\ \A i \in DOMAIN stream : stream'[i] = stream[i]
        /\ stream'[Len(stream) + 1] = u
    <3>1. Len(stream) \in Nat /\ MaxInFlight \in Nat
      BY <1>4, <1>7, FeedAssumption
    <3> QED
      BY <1>4, <1>7, <3>1
  <2>2. \A i \in DOMAIN stream' : i \in DOMAIN stream \/ stream'[i] = u
    BY <2>1
  <2>3. \A i, j \in DOMAIN stream' : i < j =>
           i \in DOMAIN stream /\ (j \in DOMAIN stream \/ stream'[j] = u)
    BY <2>1
  <2>4. TypeOK'
    BY <1>1, <1>2, <1>3, <2>1 DEF FeedInv, TypeOK, MatchGoesOn
  <2>5. ScoresReal'
    BY <1>1, <1>7, <2>1, <2>2 DEF FeedInv, ScoresReal, MatchGoesOn, NewUpdate
  <2>6. u.status \in Begun => match'.phase \in Begun
    BY <1>7 DEF NewUpdate, Begun, Phases, NotStarted, FirstHalf, Halftime,
                SecondHalf, Interrupted, FINAL_STATUS_ID
  <2>7. Final(u) => /\ match'.phase = FINAL_STATUS_ID
                    /\ u.status \in {0, FINAL_STATUS_ID}
    BY <1>7 DEF NewUpdate, Final, FINAL_STATUS_ID
  <2>8. match'.phase \in Begun => u.status # NotStarted
    BY <1>7 DEF NewUpdate, Begun, NotStarted
  <2>9. match'.phase = FINAL_STATUS_ID => u.status \in {0, FINAL_STATUS_ID}
    BY <1>7 DEF NewUpdate
  <2>10. StatusesInOrder'
    <3>1. ASSUME NEW i \in DOMAIN stream'
          PROVE  /\ stream'[i].status \in Begun => match'.phase \in Begun
                 /\ Final(stream'[i]) =>
                       /\ match'.phase = FINAL_STATUS_ID
                       /\ stream'[i].status \in {0, FINAL_STATUS_ID}
      <4>1. CASE i \in DOMAIN stream
        BY <1>1, <1>7, <2>1, <4>1 DEF FeedInv, StatusesInOrder, Final, MatchGoesOn
      <4>2. CASE stream'[i] = u
        BY <2>6, <2>7, <4>2
      <4> QED
        BY <2>2, <4>1, <4>2
    <3>2. ASSUME NEW i \in DOMAIN stream', NEW j \in DOMAIN stream', i < j
          PROVE  /\ stream'[i].status \in Begun => stream'[j].status # NotStarted
                 /\ Final(stream'[i]) =>
                       stream'[j].status \in {0, FINAL_STATUS_ID}
      <4>1. i \in DOMAIN stream /\ stream'[i] = stream[i]
        BY <2>1, <2>3, <3>2
      <4>2. CASE j \in DOMAIN stream
        BY <1>7, <2>1, <3>2, <4>1, <4>2 DEF FeedInv, StatusesInOrder
      <4>3. CASE stream'[j] = u
        BY <2>8, <2>9, <3>1, <4>3
      <4> QED
        BY <2>3, <3>2, <4>2, <4>3
    <3> QED
      BY <3>1, <3>2 DEF StatusesInOrder, Final
  <2>11. KeptInOrder'
    BY <1>1, <1>2, <1>7, <2>1, <2>2, <2>8 DEF FeedInv, KeptInOrder, MatchGoesOn
  <2>12. EndInOrder'
    BY <1>1, <1>2, <1>7, <2>1, <2>2, <2>9 DEF FeedInv, EndInOrder, MatchGoesOn
  <2> QED
    BY <1>2, <1>5, <2>4, <2>5, <2>10, <2>11, <2>12 DEF FeedInv
<1> QED
  BY <1>1, <1>6, <1>7 DEF MatchGoesOn

-----------------------------------------------------------------------------
(* What is left of the stream is in order.                                 *)
LEMMA RestInOrder ==
    ASSUME FeedInv, stream # None, stream # <<>>, stream' = Tail(stream)
    PROVE  /\ stream \in Seq(Update) /\ Head(stream) = stream[1]
           /\ 1 \in DOMAIN stream /\ Head(stream) \in Update
           /\ stream' \in Seq(Update) /\ Len(stream') <= MaxInFlight
           /\ \A i \in DOMAIN stream' :
                 i + 1 \in DOMAIN stream /\ stream'[i] = stream[i + 1] /\ 1 < i + 1
           /\ \A i, j \in DOMAIN stream' : i < j => i + 1 < j + 1
<1>1. stream \in Seq(Update) /\ stream # <<>> /\ Len(stream) <= MaxInFlight
      /\ MaxInFlight \in Nat
  BY FeedAssumption DEF FeedInv, TypeOK
<1>2. /\ Len(stream) \in Nat \ {0} /\ DOMAIN stream = 1..Len(stream)
      /\ stream' \in Seq(Update) /\ Len(stream') = Len(stream) - 1
      /\ \A i \in 1..Len(stream') : stream'[i] = stream[i + 1]
      /\ Head(stream) = stream[1] /\ Head(stream) \in Update
  BY <1>1, EmptySeq, HeadTailProperties
<1>3. DOMAIN stream' = 1..Len(stream')
  BY <1>2
<1> QED
  BY <1>1, <1>2, <1>3

LEMMA ReceivesKeeps == ASSUME FeedInv, Receives PROVE FeedInv'
<1> DEFINE u == Head(stream)
<1>1. /\ stream # None /\ stream # <<>> /\ stream' = Tail(stream)
      /\ UNCHANGED <<sport, match, had, faults>>
      /\ live' = LiveAfter(u)
      /\ starts' = IF Started(u) THEN starts + 1 ELSE starts
      /\ ended' = (ended \/ Final(u))
      /\ prevStats' = KeptStats(u) /\ prevStatus' = KeptStatus(u)
  BY DEF Receives, matchVars
<1>2. /\ stream \in Seq(Update) /\ u = stream[1] /\ 1 \in DOMAIN stream
      /\ u \in Update
      /\ stream' \in Seq(Update) /\ Len(stream') <= MaxInFlight
      /\ \A i \in DOMAIN stream' :
            i + 1 \in DOMAIN stream /\ stream'[i] = stream[i + 1] /\ 1 < i + 1
      /\ \A i, j \in DOMAIN stream' : i < j => i + 1 < j + 1
  BY <1>1, RestInOrder
<1> HIDE DEF u
<1>3. /\ u.status \in Phases \cup {0} /\ u.stats \in had \cup {None}
      /\ u.stats \in Score \cup {None}
  BY <1>1, <1>2 DEF Update, FeedInv, ScoresReal
<1>4. NoScore \in had /\ had \subseteq Score
  BY DEF FeedInv, TypeOK, ScoresReal
<1>5. StatsOf(u) \in had /\ StatsOf(u) \in Score /\ StatsOf(u) # None
  BY <1>3, <1>4, FeedAssumption DEF StatsOf
<1>6. prevStatus' \in Phases \cup {0} /\ starts' \in Nat
  BY <1>1, <1>3 DEF KeptStatus, FeedInv, TypeOK
<1>7. TypeOK'
  BY <1>1, <1>2, <1>5, <1>6 DEF TypeOK, FeedInv, KeptStats
<1>8. ScoresReal'
  BY <1>1, <1>2 DEF FeedInv, ScoresReal
<1>9. QuotedScoreWasReal'
  <2> SUFFICES ASSUME sport = "UsFootball" PROVE LiveAfter(u) \in had
    BY <1>1 DEF QuotedScoreWasReal
  <2> QED
    BY <1>5 DEF LiveAfter, FeedInv, QuotedScoreWasReal
<1>10. StatusesInOrder'
  BY <1>1, <1>2 DEF FeedInv, StatusesInOrder, Final
<1>11. KeptInOrder'
  <2>1. CASE u.status \in Begun
    BY <1>1, <1>2, <2>1 DEF FeedInv, StatusesInOrder, KeptInOrder
  <2>2. CASE u.status = 0
    BY <1>1, <1>2, <2>2 DEF FeedInv, KeptStatus, KeptInOrder
  <2>3. CASE u.status = NotStarted
    BY <1>1, <2>3 DEF KeptStatus, KeptInOrder, Begun, NotStarted
  <2> QED
    BY <1>3, <2>1, <2>2, <2>3 DEF Begun
<1>12. EndInOrder'
  <2>1. CASE ended
    BY <1>1, <1>2, <2>1 DEF FeedInv, EndInOrder
  <2>2. CASE Final(u)
    BY <1>1, <1>2, <2>2 DEF FeedInv, StatusesInOrder, EndInOrder
  <2>3. CASE ~ended /\ ~Final(u)
    BY <1>1, <2>3 DEF EndInOrder
  <2> QED
    BY <2>1, <2>2, <2>3
<1>13. starts' > 0 => prevStatus' \in Begun
  <2>1. CASE Started(u)
    BY <1>1, <2>1 DEF Started, KeptStatus, FirstHalf, Begun, Phases, NotStarted
  <2>2. CASE ~Started(u)
    <3> SUFFICES ASSUME starts > 0 PROVE prevStatus' \in Begun
      BY <1>1, <2>2
    <3>1. prevStatus \in Begun /\ u.status # NotStarted
      BY <1>1, <1>2 DEF FeedInv, KeptInOrder
    <3> QED
      BY <1>1, <1>3, <3>1 DEF KeptStatus, Begun
  <2> QED
    BY <2>1, <2>2
<1> QED
  BY <1>7, <1>8, <1>9, <1>10, <1>11, <1>12, <1>13 DEF FeedInv

-----------------------------------------------------------------------------
LEMMA InitFeeds == Init => FeedInv
<1> SUFFICES ASSUME Init PROVE FeedInv
  OBVIOUS
<1>1. MaxPoints \in Nat /\ MaxFaults \in Nat
  BY FeedAssumption
<1>2. NoScore \in Score
  BY <1>1 DEF NoScore, Score
<1>3. TypeOK
  BY <1>1, <1>2 DEF Init, TypeOK, Phases
<1>4. ~(prevStatus \in Begun)
  BY DEF Init, Begun, Phases, NotStarted, FirstHalf, Halftime, SecondHalf,
         Interrupted, FINAL_STATUS_ID
<1> QED
  BY <1>3, <1>4 DEF Init, FeedInv, ScoresReal, QuotedScoreWasReal,
                    StatusesInOrder, KeptInOrder, EndInOrder

LEMMA NextFeeds == FeedInv /\ [Next]_vars => FeedInv'
<1> SUFFICES ASSUME FeedInv, [Next]_vars PROVE FeedInv'
  OBVIOUS
<1>1. ASSUME stream' = None \/ stream' = <<>>,
             UNCHANGED <<sport, match, had, ended>>,
             faults' \in 0..MaxFaults,
             \/ UNCHANGED <<prevStats, prevStatus, live, starts>>
             \/ /\ prevStats' = None /\ prevStatus' = 0
                /\ live' = NoScore /\ starts' = 0
      PROVE  FeedInv'
  <2>1. stream' # None =>
           /\ stream' \in Seq(Update) /\ Len(stream') <= MaxInFlight
           /\ DOMAIN stream' = {}
    <3>1. MaxInFlight \in Nat
      BY FeedAssumption
    <3>2. <<>> \in Seq(Update) /\ Len(<<>>) = 0 /\ DOMAIN <<>> = {}
      OBVIOUS
    <3>3. Len(<<>>) <= MaxInFlight
      BY <3>1, <3>2
    <3> QED
      BY <1>1, <3>2, <3>3
  <2>2. prevStatus' = prevStatus \/ prevStatus' \notin Begun
    BY <1>1 DEF Begun, Phases, NotStarted, FirstHalf, Halftime, SecondHalf,
                Interrupted, FINAL_STATUS_ID
  <2>3. TypeOK'
    BY <1>1, <2>1 DEF FeedInv, TypeOK
  <2>4. ScoresReal' /\ QuotedScoreWasReal'
    BY <1>1, <2>1 DEF FeedInv, ScoresReal, QuotedScoreWasReal
  <2>5. StatusesInOrder' /\ KeptInOrder' /\ EndInOrder'
    BY <1>1, <2>1, <2>2
       DEF FeedInv, StatusesInOrder, KeptInOrder, EndInOrder
  <2>6. starts' > 0 => prevStatus' \in Begun
    BY <1>1 DEF FeedInv
  <2> QED
    BY <2>3, <2>4, <2>5, <2>6 DEF FeedInv
<1>2. CASE MatchStep
  BY <1>2, MatchStepKeeps
<1>3. CASE Connects
  BY <1>1, <1>3, FaultsCount DEF Connects, matchVars, sourceVars, agentVars, FeedInv
<1>4. CASE Drops
  BY <1>1, <1>4, FaultsCount DEF Drops, matchVars, sourceVars, agentVars, FeedInv
<1>5. CASE Receives
  BY <1>5, ReceivesKeeps
<1>6. CASE Restart
  BY <1>1, <1>6, FaultsCount DEF Restart, matchVars, FeedInv
<1>7. CASE UNCHANGED vars
  <2>1. UNCHANGED <<sport, match, had, stream, prevStats, prevStatus,
                    live, starts, ended, faults>>
    BY <1>7 DEF vars, matchVars, sourceVars, agentVars
  <2> QED
    BY <2>1 DEF FeedInv, TypeOK, ScoresReal, QuotedScoreWasReal,
                StatusesInOrder, KeptInOrder, EndInOrder, Final
<1> QED
  BY <1>2, <1>3, <1>4, <1>5, <1>6, <1>7 DEF Next

LEMMA FeedInvAlways == Spec => []FeedInv
BY InitFeeds, NextFeeds, PTL DEF Spec

-----------------------------------------------------------------------------
(* The types of the match, the stream, the source's last update and the    *)
(* live score.                                                             *)
THEOREM FeedTyped == Spec => []TypeOK
<1>1. FeedInv => TypeOK
  BY DEF FeedInv
<1> QED
  BY <1>1, FeedInvAlways, PTL

(* The score a US football quote is priced with is one the match has had   *)
(* (loop.ts, goal_scored), whatever was lost, left out or amended.         *)
THEOREM QuotesAreReal == Spec => []QuotedScoreWasReal
<1>1. FeedInv => QuotedScoreWasReal
  BY DEF FeedInv
<1> QED
  BY <1>1, FeedInvAlways, PTL

(* A process is told of the start of a match once, and not after its end:  *)
(* the status the source has kept stays a later one (normalizer.ts, phase  *)
(* transitions; source.ts).                                                *)
THEOREM StartIsToldOnce == Spec => StartsOnce
<1>1. FeedInv /\ [Next]_vars => [starts' > starts => starts = 0 /\ ~ended]_vars
  <2> SUFFICES ASSUME FeedInv, Next, starts' > starts
               PROVE  starts = 0 /\ ~ended
    BY DEF vars
  <2>1. starts \in Nat
    BY DEF FeedInv, TypeOK
  <2>2. Receives
    BY <2>1 DEF Next, MatchStep, Connects, Drops, Restart, agentVars
  <2>3. Started(Head(stream))
    BY <2>1, <2>2 DEF Receives
  <2>4. prevStatus \notin Begun
    BY <2>3 DEF Started, Begun, Phases, NotStarted, FirstHalf, Halftime,
                SecondHalf, Interrupted, FINAL_STATUS_ID
  <2>5. starts = 0
    BY <2>1, <2>4 DEF FeedInv
  <2>6. ~ended
    <3>1. Head(stream) = stream[1] /\ 1 \in DOMAIN stream /\ stream # None
      BY <2>2, RestInOrder DEF Receives
    <3> QED
      BY <2>3, <3>1 DEF FeedInv, EndInOrder, Started, FirstHalf, FINAL_STATUS_ID
  <2> QED
    BY <2>5, <2>6
<1> QED
  BY <1>1, FeedInvAlways, PTL DEF Spec, StartsOnce

=============================================================================
