-------------------------------- MODULE Feed --------------------------------
(***************************************************************************)
(* The score feed of one match: the reconnecting stream (packages/txline/  *)
(* src/sse.ts), the normalizer that turns updates into events by comparing *)
(* them with the last one (normalizer.ts, source.ts), and the live score   *)
(* the agent keeps from those events and prices quotes with (loop.ts,      *)
(* updateMatchState).  An update may leave out its status or its stats,    *)
(* points may be amended, and what is sent while the stream is down is     *)
(* lost: it has no resume point.  Of the events of a match only its start, *)
(* its end and its points are told apart; the quarters of US football,     *)
(* whose numbers are those of the phases of soccer, are its two halves.    *)
(***************************************************************************)
EXTENDS Integers, FiniteSets, Sequences, SequencesExt

CONSTANTS
    Sports,      \* subset of {"Soccer", "UsFootball"}
    Points,      \* what a play of US football can score
    MaxPoints,   \* bound on the points of a participant
    MaxInFlight, \* bound on updates sent and not read
    MaxFaults,   \* bound on dropped connections, restarts and amendments
    None

VARIABLES
    sport,
    match,      \* the match itself: its phase and its score
    had,        \* history: the scores the match has had
    stream,     \* updates sent and not read; None when it is down
    prevStats, prevStatus,  \* what the source keeps of the last update
    live,       \* matchState: the score quotes are priced with
    starts,     \* history: match_started events of this process
    ended,      \* history: some process has seen the match end
    faults

matchVars == <<sport, match, had>>
sourceVars == <<prevStats, prevStatus>>
agentVars == <<live, starts, ended>>
vars == <<matchVars, stream, sourceVars, agentVars, faults>>

NotStarted == 1
FirstHalf == 2
Halftime == 3
SecondHalf == 4
Interrupted == 14
FINAL_STATUS_ID == 100

Phases == {NotStarted, FirstHalf, Halftime, SecondHalf, Interrupted,
           FINAL_STATUS_ID}
InPlay == {FirstHalf, SecondHalf}
After == [p \in Phases |->
    CASE p = NotStarted -> {FirstHalf}
      [] p = FirstHalf -> {Halftime, Interrupted}
      [] p = Halftime -> {SecondHalf}
      [] p = SecondHalf -> {FINAL_STATUS_ID, Interrupted}
      [] p = Interrupted -> InPlay
      [] p = FINAL_STATUS_ID -> {}]

Participants == {1, 2}
Score == [Participants -> 0..MaxPoints]
NoScore == [p \in Participants |-> 0]

ASSUME FeedAssumption ==
    /\ Sports \subseteq {"Soccer", "UsFootball"}
    /\ Points \subseteq Nat /\ {MaxPoints, MaxInFlight, MaxFaults} \subseteq Nat
    /\ None \notin Score

(* A field of an update that is not there: status 0 and stats None.        *)
Update == [status: Phases \cup {0}, stats: Score \cup {None},
           action: {"goal", "own_goal", "game_finalised", "other"},
           participant: Participants \cup {0}]

Init ==
    /\ sport \in Sports
    /\ match = [phase |-> NotStarted, score |-> NoScore]
    /\ had = {NoScore}
    /\ stream = None
    /\ prevStats = None /\ prevStatus = 0
    /\ live = NoScore /\ starts = 0 /\ ended = FALSE
    /\ faults = 0

-----------------------------------------------------------------------------
(* The match, and an update about it, with or without each field.          *)
Sends(action, by) ==
    IF stream = None
    THEN UNCHANGED stream
    ELSE /\ Len(stream) < MaxInFlight
         /\ \E status \in {match'.phase, 0}, stats \in {match'.score, None},
               participant \in {by, 0} :
               stream' = Append(stream,
                            [status |-> status, stats |-> stats,
                             action |-> action, participant |-> participant])

PhaseChanges ==
    /\ \E p \in After[match.phase] : match' = [match EXCEPT !.phase = p]
    /\ Sends(IF match'.phase = FINAL_STATUS_ID THEN "game_finalised" ELSE "other", 0)
    /\ UNCHANGED <<sport, had>>

PointsOf(s) == IF s = "Soccer" THEN {1} ELSE Points

Scores(p) ==
    /\ match.phase \in InPlay
    /\ \E n \in PointsOf(sport) :
          /\ match.score[p] + n <= MaxPoints
          /\ match' = [match EXCEPT !.score[p] = @ + n]
    /\ had' = had \cup {match'.score}
    /\ \E action \in IF sport = "Soccer" THEN {"goal", "own_goal"} ELSE {"other"} :
          Sends(action, p)
    /\ UNCHANGED sport

Amended(p) ==
    /\ match.phase \in InPlay
    /\ \E n \in PointsOf(sport) :
          /\ match.score[p] >= n
          /\ match' = [match EXCEPT !.score[p] = @ - n]
    /\ had' = had \cup {match'.score}
    /\ Sends("other", 0)
    /\ faults < MaxFaults /\ faults' = faults + 1
    /\ UNCHANGED sport

Repeats ==
    /\ stream # None
    /\ UNCHANGED matchVars
    /\ Sends("other", 0)

-----------------------------------------------------------------------------
(* connectSse.                                                             *)
Connects ==
    /\ stream = None
    /\ stream' = <<>>
    /\ UNCHANGED <<matchVars, sourceVars, agentVars, faults>>

Drops ==
    /\ stream # None /\ faults < MaxFaults
    /\ stream' = None
    /\ faults' = faults + 1
    /\ UNCHANGED <<matchVars, sourceVars, agentVars>>

(* normalizeScoreUpdate.                                                   *)
Final(u) == u.action = "game_finalised" \/ u.status = FINAL_STATUS_ID

Started(u) == ~Final(u) /\ u.status = FirstHalf /\ prevStatus < FirstHalf

StatsOf(u) == IF u.stats = None THEN NoScore ELSE u.stats

(* detectTeamFromStatDiff: who has more than in the last update, the first *)
(* of the two when both have; 0 for nobody.                                *)
DetectTeam(u) ==
    LET more == {p \in Participants : StatsOf(u)[p] > prevStats[p]}
    IN  IF prevStats = None \/ more = {} THEN 0
        ELSE IF 1 \in more THEN 1 ELSE 2

Scorer(u) ==
    IF Final(u) THEN 0
    ELSE IF sport = "UsFootball" THEN DetectTeam(u)
    ELSE IF u.action # "goal" THEN 0
    ELSE IF u.participant # 0 THEN u.participant
    ELSE DetectTeam(u)

(* updateMatchState: a goal of soccer counts one for its team (an own goal *)
(* is another event, which it ignores), a score of US football carries the *)
(* totals, the end of a match its final score.                             *)
Counted(p) == [live EXCEPT ![p] = @ + 1]

LiveAfter_Counting(u) ==   \* mutant: the totals are not read
    IF Final(u) THEN StatsOf(u)
    ELSE IF Scorer(u) = 0 THEN live ELSE Counted(Scorer(u))
LiveAfter(u) ==
    IF Final(u) THEN StatsOf(u)
    ELSE IF Scorer(u) = 0 THEN live
    ELSE IF sport = "UsFootball" THEN StatsOf(u)
    ELSE Counted(Scorer(u))

(* What the source keeps of an update.                                     *)
KeptStatus_Always(u) == u.status   \* mutant: also when it is not there
KeptStatus(u) == IF u.status = 0 THEN prevStatus ELSE u.status

KeptStats_Raw(u) == u.stats   \* mutant: no stats are not empty stats
KeptStats(u) == StatsOf(u)

Receives ==
    /\ stream # None /\ stream # <<>>
    /\ LET u == Head(stream)
       IN  /\ live' = LiveAfter(u)
           /\ starts' = IF Started(u) THEN starts + 1 ELSE starts
           /\ ended' = (ended \/ Final(u))
           /\ prevStats' = KeptStats(u)
           /\ prevStatus' = KeptStatus(u)
    /\ stream' = Tail(stream)
    /\ UNCHANGED <<matchVars, faults>>

Restart ==
    /\ faults < MaxFaults
    /\ faults' = faults + 1
    /\ stream' = None
    /\ prevStats' = None /\ prevStatus' = 0
    /\ live' = NoScore /\ starts' = 0
    /\ UNCHANGED <<matchVars, ended>>

MatchStep ==
    /\ \/ PhaseChanges /\ UNCHANGED faults
       \/ \E p \in Participants : Scores(p) /\ UNCHANGED faults
       \/ \E p \in Participants : Amended(p)
       \/ Repeats /\ UNCHANGED faults
    /\ UNCHANGED <<sourceVars, agentVars>>

Next == MatchStep \/ Connects \/ Drops \/ Receives \/ Restart

Spec == Init /\ [][Next]_vars

-----------------------------------------------------------------------------
TypeOK ==
    /\ sport \in Sports
    /\ match \in [phase: Phases, score: Score]
    /\ had \subseteq Score
    /\ stream # None => stream \in Seq(Update) /\ Len(stream) <= MaxInFlight
    /\ prevStatus \in Phases \cup {0}
    /\ prevStats \in Score \cup {None}
    /\ prevStats = None => prevStatus = 0
    /\ starts \in Nat /\ faults \in 0..MaxFaults

(* A process is told of the start of a match at most once, and not after   *)
(* some process was told of its end (normalizer.ts, phase transitions;     *)
(* source.ts): although updates leave out their status, the match is       *)
(* interrupted and resumed, and any update may be lost.  The agent loop    *)
(* creates markets at each start it is told of.                            *)
StartsOnce ==
    [][starts' > starts => starts = 0 /\ ~ended]_vars

(* The score a US football quote is priced with is one the match has had   *)
(* (loop.ts, goal_scored: a scoring play can add 1/2/3/6/8 points - carry  *)
(* the real totals): whatever was lost, left out or amended before.        *)
QuotedScoreWasReal ==
    sport = "UsFootball" => live \in had

=============================================================================
