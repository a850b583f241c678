-------------------------------- MODULE Risk --------------------------------
(***************************************************************************)
(* Risk classification of a permission request: integer scoring of the     *)
(* path class, the kind of access and the agent's recent history, then a   *)
(* bump of the level for a suspicious justification.                       *)
(*                                                                         *)
(* Pattern matching on paths and on justification text is data: a path is  *)
(* represented by the first pattern list it matches, a justification by    *)
(* its total suspicion score.                                              *)
(***************************************************************************)
EXTENDS Naturals, Sequences

PathClasses == {"critical", "high", "low", "other"}

Levels == <<"low", "medium", "high", "critical">>

RiskLevels == {"low", "medium", "high", "critical"}

Min2(m, n) == IF m < n THEN m ELSE n

Max2(m, n) == IF m > n THEN m ELSE n

BaseScore(class) ==
    CASE class = "critical" -> 90
      [] class = "high"     -> 60
      [] class = "low"      -> 10
      [] class = "other"    -> 25

ExecScore(class, risky) ==
    LET s == (BaseScore(class) * 3) \div 2 IN IF risky THEN Max2(s, 60) ELSE s

\* Mutant: the multiplier applies once a second request was denied
AfterDenialsLater(score, denials) == IF denials = 1 THEN Min2(score * 2, 100) ELSE score

\* Consecutive denials double the score, with a ceiling of 100
AfterDenials(score, denials) == IF denials > 0 THEN Min2(score * 2, 100) ELSE score

AfterRate(score, hourly) == IF hourly > 5 THEN Min2((score * 13) \div 10, 100) ELSE score

Score(class, exec, risky, denials, hourly) ==
    AfterRate(AfterDenials(IF exec THEN ExecScore(class, risky) ELSE BaseScore(class), denials),
              hourly)

\* Index in Levels of a score
LevelIndex(score) ==
    CASE score <= 25 -> 1
      [] score > 25 /\ score <= 50 -> 2
      [] score > 50 /\ score <= 75 -> 3
      [] score > 75 -> 4

\* justification_risk_bump: a justification that matches no pattern scores 0
Bump(score) == IF score >= 8 THEN 2 ELSE IF score >= 3 THEN 1 ELSE 0

Bumped(i, j) == Min2(i + Bump(j), 4)

\* classify_risk followed by the bump of handle_request_permission
RiskIndex(class, exec, risky, denials, hourly, justification) ==
    Bumped(LevelIndex(Score(class, exec, risky, denials, hourly)), justification)

RiskOf(class, exec, risky, denials, hourly, justification) ==
    Levels[RiskIndex(class, exec, risky, denials, hourly, justification)]
=============================================================================
