--------------------------- MODULE RoundLifecycle ---------------------------
(***************************************************************************)
(* What the room promises about rounds, without players, timers, pauses or *)
(* games: rounds are numbered 1, 2, 3, ... with no number used twice; the  *)
(* phases of one round only ever move forward; a round is scored after it  *)
(* has been played and before anyone sees its result; and a round that was *)
(* dropped does not come back.                                             *)
(***************************************************************************)
EXTENDS Naturals

VARIABLES
  phase,    \* phase of the current round, "none" when there is no round
  number,   \* number of rounds opened so far
  scored    \* the current round's score has been committed

vars == <<phase, number, scored>>

Unscored == {"none", "round_intro", "countdown", "playing"}
Settled  == {"result", "scoreboard", "finished"}

Phases   == (Unscored \ {"none"}) \cup {"locked"} \cup Settled

Rank(p) ==
  CASE p = "round_intro" -> 1 [] p = "countdown"  -> 2 [] p = "playing" -> 3
    [] p = "locked"      -> 4 [] p = "result"     -> 5 [] p = "scoreboard" -> 6
    [] p = "finished"    -> 7

ScoreFits(p, s) == (p \in Unscored => ~s) /\ (p \in Settled => s)

Init == phase = "none" /\ number = 0 /\ scored = FALSE

Open ==
  /\ phase' = "round_intro"
  /\ number' = number + 1
  /\ scored' = FALSE

Advance ==
  /\ phase # "none"
  /\ phase' \in Phases /\ Rank(phase) <= Rank(phase')
  /\ scored' \in BOOLEAN /\ (scored => scored') /\ ScoreFits(phase', scored')
  /\ number' = number

Drop ==
  /\ phase' = "none"
  /\ scored' = FALSE
  /\ number' = number

Next == Open \/ Advance \/ Drop

Spec == Init /\ [][Next]_vars
=============================================================================
