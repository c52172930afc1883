---------------------------- MODULE MCPartyRoom ----------------------------
(***************************************************************************)
(* Small rooms for TLC: two players, one game with a scoreboard and a      *)
(* hand- picked setup, one that chains its rounds when everyone is ready.  *)
(***************************************************************************)
EXTENDS PartyRoom, TLC

CONSTANTS quiz, relay, p1, p2

MCMin == [g \in Game |-> IF g = quiz THEN 2 ELSE 1]
MCMax == [g \in Game |-> 2]

\* One unit of wall time for each timed phase, but two that are over at once.
MCDuration == [t \in TimedPhase |-> IF t \in {"countdown", "result"} THEN 0 ELSE 1]

\* For the liveness run: a round of two units, waiting where it is scored and shown.
MCDurationLive == [t \in TimedPhase |-> IF t \in {"locked", "scoreboard"} THEN 1 ELSE 0]

\* buildScore gives everyone a point, or nobody; an absent player's id is skipped.
MCScoreLists == {{}, {p1, p2}}

Symmetry == Permutations({p1, p2})
=============================================================================
