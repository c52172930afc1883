------------------------------- MODULE MCPages -------------------------------
(***************************************************************************)
(* Small pages for TLC: a board of nine fields with two figures, three     *)
(* players in two teams, and a game with teams or without.                 *)
(***************************************************************************)
EXTENDS Pages

MCBoard == {<<q, r>> : q \in 0..2, r \in 0..2}
MCHome == [ada |-> <<0, 1>>, bea |-> <<1, 1>>]

MCManifests ==
  {[default |-> "solo", required |-> TRUE, waits |-> TRUE],
   [default |-> "team", required |-> FALSE, waits |-> FALSE]}
=============================================================================
