---------------------------- MODULE MCHostStream ----------------------------
(***************************************************************************)
(* One screen and the two games that between them can do what any game     *)
(* can.                                                                    *)
(*                                                                         *)
(* A game may always decline a patch, an interval may always be over, and  *)
(* an undeferred input looks like a move of a tick, so a game with all the *)
(* settings has the behaviours of those with fewer; only `reliable`        *)
(* forbids anything.                                                       *)
(***************************************************************************)
EXTENDS HostStream

BusyGame     == [reliable |-> FALSE, patches |-> TRUE, throttled |-> TRUE, deferred |-> TRUE]
ReliableGame == [BusyGame EXCEPT !.reliable = TRUE]

TwoGames     == {BusyGame, ReliableGame}
PatchingGame == {BusyGame}
=============================================================================
