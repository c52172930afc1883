----------------------------- MODULE RoomRecord -----------------------------
(***************************************************************************)
(* The record the server keeps for one party room                          *)
(* (apps/server/src/rooms/roomStore.ts), and what a game package declares  *)
(* about itself in its manifest.  Every other module of the room extends   *)
(* this one.                                                               *)
(*                                                                         *)
(* A room is one TLA+ record with the source's field names.  Players are   *)
(* their ids: the Map of player records becomes the set `players`, the set *)
(* `ready` of those whose isReady is true, the function `score` and, per   *)
(* game, the set `chosen` of those with a valid setup selection.           *)
(***************************************************************************)
EXTENDS Integers, FiniteSets

CONSTANTS
  Player,        \* ids of the players who may join
  NoPlayer,      \* null in place of a player id; as an actor, the shared screen
  NoTime,        \* null in place of a timestamp
  Game,          \* ids of the installed game packages
  NoGame         \* null in place of a game id

CONSTANTS
  WaitForReady,  \* games with roundCompletionMode "wait_for_ready"
  ContinuesRun,  \* games that implement shouldContinueRun
  GameScoped,    \* games that keep their own score (scoreScope "game")
  SetupGames,    \* games whose player setup is required and chosen by hand
  ConfirmGames,  \* games whose lobby setup the host has to confirm
  MinPlayers,    \* [Game -> Nat]
  MaxPlayers,    \* [Game -> Nat]
  GamePhases,    \* phases a game hook may leave a playing round in
  ScoreLists,    \* sets of ids buildScore may give a point to
  Duration,      \* length of each timed phase
  HandoverMs     \* hostControlHandoverMs

TimedPhase == {"round_intro", "countdown", "locked", "result", "scoreboard"}
Phase      == TimedPhase \cup {"playing", "finished"}

ASSUME NullsAreNew == NoPlayer \notin Player /\ NoGame \notin Game /\ NoTime \notin Int

ASSUME ManifestsFit ==
  /\ {WaitForReady, ContinuesRun, GameScoped, SetupGames, ConfirmGames} \subseteq SUBSET Game
  /\ MinPlayers \in [Game -> Nat]
  /\ MaxPlayers \in [Game -> Nat]

\* The round contract of a game package: it plays, and may lock the round itself.
ASSUME HooksStayInContract == "playing" \in GamePhases /\ GamePhases \subseteq {"playing", "locked"}

ASSUME ScoresAreIds == ScoreLists \subseteq SUBSET Player

ASSUME DurationsFit == Duration \in [TimedPhase -> Nat] /\ HandoverMs \in Nat

-----------------------------------------------------------------------------

Screen == NoPlayer
Actor  == Player \cup {Screen}

Request   == [playerId : Player, expiresAt : Nat]
NoRequest == [playerId |-> NoPlayer, expiresAt |-> 0]

HostControl ==
  [holderPlayerId : Player \cup {NoPlayer}, pendingRequest : Request \cup {NoRequest}]

Clock ==
  [pausedAt         : Nat \cup {NoTime},
   pausedTotalMs    : Nat,
   pausedByPlayerId : Player \cup {NoPlayer}]

\* phase and phaseEndsAt are copied from the game's state by replaceState; of
\* scoreCommittedAt only its being set matters.
Round ==
  [gameId         : Game,
   roundNumber    : Nat \ {0},
   phase          : Phase,
   phaseEndsAt    : Nat \cup {NoTime},
   scoreCommitted : BOOLEAN]

NoRound ==
  [gameId |-> NoGame, roundNumber |-> 0, phase |-> "none",
   phaseEndsAt |-> NoTime, scoreCommitted |-> FALSE]

Room ==
  [players        : SUBSET Player,
   ready          : SUBSET Player,
   score          : [Player -> Nat],
   chosen         : [Game -> SUBSET Player],
   confirmed      : SUBSET Game,
   hostControl    : HostControl,
   clock          : Clock,
   selectedGameId : Game \cup {NoGame},
   roundCounter   : Nat,
   currentRound   : Round \cup {NoRound}]

NewRoom ==
  [players        |-> {},
   ready          |-> {},
   score          |-> [p \in Player |-> 0],
   chosen         |-> [g \in Game |-> {}],
   confirmed      |-> {},
   hostControl    |-> [holderPlayerId |-> NoPlayer, pendingRequest |-> NoRequest],
   clock          |-> [pausedAt |-> NoTime, pausedTotalMs |-> 0, pausedByPlayerId |-> NoPlayer],
   selectedGameId |-> NoGame,
   roundCounter   |-> 0,
   currentRound   |-> NoRound]

HasRound(r) == r.currentRound.phase # "none"

\* hasActiveRound; canManagePlayerRoster is its negation.
HasActiveRound(r) == r.currentRound.phase \notin {"none", "finished"}
=============================================================================
