------------------------------ MODULE PartyRoom ------------------------------
(***************************************************************************)
(* One party room on the server: the socket handlers of                    *)
(* apps/server/src/network/socket/registerSocketHandlers.ts and the round  *)
(* timer's interval, as one atomic action each.  Node runs a handler to    *)
(* its end before the next event, so the interleavings are those of whole  *)
(* handlers, timer turns and the passing of wall time.                     *)
(*                                                                         *)
(* Players act through the socket that carries their identity;             *)
(* connections, several rooms and room removal are not part of this        *)
(* module.                                                                 *)
(***************************************************************************)
EXTENDS RoundEngine

CONSTANTS
  MaxTime,     \* bound: the wall clock stops here
  MaxRounds    \* bound: no step opens more rounds than this

ASSUME BoundsFit == MaxTime \in Nat /\ MaxRounds \in Nat

VARIABLES
  wall,        \* Date.now() of the server
  room         \* the RoomRecord

vars == <<wall, room>>

Init == wall = 0 /\ room = NewRoom

\* Every handler but the clock leaves wall time alone.
Becomes(r) ==
  /\ r.roundCounter <= MaxRounds
  /\ room' = r
  /\ UNCHANGED wall

-----------------------------------------------------------------------------
(* The roster.                                                             *)

\* A new device joins, at any time, also while a round runs.
JoinPlayer(p) ==
  /\ p \notin room.players
  /\ Becomes([room EXCEPT !.players = @ \cup {p}])

\* Variant: the ready flag outlives the player.
WithoutPlayer_StaysReady(r, p) == [r EXCEPT !.players = @ \ {p}]

\* PlayerManager.removePlayer deletes the whole player record.
WithoutPlayer(r, p) ==
  [r EXCEPT !.players = @ \ {p},
            !.ready   = @ \ {p},
            !.score   = [@ EXCEPT ![p] = 0],
            !.chosen  = [g \in Game |-> @[g] \ {p}]]

RemovePlayer(p) ==
  /\ ~HasActiveRound(room)
  /\ p \in room.players
  /\ Becomes(ForgetHostControlForPlayer(WithoutPlayer(room, p), p, wall))

LeaveRoom(p) == RemovePlayer(p)

KickPlayer(by, p) == CanControlRoom(room, by) /\ RemovePlayer(p)

\* Any client of the room may send this for any player.
SetReady(p, isReady, goOn) ==
  /\ p \in room.players
  /\ LET toggled == [room EXCEPT !.ready = IF isReady THEN @ \cup {p} ELSE @ \ {p}]
     IN  Becomes(MaybeAutoStartReadyRound(toggled, wall, goOn))

\* A setup choice takes the player's readiness back.
SetPlayerSetup(p, goOn) ==
  /\ p \in room.players
  /\ ~HasActiveRound(room)
  /\ room.selectedGameId \in SetupGames
  /\ LET chosen == [room EXCEPT !.chosen[room.selectedGameId] = @ \cup {p},
                                !.ready = @ \ {p}]
     IN  Becomes(MaybeAutoStartReadyRound(chosen, wall, goOn))

-----------------------------------------------------------------------------
(* The controls.                                                           *)

RequestControl(p) == p \in room.players /\ Becomes(RequestHostControl(room, p, wall))

\* p is the player named in the answer, not necessarily the one who asks now.
ResolveControl(by, p, grant) ==
  CanControlRoom(room, by) /\ Becomes(ResolveHostControl(room, p, grant))

ReleaseControl(by) == CanControlRoom(room, by) /\ Becomes(ReleaseHostControl(room, wall))

HoldRound(by, paused) ==
  /\ CanControlRoom(room, by)
  /\ HasRound(room)
  /\ Becomes([room EXCEPT !.clock = IF paused THEN PauseRoom(@, wall, by)
                                              ELSE ResumeRoom(@, wall)])

-----------------------------------------------------------------------------
(* Driving the room.                                                       *)

\* Choosing a game drops the current round and takes back the confirmation.
Select(by, g, goOn) ==
  /\ CanControlRoom(room, by)
  /\ LET selected == [SelectGame(room, g) EXCEPT !.confirmed = @ \ {g}]
     IN  Becomes(MaybeAutoStartReadyRound(selected, wall, goOn))

HostAction(by, phase, confirm, goOn) ==
  /\ CanControlRoom(room, by)
  /\ room.selectedGameId # NoGame
  /\ Becomes(MaybeAutoStartReadyRound(HandleHostAction(room, wall, phase, confirm), wall, goOn))

RoundStart(by) ==
  /\ CanControlRoom(room, by)
  /\ room.selectedGameId \notin WaitForReady
  /\ CanStartRound(room, room.selectedGameId)
  /\ Becomes(StartReadyLockedRound(room, wall))

RoundAbort(by) ==
  CanControlRoom(room, by) /\ Becomes(AbortRound(ClearPause(room, wall)))

\* Any player may send input; which one is the game's business.
GameInput(hooks) == room.players # {} /\ Becomes(HandleInput(room, wall, hooks))

-----------------------------------------------------------------------------
(* The server's own steps.                                                 *)

RoundTimer == \E hooks \in HooksFor(room) : Becomes(RoundTimerTick(room, wall, hooks))

TimePasses ==
  /\ wall < MaxTime
  /\ wall' = wall + 1
  /\ UNCHANGED room

-----------------------------------------------------------------------------

PlayerStep(p) ==
  \/ JoinPlayer(p)
  \/ LeaveRoom(p)
  \/ \E isReady \in BOOLEAN, goOn \in GoOnAnswers(room) : SetReady(p, isReady, goOn)
  \/ \E goOn \in GoOnAnswers(room) : SetPlayerSetup(p, goOn)
  \/ RequestControl(p)

DriverStep(by) ==
  \/ \E p \in Player : KickPlayer(by, p)
  \/ \E p \in Player, grant \in BOOLEAN : ResolveControl(by, p, grant)
  \/ ReleaseControl(by)
  \/ \E paused \in BOOLEAN : HoldRound(by, paused)
  \/ \E g \in Game \cup {NoGame}, goOn \in GoOnAnswers(room) : Select(by, g, goOn)
  \/ \E phase \in GamePhases, confirm \in BOOLEAN, goOn \in GoOnAnswers(room) :
       HostAction(by, phase, confirm, goOn)
  \/ RoundStart(by)
  \/ RoundAbort(by)

Next ==
  \/ \E p \in Player : PlayerStep(p)
  \/ \E by \in Actor : DriverStep(by)
  \/ \E hooks \in HooksFor(room) : GameInput(hooks)
  \/ RoundTimer
  \/ TimePasses

Spec == Init /\ [][Next]_vars

\* The interval is never cleared while the server runs; people owe nothing.
FairSpec == Spec /\ WF_vars(RoundTimer)

-----------------------------------------------------------------------------
(* Invariants.                                                             *)

\* The room record has its shape, and only players of the room are ready.
TypeOK ==
  /\ wall \in Nat
  /\ room \in Room
  /\ room.ready \subseteq room.players

\* The controls belong to the screen or to a player who is in the room, and
\* nobody waits for controls they hold: departures, answers, deadlines and
\* free takeovers interleave without leaving a stale holder or requester.
ControlBelongsToTheRoom ==
  /\ Holder(room) \in room.players \cup {NoPlayer}
  /\ Pending(room) # NoRequest =>
       Pending(room).playerId \in room.players \ {Holder(room)}

\* A round is never held by somebody who has left: forgetHostControlForPlayer
\* unfreezes what the leaver froze.
HoldBelongsToTheRoom == room.clock.pausedByPlayerId \in room.players \cup {NoPlayer}

\* The current round is one of the selected game, so the two lookups of the
\* timer (the round's game for readiness, the selected game for the start) agree.
RoundIsOfSelectedGame ==
  HasRound(room) => room.currentRound.gameId = room.selectedGameId

\* A result is only ever shown for a round whose score is in, and a round that
\* is still being played has not been scored, however the lock was reached.
SettledRoundIsScored ==
  /\ room.currentRound.phase \in {"result", "scoreboard", "finished"} =>
       room.currentRound.scoreCommitted
  /\ room.currentRound.phase \in {"round_intro", "countdown", "playing"} =>
       ~room.currentRound.scoreCommitted

\* Nobody is paid twice for a round: buildScore gives at most one point here,
\* so a score never exceeds the rounds that may have paid it, whether the tick,
\* an input or both carried the round through its lock.
RoundsPaid(r) ==
  IF HasActiveRound(r) /\ ~r.currentRound.scoreCommitted
  THEN r.roundCounter - 1 ELSE r.roundCounter

PaidOncePerRound == \A p \in Player : room.score[p] <= RoundsPaid(room)

-----------------------------------------------------------------------------
(* Action properties.                                                      *)

Now == RoomNow(room.clock, wall)

\* The clock games see never jumps: it follows wall time while the room runs and
\* stands still while it is held, across every way a pause can begin and end.
RoomClockContinuous ==
  [][Now' = Now + (IF IsPaused(room.clock) THEN 0 ELSE wall' - wall)]_vars

\* A round never begins held, on any of the paths into one.
RoundStartsRunning ==
  [][room'.roundCounter # room.roundCounter => ~IsPaused(room'.clock)]_vars

\* While the room is held, a deadline that still lies ahead is not reached:
\* a timed phase that ends under a pause was already over when it was paused.
PauseFreezesTimers ==
  [][LET round == room.currentRound
     IN  /\ IsPaused(room.clock) /\ round.phase \in TimedPhase
         /\ room'.currentRound.roundNumber = round.roundNumber
         /\ room'.currentRound.phase # round.phase
         => room.clock.pausedAt - room.clock.pausedTotalMs >= round.phaseEndsAt]_vars

\* Nobody is displaced behind their back: when the controls pass from a player
\* in the room to another one, that one had asked, and either somebody entitled
\* to answer agreed to exactly this request or its deadline had passed.
NoSilentTakeover ==
  [][LET from == Holder(room)
         to   == Holder(room')
     IN  from \in room.players /\ to \notin {from, NoPlayer} =>
           /\ Pending(room).playerId = to
           /\ \/ Pending(room).expiresAt <= wall
              \/ \E by \in Actor : ResolveControl(by, to, TRUE)]_vars

\* Rounds keep the promise of RoundLifecycle.
Lifecycle == INSTANCE RoundLifecycle WITH
  phase  <- room.currentRound.phase,
  number <- room.roundCounter,
  scored <- room.currentRound.scoreCommitted

ImplementsLifecycle == Lifecycle!Spec

-----------------------------------------------------------------------------
(* Liveness.                                                               *)

\* A handover nobody answers completes by itself: a request whose deadline has
\* passed does not stay, paused room or not, unless it is renewed.
OverdueHandoverCompletes ==
  (Pending(room) # NoRequest /\ Pending(room).expiresAt <= wall)
    ~> (Pending(room) = NoRequest \/ wall < Pending(room).expiresAt)

\* A phase whose time is up ends, or the room is held, or the round goes away:
\* no timed phase is a dead end.
Overdue(n, phase) ==
  /\ room.currentRound.roundNumber = n /\ room.currentRound.phase = phase
  /\ PhaseOver(room.currentRound, Now) /\ ~IsPaused(room.clock)

OverduePhaseEnds ==
  \A n \in 1..MaxRounds, phase \in TimedPhase : Overdue(n, phase) ~> ~Overdue(n, phase)

-----------------------------------------------------------------------------
(* What the documentation says and the code does not do.                   *)

\* "the pause is released when the player who set it loses control or leaves"
PauseFollowsControl ==
  [][LET by == room.clock.pausedByPlayerId
     IN  by # NoPlayer /\ Holder(room) = by /\ Holder(room') # by
           => room'.clock.pausedByPlayerId # by]_vars

\* "The round is held: the simulation and every phase timer stand still."
HeldRoundStandsStill ==
  [][IsPaused(room.clock) /\ IsPaused(room'.clock) /\ HasRound(room')
       => room'.currentRound = room.currentRound]_vars

\* "This round starts automatically once all players are ready again."
EveryoneReady ==
  /\ room.currentRound.phase = "finished"
  /\ room.selectedGameId \in WaitForReady \ ContinuesRun
  /\ CanStartRound(room, room.selectedGameId)

ReadyRoundStarts == EveryoneReady ~> ~EveryoneReady
=============================================================================
