----------------------------- MODULE RoundEngine -----------------------------
(***************************************************************************)
(* The life of a round: may it start (roomLifecycle.ts), how it starts     *)
(* (gameRuntime.ts, registerSocketHandlers.ts), and how phase timers, the  *)
(* game's hooks and the score commit move it on                            *)
(* (gameTransitionService.ts).                                             *)
(*                                                                         *)
(* Games are external packages.  What a hook answers is a parameter        *)
(* `hooks`:                                                                *)
(*   phase    the phase its input, tick or action leaves the round in      *)
(*   over     what isRoundFinished says                                    *)
(*   scorers  the ids buildScore gives a point to, players or not          *)
(*   goOn     what shouldContinueRun says                                  *)
(***************************************************************************)
EXTENDS HostControl

Hooks == [phase : GamePhases, over : BOOLEAN, scorers : ScoreLists, goOn : BOOLEAN]

\* A game without a continuation rule is never asked whether it goes on.
GoOnAnswers(r) == IF r.currentRound.gameId \in ContinuesRun THEN BOOLEAN ELSE {FALSE}

\* The answers that can make a difference: a hook is called only in the phases it is for.
HooksFor(r) ==
  LET plays == r.currentRound.phase \in {"round_intro", "countdown", "playing"}
      pays  == plays \/ r.currentRound.phase = "locked"
  IN  {h \in Hooks : /\ ~plays => h.phase = "playing" /\ ~h.over
                     /\ ~pays => h.scorers = {}
                     /\ h.goOn \in GoOnAnswers(r)}

-----------------------------------------------------------------------------
(* Starting a round.                                                       *)

CanStartRound(r, g) ==
  /\ g # NoGame
  /\ ~HasActiveRound(r)
  /\ r.players # {} /\ r.players \subseteq r.ready
  /\ g \in SetupGames => r.players \subseteq r.chosen[g]
  /\ g \in ConfirmGames => g \in r.confirmed
  /\ MinPlayers[g] <= Cardinality(r.players)
  /\ Cardinality(r.players) <= MaxPlayers[g]

\* The initial state is the game's: a round_intro that ends by the clock.
InitialState(r, wall) ==
  [gameId         |-> r.selectedGameId,
   roundNumber    |-> r.roundCounter + 1,
   phase          |-> "round_intro",
   phaseEndsAt    |-> RoomNow(r.clock, wall) + Duration["round_intro"],
   scoreCommitted |-> FALSE]

\* Variant: a new round takes the number of the one before it.
OpenRound_ReusesNumber(r, wall) ==
  [r EXCEPT !.currentRound = [InitialState(r, wall) EXCEPT !.roundNumber = @ - 1]]

OpenRound(r, wall) ==
  [r EXCEPT !.currentRound = InitialState(r, wall), !.roundCounter = @ + 1]

StartRound(r, wall) ==
  IF r.selectedGameId = NoGame \/ HasActiveRound(r) THEN r ELSE OpenRound(r, wall)

SetAllReady(r, isReady) == [r EXCEPT !.ready = IF isReady THEN r.players ELSE {}]

\* Variant: the new round inherits a pause.
StartReadyLockedRound_Held(r, wall) ==
  IF r.selectedGameId \in WaitForReady /\ ~HasActiveRound(r)
  THEN SetAllReady(StartRound(r, wall), FALSE)
  ELSE StartRound(r, wall)

StartReadyLockedRound(r, wall) ==
  LET started == StartRound(ClearPause(r, wall), wall)
  IN  IF r.selectedGameId \in WaitForReady /\ ~HasActiveRound(r)
      THEN SetAllReady(started, FALSE)
      ELSE started

\* Only a finished round of a game with a continuation rule can say no.
ContinuationRefused(r, goOn) ==
  r.currentRound.phase = "finished" /\ r.currentRound.gameId \in ContinuesRun /\ ~goOn

MaybeAutoStartReadyRound(r, wall, goOn) ==
  IF /\ r.selectedGameId \in WaitForReady
     /\ ~ContinuationRefused(r, goOn)
     /\ CanStartRound(r, r.selectedGameId)
  THEN StartReadyLockedRound(r, wall)
  ELSE r

-----------------------------------------------------------------------------
(* Moving a round on.  The stages of progressRoom are functions from       *)
(* rounds to rounds; now is the room's clock.                              *)

Enter(round, phase, now) ==
  [round EXCEPT !.phase = phase,
                !.phaseEndsAt = IF phase \in TimedPhase THEN now + Duration[phase] ELSE NoTime]

PhaseOver(round, now) == round.phaseEndsAt # NoTime /\ now >= round.phaseEndsAt

\* One `if (state.phase === from && now >= phaseEndsAt)` of progressRoom.
After(from, to, now) ==
  [round \in Round |->
    IF round.phase = from /\ PhaseOver(round, now) THEN Enter(round, to, now) ELSE round]

\* A game's own input, tick or host action.
GameMoves(phase, now) ==
  [round \in Round |->
    IF round.phase = "playing" /\ phase # "playing" THEN Enter(round, phase, now) ELSE round]

LockIfFinished(over, now) ==
  [round \in Round |->
    IF round.phase = "playing" /\ over THEN Enter(round, "locked", now) ELSE round]

CommitScore ==
  [round \in Round |->
    IF round.phase = "locked" THEN [round EXCEPT !.scoreCommitted = TRUE] ELSE round]

AfterLocked(now) ==
  [round \in Round |->
    After("locked", IF round.gameId \in WaitForReady THEN "finished" ELSE "result", now)[round]]

Ticked(round, now, hooks, invokeGameTick) ==
  IF invokeGameTick THEN GameMoves(hooks.phase, now)[round] ELSE round

\* The round enters "playing", is ticked, and locks.
Played(round, now, hooks, invokeGameTick) ==
  LET counted == After("round_intro", "countdown", now)[round]
      playing == After("countdown", "playing", now)[counted]
  IN  LockIfFinished(hooks.over, now)[Ticked(playing, now, hooks, invokeGameTick)]

\* The phases after the lock.
Shown(round, now) == After("result", "scoreboard", now)[AfterLocked(now)[round]]

\* Variants: the lock runs out before the score is committed; the scoreboard never ends.
ProgressRound_ScoresLate(round, now, hooks, invokeGameTick) ==
  LET locked == AfterLocked(now)[Played(round, now, hooks, invokeGameTick)]
  IN  After("scoreboard", "finished", now)[Shown(CommitScore[locked], now)]

ProgressRound_ScoreboardStays(round, now, hooks, invokeGameTick) ==
  Shown(CommitScore[Played(round, now, hooks, invokeGameTick)], now)

\* progressRoom falls through: one call may carry a round over several phases.
ProgressRound(round, now, hooks, invokeGameTick) ==
  LET scored == CommitScore[Played(round, now, hooks, invokeGameTick)]
  IN  After("scoreboard", "finished", now)[Shown(scored, now)]

\* ScoreManager.apply skips ids that are not players of the room.
ApplyScore(r, scorers) ==
  [r EXCEPT !.score = [p \in Player |-> IF p \in scorers \cap r.players THEN r.score[p] + 1
                                                                        ELSE r.score[p]]]

\* Variant: every pass through a locked phase pays again.
CommitsNow_EveryPass(round, next) == next.scoreCommitted

CommitsNow(round, next) == next.scoreCommitted /\ ~round.scoreCommitted

ProgressRoom(r, wall, hooks, invokeGameTick) ==
  LET next == ProgressRound(r.currentRound, RoomNow(r.clock, wall), hooks, invokeGameTick)
      paid == IF CommitsNow(r.currentRound, next) /\ next.gameId \notin GameScoped
              THEN ApplyScore(r, hooks.scorers)
              ELSE r
  IN  [paid EXCEPT !.currentRound = next]

-----------------------------------------------------------------------------
(* The callers of progressRoom.                                            *)

SelectGame_KeepsRound(r, g) == [r EXCEPT !.selectedGameId = g]

SelectGame(r, g) == [r EXCEPT !.selectedGameId = g, !.currentRound = NoRound]

AbortRound(r) == [r EXCEPT !.currentRound = NoRound]

\* handleInput does not look at the pause.
HandleInput(r, wall, hooks) ==
  IF ~HasRound(r) THEN r
  ELSE ProgressRoom(
         [r EXCEPT !.currentRound = GameMoves(hooks.phase, RoomNow(r.clock, wall))[@]],
         wall, hooks, FALSE)

\* A host action may change the lobby settings, the confirmation among them,
\* and the state of a round of its game; it does not progress the round.
HandleHostAction(r, wall, phase, confirm) ==
  LET g == r.selectedGameId
  IN  [r EXCEPT
        !.confirmed    = IF g \notin ConfirmGames THEN @
                         ELSE IF confirm THEN @ \cup {g} ELSE @ \ {g},
        !.currentRound = IF @.gameId = g THEN GameMoves(phase, RoomNow(r.clock, wall))[@] ELSE @]

TickRoom(r, wall, hooks) ==
  IF ~HasRound(r) \/ IsPaused(r.clock) THEN r ELSE ProgressRoom(r, wall, hooks, TRUE)

\* What the timer does when its tick finished a wait_for_ready round.
SettleFinishedRound(r, wall, goOn) ==
  LET carry == r.currentRound.gameId \in ContinuesRun /\ goOn
  IN  IF carry /\ CanStartRound(r, r.currentRound.gameId)
      THEN SetAllReady(StartRound(ClearPause(r, wall), wall), FALSE)
      ELSE IF carry THEN r ELSE SetAllReady(r, FALSE)

AdvanceRound(r, wall, hooks) ==
  LET ticked == TickRoom(r, wall, hooks)
  IN  IF /\ ticked.currentRound.phase = "finished"
         /\ r.currentRound.phase # "finished"
         /\ ticked.currentRound.gameId \in WaitForReady
      THEN SettleFinishedRound(ticked, wall, hooks.goOn)
      ELSE ticked

\* Variant: a paused room is skipped before its open request is looked at.
RoundTimerTick_SkipsPaused(r, wall, hooks) ==
  IF IsPaused(r.clock) THEN r
  ELSE AdvanceRound(ExpireHostControlRequest(r, wall), wall, hooks)

\* One room's turn of the interval callback.
RoundTimerTick(r, wall, hooks) ==
  AdvanceRound(ExpireHostControlRequest(r, wall), wall, hooks)
=============================================================================
