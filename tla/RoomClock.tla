------------------------------ MODULE RoomClock ------------------------------
(***************************************************************************)
(* The room's own clock: wall time minus everything the room has spent     *)
(* paused (RoomManager.roomNow, pauseRoom, resumeRoom, clearPause).  Every *)
(* deadline of a round is a reading of this clock.                         *)
(***************************************************************************)
EXTENDS RoomRecord

IsPaused(clock) == clock.pausedAt # NoTime

\* Variant: the pause in progress is not subtracted.
RoomNow_RunsWhilePaused(clock, wall) == wall - clock.pausedTotalMs

RoomNow(clock, wall) ==
  wall - clock.pausedTotalMs - (IF IsPaused(clock) THEN wall - clock.pausedAt ELSE 0)

PauseRoom(clock, wall, playerId) ==
  IF IsPaused(clock) THEN clock
  ELSE [clock EXCEPT !.pausedAt = wall, !.pausedByPlayerId = playerId]

\* Variant: resuming forgets to add the pause to the total.
ResumeRoom_ForgetsPause(clock, wall) ==
  [clock EXCEPT !.pausedAt = NoTime, !.pausedByPlayerId = NoPlayer]

ResumeRoom(clock, wall) ==
  IF ~IsPaused(clock) THEN clock
  ELSE [pausedAt         |-> NoTime,
        pausedTotalMs    |-> clock.pausedTotalMs + (wall - clock.pausedAt),
        pausedByPlayerId |-> NoPlayer]

\* clearPause repeats resumeRoom; it only leaves the activity stamp alone.
ClearPause(r, wall) == [r EXCEPT !.clock = ResumeRoom(r.clock, wall)]
=============================================================================
