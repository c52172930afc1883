----------------------------- MODULE HostControl -----------------------------
(***************************************************************************)
(* Who may drive the room: the shared screen always, and the one player it *)
(* has handed the controls to (RoomManager.requestHostControl ..           *)
(* hasHostControl).                                                        *)
(***************************************************************************)
EXTENDS RoomClock

Holder(r)  == r.hostControl.holderPlayerId
Pending(r) == r.hostControl.pendingRequest

WithControl(r, holder, pending) ==
  [r EXCEPT !.hostControl = [holderPlayerId |-> holder, pendingRequest |-> pending]]

HasHostControl(r, p) == Holder(r) = p /\ p \in r.players

\* The gate of every room-driving handler.
CanControlRoom(r, by) == by = Screen \/ HasHostControl(r, by)

RequestHostControl(r, p, wall) ==
  IF Holder(r) \in r.players \ {p}
  THEN WithControl(r, Holder(r), [playerId |-> p, expiresAt |-> wall + HandoverMs])
  ELSE WithControl(r, p, NoRequest)

IfPresent(r, p) == IF p \in r.players THEN p ELSE NoPlayer

\* Variant: an answer is applied without comparing it with the open request.
ResolveHostControl_AnyRequest(r, p, grant) ==
  WithControl(r, IF grant THEN IfPresent(r, p) ELSE Holder(r), NoRequest)

ResolveHostControl(r, p, grant) ==
  IF Pending(r).playerId # p THEN r
  ELSE WithControl(r, IF grant THEN IfPresent(r, p) ELSE Holder(r), NoRequest)

\* Silence is consent once the deadline has passed.
ExpireHostControlRequest(r, wall) ==
  IF Pending(r) = NoRequest \/ wall < Pending(r).expiresAt THEN r
  ELSE WithControl(r, IfPresent(r, Pending(r).playerId), NoRequest)

ReleasePauseHeldBy(r, p, wall) ==
  IF p = NoPlayer \/ r.clock.pausedByPlayerId # p THEN r ELSE ClearPause(r, wall)

ReleaseHostControl(r, wall) ==
  WithControl(ReleasePauseHeldBy(r, Holder(r), wall), NoPlayer, NoRequest)

\* Variants: a leaver's request stays open; a leaver's pause stays in force.
ForgetHostControlForPlayer_KeepsRequest(r, p, wall) ==
  ReleasePauseHeldBy(WithControl(r, IF Holder(r) = p THEN NoPlayer ELSE Holder(r), Pending(r)),
                     p, wall)

ForgetHostControlForPlayer_KeepsPause(r, p, wall) ==
  WithControl(r, IF Holder(r) = p THEN NoPlayer ELSE Holder(r),
                 IF Pending(r).playerId = p THEN NoRequest ELSE Pending(r))

ForgetHostControlForPlayer(r, p, wall) ==
  ReleasePauseHeldBy(
    WithControl(r, IF Holder(r) = p THEN NoPlayer ELSE Holder(r),
                   IF Pending(r).playerId = p THEN NoRequest ELSE Pending(r)),
    p, wall)
=============================================================================
