----------------------------- MODULE RoomCleanup -----------------------------
(***************************************************************************)
(* How rooms come and go: creation and the screen that hosts a room        *)
(* (roomManager.ts), removal of idle and expired rooms, eviction at the    *)
(* limit and the extension of a room's lifetime (roomCleanupService.ts).   *)
(***************************************************************************)
EXTENDS SocketSessions

CONSTANTS
  Hosted,             \* hostedMode
  PrimaryCode,        \* fixedPrimaryRoomCode, or NoCode
  MaxRooms,           \* roomMaxCount
  InactivityMs,       \* roomInactivityTimeoutMs
  LifetimeMs,         \* maxLifetimeMs; 0 for rooms that live on
  ExtensionWindowMs   \* ROOM_EXTENSION_WINDOW_MS

ASSUME CleanupFits ==
  /\ Hosted \in BOOLEAN /\ PrimaryCode \in Code \cup {NoCode}
  /\ MaxRooms \in Nat \ {0}
  /\ ~Hosted => LifetimeMs = 0
  /\ {InactivityMs, LifetimeMs, ExtensionWindowMs} \subseteq Nat

Touch(sv, c, wall) ==
  IF c \in OpenRooms(sv) THEN [sv EXCEPT !.rooms[c].lastActivityAt = wall] ELSE sv

-----------------------------------------------------------------------------
(* Closing.                                                                *)

\* The players go with the record, and every live socket in the Socket.IO room
\* forgets who it is, whichever room its identity names.
CloseEntries(sv, closing) ==
  [sv EXCEPT !.rooms   = [c \in Code |-> IF c \in closing THEN NoRoom ELSE @[c]],
             !.seats   = [p \in PlayerId |-> IF @[p].roomCode \in closing THEN NoSeat ELSE @[p]],
             !.sockets = [s \in Socket |->
               IF @[s].status = "live" /\ @[s].joined \cap closing # {}
               THEN Expel(@[s], closing) ELSE @[s]]]

\* closeRoom of each room.
CloseRooms(sv, closing) ==
  [CloseEntries(sv, closing) EXCEPT
     !.sessions = [p \in PlayerId |-> IF @[p].roomCode \in closing THEN NoSession ELSE @[p]]]

Expired(room, wall) == room.expiresAt # NoTime /\ room.expiresAt <= wall

\* Variant: only the shared screen keeps a room.
Abandoned_WithPlayers(sv, c, wall) ==
  sv.rooms[c].hostSocketId = NoSocket /\ sv.rooms[c].lastActivityAt + InactivityMs <= wall

\* Nobody connected, and nothing has happened for long enough.
Abandoned(sv, c, wall) ==
  /\ sv.rooms[c].hostSocketId = NoSocket
  /\ Online(sv, c) = {}
  /\ sv.rooms[c].lastActivityAt + InactivityMs <= wall

\* Variants: expired rooms, or idle ones, are left to be evicted.
RemoveInactiveRooms_KeepsExpired(sv, wall) ==
  CloseRooms(sv, {c \in OpenRooms(sv) : Abandoned(sv, c, wall)})

RemoveInactiveRooms_KeepsIdle(sv, wall) ==
  CloseRooms(sv, {c \in OpenRooms(sv) : Expired(sv.rooms[c], wall)})

RemoveInactiveRooms(sv, wall) ==
  CloseRooms(sv, {c \in OpenRooms(sv) : Expired(sv.rooms[c], wall) \/ Abandoned(sv, c, wall)})

\* At the limit the longest idle room without a connected player makes space; its
\* screen may well be connected.
Evictable(sv) ==
  LET empty == {c \in OpenRooms(sv) : Online(sv, c) = {}}
  IN  {c \in empty : \A d \in empty : sv.rooms[c].lastActivityAt <= sv.rooms[d].lastActivityAt}

\* Variant: the room at the limit is still let in.
HasSpace_OneMore(sv) == Cardinality(OpenRooms(sv)) <= MaxRooms

HasSpace(sv) == Cardinality(OpenRooms(sv)) < MaxRooms

-----------------------------------------------------------------------------
(* Opening.                                                                *)

FreeCodes(sv) ==
  IF PrimaryCode \in Code \ OpenRooms(sv) THEN {PrimaryCode} ELSE Code \ OpenRooms(sv)

CreateRoom(sv, c, wall) ==
  [sv EXCEPT !.rooms[c] =
     [open           |-> TRUE,
      hostSocketId   |-> NoSocket,
      expiresAt      |-> IF LifetimeMs > 0 THEN wall + LifetimeMs ELSE NoTime,
      lastActivityAt |-> wall]]

\* The rest of room:create.  A screen replaced by another one leaves the room and
\* forgets who it is.
AttachHost(sv, c, s, wall) ==
  LET previous == {sv.rooms[c].hostSocketId} \cap (Live(sv) \ {s})
      expelled == [sv EXCEPT !.sockets = [t \in Socket |->
                     IF t \in previous THEN Expel(@[t], {c}) ELSE @[t]]]
  IN  Identify([Touch(expelled, c, wall) EXCEPT !.rooms[c].hostSocketId = s], s,
               [expelled.sockets[s].data EXCEPT !.role = "host", !.roomCode = c])

\* Variant: a screen that goes away is only noted as activity.
ClearHostSocket_Forgets(sv, c, s, wall) == Touch(sv, c, wall)

ClearHostSocket(sv, c, s, wall) ==
  IF sv.rooms[c].hostSocketId # s THEN sv
  ELSE [Touch(sv, c, wall) EXCEPT !.rooms[c].hostSocketId = NoSocket]

CanExtend(sv, c, s, wall) ==
  /\ Hosted
  /\ sv.sockets[s].data.role = "host" /\ sv.rooms[c].hostSocketId = s
  /\ sv.rooms[c].expiresAt # NoTime
  /\ wall < sv.rooms[c].expiresAt
  /\ sv.rooms[c].expiresAt - wall <= ExtensionWindowMs

ExtendRoomLifetime(sv, c, wall) ==
  [Touch(sv, c, wall) EXCEPT !.rooms[c].expiresAt = @ + LifetimeMs]
=============================================================================
