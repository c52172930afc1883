--------------------------- MODULE SocketSessions ---------------------------
(***************************************************************************)
(* Who is where: the server's tables of rooms, of players in rooms, of     *)
(* reconnect sessions and of Socket.IO sockets, and the operators by which *)
(* playerManager.ts, playerPresenceTracker.ts, reconnectService.ts and     *)
(* socketSessionStore.ts change them.                                      *)
(*                                                                         *)
(* A player's reconnect token is made with the player and belongs to       *)
(* nobody else, so the player's id stands for both.  Player ids and socket *)
(* ids are never used twice by the program; here one may return once       *)
(* nothing names it.                                                       *)
(***************************************************************************)
EXTENDS Integers, FiniteSets

CONSTANTS
  Code,               \* room codes
  Socket,             \* socket ids
  Device,             \* device ids of phones
  PlayerId,           \* player ids, and the reconnect tokens made with them
  NoCode, NoSocket, NoDevice, NoPlayer, NoTime,
  ReconnectWindowMs   \* grace window of a disconnected player

ASSUME SessionNullsAreNew ==
  NoCode \notin Code /\ NoSocket \notin Socket /\ NoPlayer \notin PlayerId /\ NoTime \notin Int

ASSUME WindowFits == ReconnectWindowMs \in Nat

-----------------------------------------------------------------------------
(* The tables.                                                             *)

RoomEntry ==
  [open           : {TRUE},
   hostSocketId   : Socket \cup {NoSocket},
   expiresAt      : Nat \cup {NoTime},
   lastActivityAt : Nat]

NoRoom == [open |-> FALSE, hostSocketId |-> NoSocket, expiresAt |-> NoTime, lastActivityAt |-> 0]

\* A player record; `connected` is presence = "online" in every writer of the two.
Seat ==
  [roomCode    : Code,
   deviceId    : Device,
   socketId    : Socket \cup {NoSocket},
   presence    : {"online", "reconnecting", "offline"},
   graceEndsAt : Nat \cup {NoTime}]

NoSeat == [roomCode |-> NoCode, deviceId |-> NoDevice, socketId |-> NoSocket,
           presence |-> "none", graceEndsAt |-> NoTime]

Session   == [roomCode : Code, deviceId : Device, socketId : Socket \cup {NoSocket}]
NoSession == [roomCode |-> NoCode, deviceId |-> NoDevice, socketId |-> NoSocket]

Identity   == [role : {"none", "host", "controller"}, roomCode : Code \cup {NoCode},
               playerId : PlayerId \cup {NoPlayer}]
NoIdentity == [role |-> "none", roomCode |-> NoCode, playerId |-> NoPlayer]

\* data is socket.data, joined the Socket.IO rooms.  A socket whose connection is
\* lost keeps both for connection state recovery.  History: it has roamed when it was
\* given another room while it still named one.
SocketEntry == [status : {"unused", "live", "lost"}, data : Identity, joined : SUBSET Code,
                roamed : BOOLEAN]
NewSocket   == [status |-> "unused", data |-> NoIdentity, joined |-> {}, roamed |-> FALSE]

Server ==
  [rooms    : [Code -> RoomEntry \cup {NoRoom}],
   seats    : [PlayerId -> Seat \cup {NoSeat}],
   sessions : [PlayerId -> Session \cup {NoSession}],
   sockets  : [Socket -> SocketEntry]]

NewServer ==
  [rooms    |-> [c \in Code |-> NoRoom],
   seats    |-> [p \in PlayerId |-> NoSeat],
   sessions |-> [p \in PlayerId |-> NoSession],
   sockets  |-> [s \in Socket |-> NewSocket]]

OpenRooms(sv) == {c \in Code : sv.rooms[c].open}
Live(sv)      == {s \in Socket : sv.sockets[s].status = "live"}
Roster(sv, c) == {p \in PlayerId : sv.seats[p].roomCode = c}
Online(sv, c) == {p \in Roster(sv, c) : sv.seats[p].presence = "online"}

\* An id that nothing names any more stands for one never used before.
FreshPlayers(sv) ==
  {p \in PlayerId : /\ sv.seats[p] = NoSeat /\ sv.sessions[p] = NoSession
                    /\ \A s \in Socket : sv.sockets[s].data.playerId # p}

FreshSockets(sv) ==
  {s \in Socket \ Live(sv) : /\ \A c \in Code : sv.rooms[c].hostSocketId # s
                             /\ \A p \in PlayerId : s \notin {sv.seats[p].socketId,
                                                             sv.sessions[p].socketId}}

-----------------------------------------------------------------------------
(* Players and sessions.                                                   *)

\* markConnected and a new record agree: online on this socket, no grace window.
Seated(c, d, s) ==
  [roomCode |-> c, deviceId |-> d, socketId |-> s, presence |-> "online", graceEndsAt |-> NoTime]

\* joinPlayer on the record of the device, or on a new one.
JoinPlayer(sv, p, c, d, s) ==
  [sv EXCEPT !.seats[p]    = Seated(c, d, s),
             !.sessions[p] = [roomCode |-> c, deviceId |-> d, socketId |-> s]]

\* Variant: only the session learns of the new socket.
ResumePlayer_OldSocket(sv, p, s) ==
  [sv EXCEPT !.seats[p].presence    = "online",
             !.seats[p].graceEndsAt = NoTime,
             !.sessions[p].socketId = s]

ResumePlayer(sv, p, s) ==
  [sv EXCEPT !.seats[p]             = Seated(@.roomCode, @.deviceId, s),
             !.sessions[p].socketId = s]

DetachSocket(sessions, s) ==
  [p \in PlayerId |-> IF s # NoSocket /\ sessions[p].socketId = s
                      THEN [sessions[p] EXCEPT !.socketId = NoSocket] ELSE sessions[p]]

MarkDisconnected(seat, wall) ==
  [seat EXCEPT !.presence = "reconnecting", !.socketId = NoSocket,
               !.graceEndsAt = wall + ReconnectWindowMs]

\* Variant: the player is looked up by the socket's identity.
FindBySocket_ByIdentity(sv, c, s) == {p \in Roster(sv, c) : sv.sockets[s].data.playerId = p}

\* The player of the room on this very socket.
FindBySocket(sv, c, s) == {p \in Roster(sv, c) : sv.seats[p].socketId = s}

DisconnectPlayer(sv, p, s, wall) ==
  [sv EXCEPT !.seats[p] = MarkDisconnected(@, wall),
             !.sessions = DetachSocket(@, s)]

\* Variant: the reconnect session outlives the player.
RemovePlayer_KeepsSession(sv, p) ==
  [sv EXCEPT !.seats[p] = NoSeat, !.sessions = DetachSocket(@, sv.seats[p].socketId)]

RemovePlayer(sv, p) ==
  [sv EXCEPT !.seats[p] = NoSeat,
             !.sessions = DetachSocket([@ EXCEPT ![p] = NoSession], sv.seats[p].socketId)]

GraceOver(seat, wall) == seat.presence = "reconnecting" /\ seat.graceEndsAt <= wall

\* Variants: the window stays on record; windows run out only under a screen.
ExpireGraceWindows_KeepsWindow(sv, wall) ==
  [sv EXCEPT !.seats = [p \in PlayerId |->
     IF GraceOver(@[p], wall) THEN [@[p] EXCEPT !.presence = "offline"] ELSE @[p]]]

ExpireGraceWindows_NeedsScreen(sv, wall) ==
  [sv EXCEPT !.seats = [p \in PlayerId |->
     IF GraceOver(@[p], wall) /\ sv.rooms[@[p].roomCode].hostSocketId # NoSocket
     THEN [@[p] EXCEPT !.presence = "offline", !.graceEndsAt = NoTime] ELSE @[p]]]

ExpireGraceWindows(sv, wall) ==
  [sv EXCEPT !.seats = [p \in PlayerId |->
     IF GraceOver(@[p], wall) THEN [@[p] EXCEPT !.presence = "offline", !.graceEndsAt = NoTime]
                              ELSE @[p]]]

-----------------------------------------------------------------------------
(* Socket identities.                                                      *)

Roams(sv, s, c) == sv.sockets[s].roamed \/ sv.sockets[s].data.roomCode \notin {NoCode, c}

\* The room it named before is not left.
Identify(sv, s, identity) ==
  [sv EXCEPT !.sockets[s].data   = identity,
             !.sockets[s].joined = @ \cup {identity.roomCode},
             !.sockets[s].roamed = Roams(sv, s, identity.roomCode)]

\* clearSocketIdentity, then disconnect(true): nothing is left to recover.
Terminated(socket) == [NewSocket EXCEPT !.roamed = socket.roamed]

Terminate(sv, s) == [sv EXCEPT !.sockets[s] = Terminated(@)]

\* Leaves one Socket.IO room and forgets the identity, whichever room that names.
Expel(socket, rooms) ==
  [socket EXCEPT !.data = NoIdentity, !.joined = @ \ rooms]
=============================================================================
