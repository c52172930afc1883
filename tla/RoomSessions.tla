---------------------------- MODULE RoomSessions ----------------------------
(***************************************************************************)
(* Connections, players' seats and rooms on the server: the socket         *)
(* handlers that say who a socket is, the loss and recovery of             *)
(* connections, the grace windows of the round timer and the cleanup       *)
(* interval.  One atomic action per handler, as in PartyRoom; what happens *)
(* inside a room is that module's part.                                    *)
(***************************************************************************)
EXTENDS RoomCleanup

CONSTANTS
  Habits,    \* what clients do beyond one room per socket, see MayHost and MayJoin
  MaxTime    \* bound: the wall clock stops here

ASSUME HabitsFit == Habits \subseteq {"retry_create", "join_elsewhere"} /\ MaxTime \in Nat

VARIABLES
  wall,      \* Date.now() of the server
  server     \* the Server record

vars == <<wall, server>>

Init == wall = 0 /\ server = NewServer

Becomes(sv) == server' = sv /\ UNCHANGED wall

Data(s) == server.sockets[s].data

\* The middleware in front of every handler: an event keeps its room active.
Received(s) == Touch(server, Data(s).roomCode, wall)

-----------------------------------------------------------------------------
(* Connections.                                                            *)

Connect(s) ==
  /\ s \in FreshSockets(server)
  /\ Becomes([server EXCEPT !.sockets[s] = [NewSocket EXCEPT !.status = "live"]])

\* Connection state recovery gives the socket its id, rooms and data back; the
\* server's tables are not told.
Recover(s) ==
  /\ server.sockets[s].status = "lost"
  /\ Becomes([server EXCEPT !.sockets[s].status = "live"])

\* The disconnect handler.  It may run long after the phone has come back on
\* another socket.
Disconnected(s) ==
  LET c == Data(s).roomCode
  IN  IF c \notin OpenRooms(server) THEN {server}
      ELSE IF Data(s).role = "host" THEN {ClearHostSocket(server, c, s, wall)}
      ELSE LET found == FindBySocket(server, c, s)
           IN  IF found = {} THEN {Touch(server, c, wall)}
               ELSE {Touch(DisconnectPlayer(server, p, s, wall), c, wall) : p \in found}

Disconnect(s) ==
  /\ s \in Live(server)
  /\ \E sv \in Disconnected(s) : Becomes([sv EXCEPT !.sockets[s].status = "lost"])

-----------------------------------------------------------------------------
(* Screens.                                                                *)

\* A screen asks again for the room it has.  One whose answer is late does not know
\* its room yet and asks for a new one.
MayHost(s, requested) ==
  \/ Data(s).roomCode = NoCode
  \/ Data(s).role = "host" /\ requested = Data(s).roomCode
  \/ "retry_create" \in Habits /\ Data(s).role = "host" /\ requested = NoCode

CreateLocalPrimaryRoom(c) == ~Hosted /\ c = PrimaryCode /\ c \notin OpenRooms(server)

HostNewRoom(sv, s) ==
  \E c \in FreeCodes(sv) : Becomes(AttachHost(CreateRoom(sv, c, wall), c, s, wall))

\* prepareForRoomCreation, whose sweep stays done when creation is refused.
CreateNewRoom(s) ==
  LET swept == RemoveInactiveRooms(Received(s), wall)
  IN  IF HasSpace(swept) THEN HostNewRoom(swept, s)
      ELSE IF Evictable(swept) = {} THEN Becomes(swept)
      ELSE \E victim \in Evictable(swept) : HostNewRoom(CloseRooms(swept, {victim}), s)

RequestRoom(s, requested) ==
  /\ s \in Live(server)
  /\ MayHost(s, requested)
  /\ IF requested = NoCode \/ CreateLocalPrimaryRoom(requested) THEN CreateNewRoom(s)
     ELSE IF requested \in OpenRooms(server)
          THEN Becomes(AttachHost(Received(s), requested, s, wall))
          ELSE Becomes(Received(s))

ExtendLifetime(s) ==
  /\ s \in Live(server)
  /\ Data(s).roomCode \in OpenRooms(server)
  /\ CanExtend(server, Data(s).roomCode, s, wall)
  /\ Becomes(ExtendRoomLifetime(server, Data(s).roomCode, wall))

-----------------------------------------------------------------------------
(* Phones.                                                                 *)

HasSeat(s) == Data(s).playerId \in Roster(server, Data(s).roomCode)

\* A phone joins the room it is in once more with the same device, or, when its
\* player is gone, sits down again: in the same room, or by habit elsewhere.
MayJoin(s, c, d) ==
  \/ Data(s).roomCode = NoCode
  \/ /\ Data(s).role = "controller"
     /\ IF HasSeat(s) THEN c = Data(s).roomCode /\ d = server.seats[Data(s).playerId].deviceId
                      ELSE c = Data(s).roomCode \/ "join_elsewhere" \in Habits

JoinRoom(s, c, d) ==
  /\ s \in Live(server) /\ c \in OpenRooms(server)
  /\ MayJoin(s, c, d)
  /\ LET known == {p \in Roster(server, c) : server.seats[p].deviceId = d}
     IN  \E p \in IF known # {} THEN known ELSE FreshPlayers(server) :
           Becomes(Identify(JoinPlayer(Touch(Received(s), c, wall), p, c, d, s), s,
                            [role |-> "controller", roomCode |-> c, playerId |-> p]))

\* A stored token is good for its own player only.
ResumeSession(s, p) ==
  /\ s \in Live(server)
  /\ Data(s).roomCode = NoCode \/ Data(s).playerId = p
  /\ LET session == server.sessions[p]
     IN  /\ session.roomCode \in OpenRooms(server)
         /\ server.seats[p].roomCode = session.roomCode
         /\ Becomes(Identify(ResumePlayer(Touch(server, session.roomCode, wall), p, s), s,
                             [role |-> "controller", roomCode |-> session.roomCode,
                              playerId |-> p]))

\* Leaving ends the connection of the socket that asks, which need not be the one
\* the player is online on.
LeaveRoom(s) ==
  /\ s \in Live(server)
  /\ Data(s).role = "controller" /\ Data(s).roomCode \in OpenRooms(server)
  /\ HasSeat(s)
  /\ Becomes(Terminate(RemovePlayer(Received(s), Data(s).playerId), s))

\* A player who was removed is thrown out on the socket they are online on.
Kick(s, p) ==
  /\ s \in Live(server)
  /\ Data(s).roomCode \in OpenRooms(server) /\ p \in Roster(server, Data(s).roomCode)
  /\ (Data(s).role = "host" \/ HasSeat(s))
  /\ LET target  == server.seats[p].socketId
         removed == RemovePlayer(Received(s), p)
     IN  Becomes(IF target \in Live(server) THEN Terminate(removed, target) ELSE removed)

\* Every other event, and every refusal.
OtherEvent(s) == s \in Live(server) /\ Becomes(Received(s))

-----------------------------------------------------------------------------
(* The server's own steps.                                                 *)

GraceTimer == Becomes(ExpireGraceWindows(server, wall))

Cleanup == Becomes(RemoveInactiveRooms(server, wall))

TimePasses ==
  /\ wall < MaxTime
  /\ wall' = wall + 1
  /\ UNCHANGED server

-----------------------------------------------------------------------------

SocketStep(s) ==
  \/ Connect(s)
  \/ Recover(s)
  \/ Disconnect(s)
  \/ \E c \in Code \cup {NoCode} : RequestRoom(s, c)
  \/ ExtendLifetime(s)
  \/ \E c \in Code, d \in Device : JoinRoom(s, c, d)
  \/ \E p \in PlayerId : ResumeSession(s, p)
  \/ LeaveRoom(s)
  \/ \E p \in PlayerId : Kick(s, p)
  \/ OtherEvent(s)

Next ==
  \/ \E s \in Socket : SocketStep(s)
  \/ GraceTimer
  \/ Cleanup
  \/ TimePasses

Spec == Init /\ [][Next]_vars

\* Both intervals run as long as the server does; people and networks owe nothing.
FairSpec == Spec /\ WF_vars(GraceTimer) /\ WF_vars(Cleanup)

-----------------------------------------------------------------------------
(* Invariants.                                                             *)

\* The tables have their shape; a player has a socket exactly while online and a
\* grace window exactly while reconnecting.
TypeOK ==
  /\ wall \in Nat
  /\ server \in Server
  /\ \A p \in PlayerId : LET seat == server.seats[p] IN
       /\ seat.presence = "online" <=> seat.socketId # NoSocket
       /\ seat.presence = "reconnecting" <=> seat.graceEndsAt # NoTime

\* Every player can come back and nobody else can: sessions and players of open
\* rooms correspond one to one, through leaving, kicks and closed rooms.
SessionsResume ==
  \A p \in PlayerId :
    /\ server.seats[p].roomCode = server.sessions[p].roomCode
    /\ server.seats[p].deviceId = server.sessions[p].deviceId
    /\ server.seats[p] # NoSeat => server.seats[p].roomCode \in OpenRooms(server)

\* A player shown online can be reached, and their going away will be noticed: the
\* socket on record is live, is in the room and knows that it is this player, whatever
\* the sockets of others do.  Not so on a socket that roamed: the room it still is in
\* takes its identity away when it closes.
OnlineMeansReachable ==
  \A p \in PlayerId : LET seat == server.seats[p] IN
    seat.presence = "online" =>
      /\ seat.socketId \in Socket
      /\ ~server.sockets[seat.socketId].roamed =>
           /\ seat.socketId \in Live(server)
           /\ Data(seat.socketId) =
                [role |-> "controller", roomCode |-> seat.roomCode, playerId |-> p]
           /\ seat.roomCode \in server.sockets[seat.socketId].joined

\* A room that counts on a screen has one whose going away will be noticed, unless the
\* screen asked for another room meanwhile (retried_room_stays shows what happens then).
HostSocketIsLive ==
  \A c \in OpenRooms(server) : LET s == server.rooms[c].hostSocketId IN
    s # NoSocket /\ ~server.sockets[s].roamed =>
      s \in Live(server) /\ Data(s).role = "host" /\ Data(s).roomCode = c

\* The server never holds more rooms than it may.
RoomLimit == Cardinality(OpenRooms(server)) <= MaxRooms

-----------------------------------------------------------------------------
(* Action properties.                                                      *)

\* A room with somebody online is closed for its lifetime only, neither as idle nor
\* to make space.
ActiveRoomStays ==
  [][\A c \in OpenRooms(server) :
       Online(server, c) # {} /\ c \notin OpenRooms(server') => Expired(server.rooms[c], wall)]_vars

\* While the socket a player is online on stays connected, they stay online or are
\* removed: no late disconnect of an older socket, and no grace window of an
\* earlier absence, takes them offline.
ReachableStaysOnline ==
  [][\A p \in PlayerId : LET seat == server.seats[p] IN
       seat.presence = "online" /\ seat.socketId \in Live(server')
         => server'.seats[p].presence = "online" \/ server'.seats[p].roomCode # seat.roomCode]_vars

-----------------------------------------------------------------------------
(* Liveness.                                                               *)

\* Nobody stays "reconnecting" beyond the grace window.
GraceEnds ==
  \A p \in PlayerId : GraceOver(server.seats[p], wall) ~> ~GraceOver(server.seats[p], wall)

\* "After the last participant disconnects, an in-memory room is deleted after ten
\* minutes of inactivity."
Deserted(c) ==
  /\ c \in OpenRooms(server)
  /\ \A s \in Live(server) : c \notin server.sockets[s].joined
  /\ server.rooms[c].lastActivityAt + InactivityMs <= wall

AbandonedRoomGoes == \A c \in Code : Deserted(c) ~> ~Deserted(c)

\* A room whose lifetime is over is closed, with whoever is in it.
Overdue(c) == c \in OpenRooms(server) /\ Expired(server.rooms[c], wall)

ExpiredRoomGoes == \A c \in Code : Overdue(c) ~> ~Overdue(c)
=============================================================================
