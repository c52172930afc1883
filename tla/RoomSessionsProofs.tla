------------------------- MODULE RoomSessionsProofs -------------------------
(***************************************************************************)
(* Theorems about RoomSessions for every number of rooms, sockets,         *)
(* players, devices, every limit, every grace window and every habit of    *)
(* the clients: sockets that roam are part of all of them.                 *)
(*                                                                         *)
(* The argument has one inductive invariant, Sound, which ties the four    *)
(* tables a handler reads one after the other: sockets (who they say they  *)
(* are), seats, room records and the session index.  Every operation that  *)
(* builds a Server gets a lemma that says what it changes (its effect); a  *)
(* handler's lemma composes the effects and shows that the tables still    *)
(* agree. Good is the relation of one step; the theorems follow from it.   *)
(***************************************************************************)
EXTENDS RoomSessions, FiniteSetTheorems, TLAPS

\* An identity says one thing, the player it names sits in the room it names, and its socket
\* is in no other Socket.IO room unless it roamed.
IdentityFits(sv, s) ==
  LET i == sv.sockets[s].data
  IN  /\ i.role = "none" => i = NoIdentity
      /\ i.role = "host" => i.roomCode \in Code /\ i.playerId = NoPlayer
      /\ i.role = "controller" =>
           /\ i.roomCode \in Code /\ i.playerId \in PlayerId
           /\ sv.seats[i.playerId].roomCode \in {NoCode, i.roomCode}
      /\ ~sv.sockets[s].roamed => sv.sockets[s].joined \subseteq {i.roomCode}

\* A seat's presence, socket, grace window and session agree, its room is open, and an
\* online player's socket is live and says it is that player, if it did not roam.
SeatFits(sv, p) ==
  LET seat == sv.seats[p]
  IN  /\ seat.presence = "online" <=> seat.socketId # NoSocket
      /\ seat.presence = "reconnecting" <=> seat.graceEndsAt # NoTime
      /\ seat.roomCode = sv.sessions[p].roomCode
      /\ seat.deviceId = sv.sessions[p].deviceId
      /\ seat # NoSeat => sv.rooms[seat.roomCode].open
      /\ seat.presence = "online" /\ ~sv.sockets[seat.socketId].roamed =>
           /\ sv.sockets[seat.socketId].status = "live"
           /\ sv.sockets[seat.socketId].data =
                [role |-> "controller", roomCode |-> seat.roomCode, playerId |-> p]
           /\ seat.roomCode \in sv.sockets[seat.socketId].joined

\* The socket a room counts on is live and says it is that room's host, if it did not roam.
HostFits(sv, c) ==
  LET s == sv.rooms[c].hostSocketId
  IN  s # NoSocket /\ ~sv.sockets[s].roamed =>
        /\ sv.sockets[s].status = "live"
        /\ sv.sockets[s].data.role = "host" /\ sv.sockets[s].data.roomCode = c

\* In one room, a device holds one seat.
DevicesApart(sv) ==
  \A p, q \in PlayerId :
    (/\ sv.seats[p] # NoSeat
     /\ sv.seats[p].roomCode = sv.seats[q].roomCode
     /\ sv.seats[p].deviceId = sv.seats[q].deviceId)
    => p = q

\* Everything the session handlers rely on.
Sound(sv) ==
  /\ sv \in Server
  /\ \A s \in Socket : IdentityFits(sv, s)
  /\ \A p \in PlayerId : SeatFits(sv, p)
  /\ \A c \in Code : HostFits(sv, c)
  /\ DevicesApart(sv)
  /\ Cardinality(OpenRooms(sv)) <= MaxRooms

\* What the theorems assume of the constants: there are finitely many codes.
SessionConstants == IsFiniteSet(Code)

\* Touching a room moves its activity and nothing else (roomStore.ts touch).
LEMMA TouchEffect ==
  ASSUME NEW sv \in Server, NEW c \in Code \cup {NoCode}, NEW w \in Nat
  PROVE  LET sw == Touch(sv, c, w)
         IN  /\ sw \in Server
             /\ sw.seats = sv.seats /\ sw.sessions = sv.sessions /\ sw.sockets = sv.sockets
             /\ \A d \in Code : /\ sw.rooms[d].open = sv.rooms[d].open
                                /\ sw.rooms[d].hostSocketId = sv.rooms[d].hostSocketId
                                /\ sw.rooms[d].expiresAt = sv.rooms[d].expiresAt
<1> DEFINE sw == Touch(sv, c, w)
<1>1. CASE c \notin OpenRooms(sv)
  BY <1>1 DEF Touch
<1>2. CASE c \in OpenRooms(sv)
  <2>1. sw = [sv EXCEPT !.rooms[c].lastActivityAt = w] /\ c \in Code /\ sv.rooms[c].open
    BY <1>2 DEF Touch, OpenRooms
  <2>2. sv.rooms[c] \in RoomEntry
    BY <2>1 DEF Server, NoRoom
  <2>3. [sv.rooms[c] EXCEPT !.lastActivityAt = w] \in RoomEntry
    BY <2>2 DEF RoomEntry
  <2>4. sw.rooms = [sv.rooms EXCEPT ![c] = [sv.rooms[c] EXCEPT !.lastActivityAt = w]]
    BY <2>1 DEF Server
  <2>5. sw.rooms \in [Code -> RoomEntry \cup {NoRoom}]
    BY <2>3, <2>4 DEF Server
  <2>6. sw.seats = sv.seats /\ sw.sessions = sv.sessions /\ sw.sockets = sv.sockets
    BY <2>1 DEF Server
  <2>7. sw \in Server
    BY <2>1, <2>5, <2>6 DEF Server
  <2>8. \A d \in Code : /\ sw.rooms[d].open = sv.rooms[d].open
                        /\ sw.rooms[d].hostSocketId = sv.rooms[d].hostSocketId
                        /\ sw.rooms[d].expiresAt = sv.rooms[d].expiresAt
    BY <2>2, <2>4 DEF Server, RoomEntry
  <2> QED BY <2>6, <2>7, <2>8
<1> QED BY <1>1, <1>2

\* A sound server's rooms name real sockets or none.
LEMMA HostSocketType ==
  ASSUME NEW sv \in Server, NEW c \in Code
  PROVE  sv.rooms[c].hostSocketId \in Socket \cup {NoSocket}
<1>1. sv.rooms[c] \in RoomEntry \cup {NoRoom}
  BY DEF Server
<1>2. CASE sv.rooms[c] = NoRoom
  BY <1>2 DEF NoRoom
<1>3. CASE sv.rooms[c] \in RoomEntry
  BY <1>3 DEF RoomEntry
<1> QED BY <1>1, <1>2, <1>3

\* What Sound says of the rooms is which are open and whose screen hosts them.
LEMMA SameEssence ==
  ASSUME NEW sv, Sound(sv), NEW sw \in Server,
         sw.seats = sv.seats, sw.sessions = sv.sessions, sw.sockets = sv.sockets,
         \A c \in Code : /\ sw.rooms[c].open = sv.rooms[c].open
                         /\ sw.rooms[c].hostSocketId = sv.rooms[c].hostSocketId
  PROVE  Sound(sw) /\ OpenRooms(sw) = OpenRooms(sv) /\ Live(sw) = Live(sv)
<1>1. OpenRooms(sw) = OpenRooms(sv) /\ Live(sw) = Live(sv)
  BY DEF OpenRooms, Live
<1>2. \A s \in Socket : IdentityFits(sw, s)
  BY DEF Sound, IdentityFits
<1>3. ASSUME NEW p \in PlayerId PROVE SeatFits(sw, p)
  <2>1. sv.seats[p] # NoSeat => sv.seats[p].roomCode \in Code
    BY DEF Sound, Server, Seat
  <2> QED BY SMTT(90), <2>1 DEF Sound, SeatFits
<1>4. \A c \in Code : HostFits(sw, c)
  BY SMTT(60) DEF Sound, HostFits
<1>5. DevicesApart(sw)
  BY DEF Sound, DevicesApart
<1> QED BY <1>1, <1>2, <1>3, <1>4, <1>5 DEF Sound

\* An event that only keeps its room active.
LEMMA TouchSound ==
  ASSUME NEW sv, Sound(sv), NEW c \in Code \cup {NoCode}, NEW w \in Nat
  PROVE  Sound(Touch(sv, c, w))
<1>1. sv \in Server
  BY DEF Sound
<1> QED BY <1>1, TouchEffect, SameEssence

-----------------------------------------------------------------------------
(* Closing rooms.                                                          *)

\* Closing a room frees its seats and sessions and resets its sockets' identities; nobody else's.
LEMMA CloseEffect ==
  ASSUME NEW sv \in Server, NEW closing \in SUBSET Code
  PROVE  LET sw == CloseRooms(sv, closing)
         IN  /\ sw \in Server
             /\ sw.rooms = [c \in Code |-> IF c \in closing THEN NoRoom ELSE sv.rooms[c]]
             /\ sw.seats = [p \in PlayerId |-> IF sv.seats[p].roomCode \in closing
                                               THEN NoSeat ELSE sv.seats[p]]
             /\ sw.sessions = [p \in PlayerId |-> IF sv.sessions[p].roomCode \in closing
                                                  THEN NoSession ELSE sv.sessions[p]]
             /\ sw.sockets = [s \in Socket |->
                  IF sv.sockets[s].status = "live" /\ sv.sockets[s].joined \cap closing # {}
                  THEN Expel(sv.sockets[s], closing) ELSE sv.sockets[s]]
             /\ OpenRooms(sw) = OpenRooms(sv) \ closing
<1> DEFINE sw == CloseRooms(sv, closing)
           rooms == [c \in Code |-> IF c \in closing THEN NoRoom ELSE sv.rooms[c]]
           seats == [p \in PlayerId |-> IF sv.seats[p].roomCode \in closing
                                        THEN NoSeat ELSE sv.seats[p]]
           sessions == [p \in PlayerId |-> IF sv.sessions[p].roomCode \in closing
                                           THEN NoSession ELSE sv.sessions[p]]
           sockets == [s \in Socket |->
                  IF sv.sockets[s].status = "live" /\ sv.sockets[s].joined \cap closing # {}
                  THEN Expel(sv.sockets[s], closing) ELSE sv.sockets[s]]
<1>1. sw = [sv EXCEPT !.rooms = rooms, !.seats = seats, !.sockets = sockets, !.sessions = sessions]
  BY DEF CloseRooms, CloseEntries, Server
<1>2. rooms \in [Code -> RoomEntry \cup {NoRoom}]
  BY DEF Server
<1>3. seats \in [PlayerId -> Seat \cup {NoSeat}] /\ sessions \in [PlayerId -> Session \cup {NoSession}]
  BY DEF Server
<1>4. sockets \in [Socket -> SocketEntry]
  <2>1. NoIdentity \in Identity
    BY DEF NoIdentity, Identity
  <2>2. ASSUME NEW x \in SocketEntry PROVE Expel(x, closing) \in SocketEntry
    BY <2>1 DEF Expel, SocketEntry
  <2> QED BY <2>2 DEF Server
<1>5. sw \in Server /\ sw.rooms = rooms /\ sw.seats = seats /\ sw.sessions = sessions /\ sw.sockets = sockets
  <2> HIDE DEF sw, rooms, seats, sessions, sockets
  <2> QED BY <1>1, <1>2, <1>3, <1>4 DEF Server
<1>6. OpenRooms(sw) = OpenRooms(sv) \ closing
  <2>1. ~NoRoom.open
    BY DEF NoRoom
  <2> QED BY <1>5, <2>1 DEF OpenRooms
<1> QED BY <1>5, <1>6

\* Whoever is left after rooms are closed has lost nothing.
LEMMA CloseSound ==
  ASSUME NEW sv, Sound(sv), NEW closing \in SUBSET Code, SessionConstants
  PROVE  /\ Sound(CloseRooms(sv, closing))
         /\ Live(CloseRooms(sv, closing)) = Live(sv)
         /\ \A s \in Socket : CloseRooms(sv, closing).sockets[s].data
                                \in {sv.sockets[s].data, NoIdentity}
<1> DEFINE sw == CloseRooms(sv, closing)
<1>1. sv \in Server /\ NoCode \notin Code /\ NoSocket \notin Socket /\ NoPlayer \notin PlayerId
  BY SessionNullsAreNew DEF Sound
<1>2. /\ sw \in Server
      /\ sw.rooms = [c \in Code |-> IF c \in closing THEN NoRoom ELSE sv.rooms[c]]
      /\ sw.seats = [p \in PlayerId |-> IF sv.seats[p].roomCode \in closing
                                        THEN NoSeat ELSE sv.seats[p]]
      /\ sw.sessions = [p \in PlayerId |-> IF sv.sessions[p].roomCode \in closing
                                           THEN NoSession ELSE sv.sessions[p]]
      /\ sw.sockets = [s \in Socket |->
           IF sv.sockets[s].status = "live" /\ sv.sockets[s].joined \cap closing # {}
           THEN Expel(sv.sockets[s], closing) ELSE sv.sockets[s]]
      /\ OpenRooms(sw) = OpenRooms(sv) \ closing
  BY <1>1, CloseEffect
<1> HIDE DEF sw
<1>3. ASSUME NEW s \in Socket
      PROVE  /\ sw.sockets[s].status = sv.sockets[s].status
             /\ \/ sw.sockets[s] = sv.sockets[s] /\ (sv.sockets[s].status = "live" => sv.sockets[s].joined \cap closing = {})
                \/ /\ sw.sockets[s].data = NoIdentity
                   /\ ~sv.sockets[s].roamed => sw.sockets[s].joined = {}
                   /\ sv.sockets[s].joined \cap closing # {}
             /\ sw.sockets[s].roamed = sv.sockets[s].roamed
  <2>1. /\ sv.sockets[s] \in SocketEntry
        /\ ~sv.sockets[s].roamed => sv.sockets[s].joined \subseteq {sv.sockets[s].data.roomCode}
    BY <1>1 DEF Server, Sound, IdentityFits
  <2>2. CASE sv.sockets[s].status = "live" /\ sv.sockets[s].joined \cap closing # {}
    <3>1. sw.sockets[s] = Expel(sv.sockets[s], closing)
      BY <1>2, <2>2
    <3>2. ~sv.sockets[s].roamed => sv.sockets[s].joined \ closing = {}
      BY <2>1, <2>2
    <3>3. /\ Expel(sv.sockets[s], closing).data = NoIdentity
          /\ Expel(sv.sockets[s], closing).joined = sv.sockets[s].joined \ closing
          /\ Expel(sv.sockets[s], closing).status = sv.sockets[s].status
          /\ Expel(sv.sockets[s], closing).roamed = sv.sockets[s].roamed
      BY <2>1 DEF Expel, SocketEntry
    <3> QED BY <2>2, <3>1, <3>2, <3>3
  <2>3. CASE ~(sv.sockets[s].status = "live" /\ sv.sockets[s].joined \cap closing # {})
    BY <1>2, <2>3
  <2> QED BY <2>2, <2>3
<1>4. ASSUME NEW s \in Socket PROVE IdentityFits(sw, s)
  <2>1. ASSUME NEW p \in PlayerId PROVE sw.seats[p].roomCode \in {NoCode, sv.seats[p].roomCode}
    BY SMTT(60), <1>2 DEF NoSeat
  <2>2. NoIdentity.role = "none" /\ {} \subseteq {NoIdentity.roomCode}
    BY DEF NoIdentity
  <2>3. CASE sw.sockets[s] = sv.sockets[s]
    <3>1. IdentityFits(sv, s)
      BY DEF Sound
    <3> QED BY SMTT(60), <2>1, <2>3, <3>1 DEF IdentityFits
  <2>4. CASE sw.sockets[s].data = NoIdentity /\ (~sw.sockets[s].roamed => sw.sockets[s].joined = {})
    BY <2>2, <2>4 DEF IdentityFits
  <2> QED BY <1>3, <2>3, <2>4
<1>5. ASSUME NEW p \in PlayerId PROVE SeatFits(sw, p)
  <2>1. SeatFits(sv, p)
    BY DEF Sound
  <2>2. CASE sv.seats[p].roomCode \in closing
    <3>1. sw.seats[p] = NoSeat /\ sw.sessions[p] = NoSession
      BY <1>2, <2>1, <2>2 DEF SeatFits
    <3> QED BY <3>1 DEF SeatFits, NoSeat, NoSession
  <2>3. CASE sv.seats[p].roomCode \notin closing
    <3>1. sw.seats[p] = sv.seats[p] /\ sw.sessions[p] = sv.sessions[p]
      BY <1>2, <2>1, <2>3 DEF SeatFits
    <3>2. sv.seats[p] # NoSeat => sw.rooms[sv.seats[p].roomCode].open
      BY <1>1, <1>2, <2>1, <2>3 DEF SeatFits, Server, Seat
    <3>4. ASSUME sv.seats[p].presence = "online"
          PROVE  sv.seats[p].socketId \in Socket
      BY SMTT(60), <1>1, <2>1, <3>4 DEF SeatFits, Server, Seat, NoSeat
    <3>3. ASSUME sv.seats[p].presence = "online", ~sv.sockets[sv.seats[p].socketId].roamed
          PROVE  sw.sockets[sv.seats[p].socketId] = sv.sockets[sv.seats[p].socketId]
      <4>1. sv.seats[p].socketId \in Socket
        BY <3>3, <3>4
      <4>2. sv.sockets[sv.seats[p].socketId].joined \subseteq {sv.seats[p].roomCode}
        BY ZenonT(60), <2>1, <3>3, <4>1 DEF Sound, IdentityFits, SeatFits
      <4> QED BY <1>3, <2>3, <4>1, <4>2
    <3>5. sv.seats[p].presence = "online" =>
            sw.sockets[sv.seats[p].socketId].roamed = sv.sockets[sv.seats[p].socketId].roamed
      BY <1>3, <3>4
    <3> QED BY <2>1, <3>1, <3>2, <3>3, <3>5 DEF SeatFits
  <2> QED BY <2>2, <2>3
<1>6. ASSUME NEW c \in Code PROVE HostFits(sw, c)
  <2>1. CASE c \in closing
    BY SMTT(90), <1>2, <2>1 DEF HostFits, NoRoom
  <2>2. CASE c \notin closing
    <3>1. sw.rooms[c] = sv.rooms[c] /\ HostFits(sv, c)
      BY <1>2, <2>2 DEF Sound
    <3>2. sv.rooms[c].hostSocketId # NoSocket => sv.rooms[c].hostSocketId \in Socket
      BY <1>1, HostSocketType
    <3>3. ASSUME NEW s \in Socket, sv.sockets[s].data.roomCode = c, ~sv.sockets[s].roamed
          PROVE  sw.sockets[s] = sv.sockets[s]
      BY <1>3, <2>2, <3>3 DEF Sound, IdentityFits
    <3>4. \A s \in Socket : sw.sockets[s].roamed = sv.sockets[s].roamed
      BY <1>3
    <3> QED BY <3>1, <3>2, <3>3, <3>4 DEF HostFits
  <2> QED BY SMTT(60), <2>1, <2>2
<1>7. DevicesApart(sw)
  <2>1. SUFFICES ASSUME NEW p \in PlayerId, NEW q \in PlayerId, sw.seats[p] # NoSeat,
                        sw.seats[p].roomCode = sw.seats[q].roomCode,
                        sw.seats[p].deviceId = sw.seats[q].deviceId
                 PROVE  p = q
    BY DEF DevicesApart
  <2>2. sw.seats[p] = sv.seats[p] /\ sv.seats[p].roomCode \in Code
    BY <1>1, <1>2, <2>1 DEF Server, Seat
  <2>3. sw.seats[q] = sv.seats[q]
    BY <1>1, <1>2, <2>1, <2>2 DEF NoSeat
  <2>4. sv.seats[p] # NoSeat
    BY <2>1, <2>2
  <2>5. DevicesApart(sv)
    BY DEF Sound
  <2> QED BY <2>1, <2>2, <2>3, <2>4, <2>5 DEF DevicesApart
<1>8. Cardinality(OpenRooms(sw)) <= MaxRooms
  <2>1. IsFiniteSet(OpenRooms(sv))
    BY FS_Subset DEF SessionConstants, OpenRooms
  <2>2. Cardinality(OpenRooms(sw)) <= Cardinality(OpenRooms(sv)) /\ IsFiniteSet(OpenRooms(sw))
    BY <1>2, <2>1, FS_Subset
  <2>3. Cardinality(OpenRooms(sw)) \in Nat /\ Cardinality(OpenRooms(sv)) \in Nat
    BY <2>1, <2>2, FS_CardinalityType
  <2> QED BY <2>2, <2>3, CleanupFits DEF Sound
<1>9. Live(sw) = Live(sv)
  BY <1>3 DEF Live
<1>10. \A s \in Socket : sw.sockets[s].data \in {sv.sockets[s].data, NoIdentity}
  BY <1>3
<1> QED BY <1>2, <1>4, <1>5, <1>6, <1>7, <1>8, <1>9, <1>10 DEF Sound, sw

-----------------------------------------------------------------------------
(* Screens and their rooms.                                                *)

\* Nobody counts on the socket.
Quiet(sv, s) ==
  /\ \A p \in PlayerId : sv.seats[p].socketId # s
  /\ \A c \in Code : sv.rooms[c].hostSocketId # s

\* What a socket may hold when nobody counts on it.
EntryFits(sv, e) ==
  /\ e.data.role = "none" => e.data = NoIdentity
  /\ e.data.role = "host" => e.data.roomCode \in Code /\ e.data.playerId = NoPlayer
  /\ e.data.role = "controller" =>
       /\ e.data.roomCode \in Code /\ e.data.playerId \in PlayerId
       /\ sv.seats[e.data.playerId].roomCode \in {NoCode, e.data.roomCode}
  /\ ~e.roamed => e.joined \subseteq {e.data.roomCode}

\* Connecting, recovering, losing and ending a connection nobody counts on, or one that roamed.
LEMMA QuietSocket ==
  ASSUME NEW sv, Sound(sv), NEW s \in Socket, NEW e \in SocketEntry, EntryFits(sv, e),
         Quiet(sv, s) \/ e.roamed
  PROVE  Sound([sv EXCEPT !.sockets[s] = e])
<1> DEFINE sw == [sv EXCEPT !.sockets[s] = e]
<1>1. sv \in Server
  BY DEF Sound
<1>2. /\ sw \in Server /\ sw.rooms = sv.rooms /\ sw.seats = sv.seats /\ sw.sessions = sv.sessions
      /\ sw.sockets = [sv.sockets EXCEPT ![s] = e]
  BY <1>1 DEF Server
<1> HIDE DEF sw
<1>3. sw.sockets[s] = e /\ \A t \in Socket \ {s} : sw.sockets[t] = sv.sockets[t]
  BY <1>1, <1>2 DEF Server
<1>4. ASSUME NEW t \in Socket PROVE IdentityFits(sw, t)
  <2>1. CASE t = s
    BY SMTT(60), <1>2, <1>3, <2>1 DEF IdentityFits, EntryFits
  <2>2. CASE t # s
    <3>1. IdentityFits(sv, t) /\ sw.sockets[t] = sv.sockets[t]
      BY <1>3, <2>2 DEF Sound
    <3> QED BY <1>2, <3>1 DEF IdentityFits
  <2> QED BY <2>1, <2>2
<1>5. ASSUME NEW p \in PlayerId PROVE SeatFits(sw, p)
  <2>1. SeatFits(sv, p) /\ (sv.seats[p].socketId # s \/ e.roamed)
    BY DEF Sound, Quiet
  <2>2. sv.seats[p].socketId \in Socket \cup {NoSocket}
    BY <1>1 DEF Server, Seat, NoSeat
  <2> QED BY SMTT(90), <1>2, <1>3, <2>1, <2>2 DEF SeatFits
<1>6. ASSUME NEW c \in Code PROVE HostFits(sw, c)
  <2>1. HostFits(sv, c) /\ (sv.rooms[c].hostSocketId # s \/ e.roamed)
    BY DEF Sound, Quiet
  <2>2. sv.rooms[c].hostSocketId \in Socket \cup {NoSocket}
    BY <1>1, HostSocketType
  <2> QED BY SMTT(90), <1>2, <1>3, <2>1, <2>2 DEF HostFits
<1>7. DevicesApart(sw)
  BY <1>2 DEF Sound, DevicesApart
<1>8. OpenRooms(sw) = OpenRooms(sv)
  BY <1>2 DEF OpenRooms
<1> QED BY <1>2, <1>4, <1>5, <1>6, <1>7, <1>8 DEF Sound, sw

\* A room is given a screen that knows that it hosts the room, or none.
LEMMA HostRoom ==
  ASSUME NEW sv, Sound(sv), NEW c \in OpenRooms(sv), NEW s \in Socket \cup {NoSocket},
         s # NoSocket => /\ sv.sockets[s].status = "live"
                         /\ sv.sockets[s].data.role = "host" /\ sv.sockets[s].data.roomCode = c
  PROVE  Sound([sv EXCEPT !.rooms[c].hostSocketId = s])
<1> DEFINE sw == [sv EXCEPT !.rooms[c].hostSocketId = s]
<1>1. sv \in Server /\ c \in Code /\ sv.rooms[c].open
  BY DEF Sound, OpenRooms
<1>2. sv.rooms[c] \in RoomEntry
  BY <1>1 DEF Server, NoRoom
<1>3. [sv.rooms[c] EXCEPT !.hostSocketId = s] \in RoomEntry
  BY <1>2 DEF RoomEntry
<1>4. /\ sw \in Server /\ sw.sockets = sv.sockets /\ sw.seats = sv.seats /\ sw.sessions = sv.sessions
      /\ sw.rooms = [sv.rooms EXCEPT ![c] = [sv.rooms[c] EXCEPT !.hostSocketId = s]]
  BY <1>1, <1>3 DEF Server
<1> HIDE DEF sw
<1>5. /\ sw.rooms[c].hostSocketId = s /\ sw.rooms[c].open
      /\ \A d \in Code \ {c} : sw.rooms[d] = sv.rooms[d]
  BY <1>1, <1>2, <1>4 DEF Server, RoomEntry
<1>6. \A d \in Code : sw.rooms[d].open = sv.rooms[d].open
  BY <1>1, <1>2, <1>5 DEF RoomEntry
<1>7. \A t \in Socket : IdentityFits(sw, t)
  BY <1>4 DEF Sound, IdentityFits
<1>8. ASSUME NEW p \in PlayerId PROVE SeatFits(sw, p)
  <2>1. SeatFits(sv, p)
    BY DEF Sound
  <2>2. sv.seats[p] # NoSeat => sv.seats[p].roomCode \in Code
    BY <1>1 DEF Server, Seat
  <2> QED BY SMTT(90), <1>4, <1>6, <2>1, <2>2 DEF SeatFits
<1>9. \A d \in Code : HostFits(sw, d)
  BY SMTT(90), <1>4, <1>5 DEF Sound, HostFits
<1>10. DevicesApart(sw)
  BY <1>4 DEF Sound, DevicesApart
<1>11. OpenRooms(sw) = OpenRooms(sv)
  BY SMTT(60), <1>6 DEF OpenRooms
<1> QED BY <1>4, <1>7, <1>8, <1>9, <1>10, <1>11 DEF Sound, sw

\* The screen may take a room over: it is nobody's phone.
MayAttach(sv, s) ==
  \/ sv.sockets[s].data.roomCode = NoCode
  \/ sv.sockets[s].data.role = "host"

\* What a screen does when it creates a room or takes it over, as one change.
HostEntry(sv, c, s) ==
  [sv.sockets[s] EXCEPT !.data = [@ EXCEPT !.role = "host", !.roomCode = c],
                        !.joined = @ \cup {c},
                        !.roamed = Roams(sv, s, c)]

\* What becomes of the tables: the room has the screen and the one before it is expelled.
Attached(sv, c, s, sw) ==
  /\ sw \in Server
  /\ sw.seats = sv.seats /\ sw.sessions = sv.sessions
  /\ \A t \in Socket : sw.sockets[t] =
       IF t = s THEN HostEntry(sv, c, s)
       ELSE IF t = sv.rooms[c].hostSocketId /\ t \in Live(sv)
            THEN Expel(sv.sockets[t], {c}) ELSE sv.sockets[t]
  /\ \A d \in Code : /\ sw.rooms[d].open = sv.rooms[d].open
                     /\ sw.rooms[d].hostSocketId = IF d = c THEN s ELSE sv.rooms[d].hostSocketId
                     /\ sw.rooms[d].expiresAt = sv.rooms[d].expiresAt

\* Attaching the host does just that.
LEMMA AttachEffect ==
  ASSUME NEW sv \in Server, NEW c \in OpenRooms(sv), NEW s \in Socket, NEW w \in Nat,
         NEW sw, sw = AttachHost(sv, c, s, w)
  PROVE  Attached(sv, c, s, sw)
<1> DEFINE previous == {sv.rooms[c].hostSocketId} \cap (Live(sv) \ {s})
           sockets == [t \in Socket |-> IF t \in previous THEN Expel(sv.sockets[t], {c})
                                        ELSE sv.sockets[t]]
           expelled == [sv EXCEPT !.sockets = sockets]
           touched == Touch(expelled, c, w)
           hosted == [touched EXCEPT !.rooms[c].hostSocketId = s]
<1>1. c \in Code /\ sv.rooms[c].open
  BY DEF OpenRooms
<1>2. sockets \in [Socket -> SocketEntry] /\ sockets[s] = sv.sockets[s]
  <2>1. NoIdentity \in Identity
    BY DEF NoIdentity, Identity
  <2>2. ASSUME NEW x \in SocketEntry PROVE Expel(x, {c}) \in SocketEntry
    BY <2>1 DEF Expel, SocketEntry
  <2> QED BY <2>2 DEF Server
<1>3. /\ expelled \in Server /\ expelled.rooms = sv.rooms /\ expelled.seats = sv.seats
      /\ expelled.sessions = sv.sessions /\ expelled.sockets = sockets
  <2> HIDE DEF sockets
  <2> QED BY <1>2 DEF Server
<1>4. /\ touched \in Server /\ touched.seats = sv.seats /\ touched.sessions = sv.sessions
      /\ touched.sockets = sockets
      /\ \A d \in Code : /\ touched.rooms[d].open = sv.rooms[d].open
                         /\ touched.rooms[d].hostSocketId = sv.rooms[d].hostSocketId
                         /\ touched.rooms[d].expiresAt = sv.rooms[d].expiresAt
  <2> HIDE DEF expelled, sockets
  <2> QED BY <1>1, <1>3, TouchEffect
<1>5. touched.rooms[c] \in RoomEntry
  <2>1. touched.rooms[c] \in RoomEntry \cup {NoRoom} /\ touched.rooms[c].open
    <3> HIDE DEF touched
    <3> QED BY SMTT(60), <1>1, <1>4 DEF Server
  <2> QED BY SMTT(60), <2>1 DEF NoRoom
<1>6. [touched.rooms[c] EXCEPT !.hostSocketId = s] \in RoomEntry
  BY <1>5 DEF RoomEntry
<1>7. /\ hosted \in Server /\ hosted.seats = sv.seats /\ hosted.sessions = sv.sessions
      /\ hosted.sockets = sockets
      /\ hosted.rooms = [touched.rooms EXCEPT ![c] = [touched.rooms[c] EXCEPT !.hostSocketId = s]]
  <2> HIDE DEF touched, sockets
  <2> QED BY <1>1, <1>4, <1>6 DEF Server
<1>8. sw = [hosted EXCEPT !.sockets[s].data = [sv.sockets[s].data EXCEPT !.role = "host", !.roomCode = c],
                          !.sockets[s].joined = @ \cup {c},
                          !.sockets[s].roamed = Roams(sv, s, c)]
  <2>1. expelled.sockets[s].data = sv.sockets[s].data
    BY <1>2, <1>3
  <2>2. sw = Identify(hosted, s, [expelled.sockets[s].data EXCEPT !.role = "host", !.roomCode = c])
    BY DEF AttachHost
  <2>3. [expelled.sockets[s].data EXCEPT !.role = "host", !.roomCode = c]
          = [sv.sockets[s].data EXCEPT !.role = "host", !.roomCode = c]
    BY <2>1
  <2>4. [sv.sockets[s].data EXCEPT !.role = "host", !.roomCode = c].roomCode = c
    BY <1>2 DEF SocketEntry, Identity, Server
  <2>5. Roams(hosted, s, c) = Roams(sv, s, c)
    BY <1>2, <1>7 DEF Roams
  <2> HIDE DEF hosted, expelled
  <2> QED BY <2>2, <2>3, <2>4, <2>5 DEF Identify
<1>9. HostEntry(sv, c, s) \in SocketEntry
  <2>1. sv.sockets[s] \in SocketEntry
    BY DEF Server
  <2>2. [sv.sockets[s].data EXCEPT !.role = "host", !.roomCode = c] \in Identity
    BY <1>1, <2>1 DEF SocketEntry, Identity
  <2>3. Roams(sv, s, c) \in BOOLEAN
    BY <2>1 DEF Roams, SocketEntry
  <2> QED BY <1>1, <2>1, <2>2, <2>3 DEF HostEntry, SocketEntry
<1>10. /\ sw.seats = hosted.seats /\ sw.sessions = hosted.sessions /\ sw.rooms = hosted.rooms
       /\ sw.sockets = [sockets EXCEPT ![s] = HostEntry(sv, c, s)]
  <2> HIDE DEF hosted, sockets
  <2>1. sv.sockets[s] = hosted.sockets[s] /\ hosted \in Server /\ hosted.sockets = sockets
    BY <1>2, <1>7
  <2>2. HostEntry(sv, c, s) =
          [hosted.sockets[s] EXCEPT !.data = [sv.sockets[s].data EXCEPT !.role = "host", !.roomCode = c],
                                    !.joined = @ \cup {c},
                                    !.roamed = Roams(sv, s, c)]
    BY <2>1 DEF HostEntry
  <2>3. sw = [hosted EXCEPT !.sockets[s] = HostEntry(sv, c, s)]
    BY ZenonT(60), <1>8, <2>1, <2>2 DEF Server, SocketEntry
  <2> QED BY <2>1, <2>3 DEF Server
<1>11. sw \in Server
  <2>1. sw.sockets \in [Socket -> SocketEntry]
    <3> HIDE DEF sockets
    <3> QED BY SMTT(60), <1>2, <1>9, <1>10
  <2>2. sw = [rooms |-> sw.rooms, seats |-> sw.seats, sessions |-> sw.sessions, sockets |-> sw.sockets]
    <3> HIDE DEF hosted
    <3> QED BY ZenonT(60), <1>7, <1>8 DEF Server
  <2> HIDE DEF hosted
  <2> QED BY <1>7, <1>10, <2>1, <2>2 DEF Server
<1>12. \A d \in Code : /\ sw.rooms[d].open = sv.rooms[d].open
                       /\ sw.rooms[d].hostSocketId = IF d = c THEN s ELSE sv.rooms[d].hostSocketId
                       /\ sw.rooms[d].expiresAt = sv.rooms[d].expiresAt
  <2> HIDE DEF hosted, touched
  <2> QED BY SMTT(60), <1>1, <1>4, <1>5, <1>7, <1>10 DEF RoomEntry, Server
<1>13. \A t \in Socket : sw.sockets[t] =
          IF t = s THEN HostEntry(sv, c, s)
          ELSE IF t = sv.rooms[c].hostSocketId /\ t \in Live(sv)
               THEN Expel(sv.sockets[t], {c}) ELSE sv.sockets[t]
  <2> QED BY <1>10
<1> QED BY <1>7, <1>10, <1>11, <1>12, <1>13 DEF Attached

\* A screen takes over a room, whoever hosted it and whatever it hosted before.
LEMMA AttachSound ==
  ASSUME NEW sv, Sound(sv), NEW c \in OpenRooms(sv), NEW s \in Live(sv), NEW w \in Nat,
         MayAttach(sv, s)
  PROVE  Sound(AttachHost(sv, c, s, w))
<1> DEFINE sw == AttachHost(sv, c, s, w)
           t == sv.rooms[c].hostSocketId
           cleared == [sv EXCEPT !.rooms[c].hostSocketId = NoSocket]
           expelled == IF t \in Live(sv) /\ t # s
                       THEN [cleared EXCEPT !.sockets[t] = Expel(sv.sockets[t], {c})] ELSE cleared
           known == [expelled EXCEPT !.sockets[s] = HostEntry(sv, c, s)]
           hosted == [known EXCEPT !.rooms[c].hostSocketId = s]
<1>1. /\ sv \in Server /\ c \in Code /\ sv.rooms[c].open /\ s \in Socket /\ s # NoSocket
      /\ NoCode \notin Code /\ sv.sockets[s].status = "live"
  BY SessionNullsAreNew DEF Sound, OpenRooms, Live
<1>2. /\ Sound(cleared) /\ cleared \in Server /\ OpenRooms(cleared) = OpenRooms(sv)
      /\ cleared.sockets = sv.sockets /\ cleared.seats = sv.seats /\ cleared.sessions = sv.sessions
      /\ \A d \in Code : /\ cleared.rooms[d].open = sv.rooms[d].open
                         /\ cleared.rooms[d].hostSocketId =
                              IF d = c THEN NoSocket ELSE sv.rooms[d].hostSocketId
  <2>1. Sound(cleared)
    BY HostRoom
  <2>2. sv.rooms[c] \in RoomEntry
    BY <1>1 DEF Server, NoRoom
  <2>3. \A d \in Code : /\ cleared.rooms[d].open = sv.rooms[d].open
                        /\ cleared.rooms[d].hostSocketId =
                             IF d = c THEN NoSocket ELSE sv.rooms[d].hostSocketId
    BY <1>1, <2>2 DEF Server, RoomEntry
  <2>4. cleared.sockets = sv.sockets /\ cleared.seats = sv.seats /\ cleared.sessions = sv.sessions
    BY <1>1 DEF Server
  <2>5. OpenRooms(cleared) = OpenRooms(sv)
    BY <2>3 DEF OpenRooms
  <2> HIDE DEF cleared
  <2> QED BY <2>1, <2>3, <2>4, <2>5 DEF Sound
<1>3. /\ Sound(expelled) /\ expelled \in Server
      /\ expelled.rooms = cleared.rooms /\ expelled.seats = sv.seats /\ expelled.sessions = sv.sessions
      /\ expelled.sockets = [u \in Socket |-> IF u = t /\ t \in Live(sv) /\ t # s
                                              THEN Expel(sv.sockets[u], {c}) ELSE sv.sockets[u]]
  <2>1. CASE t \in Live(sv) /\ t # s
    <3> DEFINE e == Expel(sv.sockets[t], {c})
    <3>1. /\ t \in Socket /\ t # NoSocket /\ sv.sockets[t] \in SocketEntry
          /\ ~sv.sockets[t].roamed =>
               /\ sv.sockets[t].data.role = "host"
               /\ sv.sockets[t].data.roomCode = c /\ sv.sockets[t].joined \subseteq {c}
      <4>1. t \in Socket /\ t # NoSocket /\ HostFits(sv, c) /\ sv.sockets[t] \in SocketEntry
        BY <1>1, <2>1, SessionNullsAreNew DEF Sound, Live, Server
      <4>2. IdentityFits(sv, t)
        BY SMTT(60), <4>1 DEF Sound
      <4> QED BY <4>1, <4>2 DEF HostFits, IdentityFits
    <3>2. /\ e \in SocketEntry /\ e.data = NoIdentity /\ e.roamed = sv.sockets[t].roamed
          /\ ~e.roamed => e.joined = {}
      BY <3>1 DEF Expel, SocketEntry, NoIdentity, Identity
    <3>3. EntryFits(cleared, e)
      <4> HIDE DEF e
      <4> QED BY <3>2 DEF EntryFits, NoIdentity
    <3>4. Quiet(cleared, t) \/ e.roamed
      <4> SUFFICES ASSUME ~sv.sockets[t].roamed PROVE Quiet(cleared, t)
        BY <3>2
      <4> HIDE DEF cleared, e, t
      <4>1. ASSUME NEW p \in PlayerId, sv.seats[p].socketId = t PROVE FALSE
        <5>1. SeatFits(sv, p)
          BY DEF Sound
        <5> QED BY SMTT(90), <3>1, <4>1, <5>1 DEF SeatFits
      <4>2. ASSUME NEW d \in Code, cleared.rooms[d].hostSocketId = t PROVE FALSE
        <5>1. HostFits(sv, d)
          BY DEF Sound
        <5>2. d # c /\ sv.rooms[d].hostSocketId = t
          BY <1>2, <3>1, <4>2
        <5> QED BY <3>1, <5>1, <5>2 DEF HostFits
      <4> QED BY <1>2, <4>1, <4>2 DEF Quiet
    <3>5. Sound([cleared EXCEPT !.sockets[t] = e])
      <4> HIDE DEF cleared, e, t
      <4> QED BY <1>2, <3>1, <3>2, <3>3, <3>4, QuietSocket
    <3>6. expelled = [cleared EXCEPT !.sockets[t] = e]
      BY <2>1
    <3> HIDE DEF cleared, expelled, e, t
    <3>7. /\ expelled.rooms = cleared.rooms /\ expelled.seats = sv.seats
          /\ expelled.sessions = sv.sessions /\ expelled.sockets = [sv.sockets EXCEPT ![t] = e]
      BY <1>2, <3>6 DEF Server
    <3>8. expelled.sockets = [u \in Socket |-> IF u = t /\ t \in Live(sv) /\ t # s
                                               THEN Expel(sv.sockets[u], {c}) ELSE sv.sockets[u]]
      BY <1>1, <2>1, <3>7 DEF Server, e
    <3> QED BY SMTT(60), <3>5, <3>6, <3>7, <3>8 DEF Sound
  <2>2. CASE ~(t \in Live(sv) /\ t # s)
    <3>1. expelled = cleared
      BY <2>2
    <3> HIDE DEF cleared, expelled, t
    <3>2. sv.sockets = [u \in Socket |-> IF u = t /\ t \in Live(sv) /\ t # s
                                         THEN Expel(sv.sockets[u], {c}) ELSE sv.sockets[u]]
      BY <1>1, <2>2 DEF Server
    <3> QED BY <1>2, <2>2, <3>1, <3>2
  <2> QED BY SMTT(60), <2>1, <2>2
<1> HIDE DEF cleared, expelled
<1>4. sv.sockets[s] \in SocketEntry /\ IdentityFits(sv, s) /\ expelled.sockets[s] = sv.sockets[s]
  BY <1>1, <1>3 DEF Sound, Server
<1>5. /\ HostEntry(sv, c, s) \in SocketEntry /\ EntryFits(expelled, HostEntry(sv, c, s))
      /\ HostEntry(sv, c, s).status = "live" /\ HostEntry(sv, c, s).data.role = "host"
      /\ HostEntry(sv, c, s).data.roomCode = c
  <2> DEFINE d == [sv.sockets[s].data EXCEPT !.role = "host", !.roomCode = c]
             b == Roams(sv, s, c)
             j == sv.sockets[s].joined \cup {c}
  <2>1. /\ sv.sockets[s].data \in Identity /\ b \in BOOLEAN /\ j \in SUBSET Code
        /\ sv.sockets[s].data.playerId = NoPlayer
    BY <1>1, <1>4 DEF SocketEntry, MayAttach, IdentityFits, NoIdentity, Identity, Roams
  <2>4. ~b => j = {c}
    <3>1. sv.sockets[s].joined \subseteq Code
      BY <1>4 DEF SocketEntry
    <3> QED BY <1>1, <1>4, <3>1 DEF IdentityFits, Roams
  <2>2. d \in Identity /\ d.role = "host" /\ d.roomCode = c /\ d.playerId = NoPlayer
    BY <1>1, <2>1 DEF Identity
  <2>3. HostEntry(sv, c, s) = [status |-> "live", data |-> d, joined |-> j, roamed |-> b]
    <3> HIDE DEF d, b, j
    <3>1. HostEntry(sv, c, s) = [sv.sockets[s] EXCEPT !.data = d, !.joined = j, !.roamed = b]
      BY DEF HostEntry, d, b, j
    <3> QED BY <1>1, <1>4, <3>1 DEF SocketEntry
  <2> HIDE DEF d, b, j
  <2>5. HostEntry(sv, c, s) \in SocketEntry
    BY <2>1, <2>2, <2>3 DEF SocketEntry
  <2> QED BY <1>1, <2>2, <2>3, <2>4, <2>5 DEF EntryFits
<1>6. Quiet(expelled, s) \/ HostEntry(sv, c, s).roamed
  <2> SUFFICES ASSUME ~Roams(sv, s, c) PROVE Quiet(expelled, s)
    BY <1>4 DEF HostEntry, SocketEntry
  <2> USE DEF Roams
  <2>1. ASSUME NEW p \in PlayerId, sv.seats[p].socketId = s PROVE FALSE
    <3>1. SeatFits(sv, p) /\ sv.seats[p] # NoSeat
      BY <1>1, <2>1 DEF Sound, NoSeat
    <3>2. sv.seats[p].roomCode \in Code
      BY <1>1, <3>1 DEF Server, Seat
    <3> QED BY <1>1, <2>1, <3>1, <3>2 DEF SeatFits, MayAttach
  <2>2. ASSUME NEW d \in Code, expelled.rooms[d].hostSocketId = s PROVE FALSE
    <3>1. d # c /\ sv.rooms[d].hostSocketId = s
      BY SMTT(60), <1>1, <1>2, <1>3, <2>2
    <3>2. HostFits(sv, d)
      BY SMTT(60) DEF Sound
    <3> QED BY <1>1, <3>1, <3>2 DEF HostFits, MayAttach
  <2> QED BY <1>3, <2>1, <2>2 DEF Quiet
<1>7. /\ Sound(known) /\ known \in Server /\ known.rooms = cleared.rooms
      /\ known.seats = sv.seats /\ known.sessions = sv.sessions
      /\ known.sockets = [expelled.sockets EXCEPT ![s] = HostEntry(sv, c, s)]
  <2>1. Sound(known)
    BY <1>1, <1>3, <1>5, <1>6, QuietSocket
  <2> QED BY <1>3, <2>1 DEF Sound, Server
<1> HIDE DEF known
<1>8. known.sockets[s] = HostEntry(sv, c, s) /\ c \in OpenRooms(known)
  BY <1>1, <1>2, <1>3, <1>7 DEF Server, OpenRooms
<1>9. Sound(hosted)
  BY ZenonT(60), <1>1, <1>5, <1>7, <1>8, HostRoom
<1>10. /\ hosted.seats = sv.seats /\ hosted.sessions = sv.sessions /\ hosted.sockets = known.sockets
       /\ \A d \in Code : /\ hosted.rooms[d].open = sv.rooms[d].open
                          /\ hosted.rooms[d].hostSocketId = IF d = c THEN s ELSE sv.rooms[d].hostSocketId
  <2>1. known.rooms[c] \in RoomEntry
    BY <1>7, <1>8 DEF Server, NoRoom, OpenRooms
  <2> QED BY <1>1, <1>2, <1>7, <2>1 DEF Server, RoomEntry
<1> HIDE DEF hosted, sw
<1>11. /\ sw \in Server /\ sw.seats = sv.seats /\ sw.sessions = sv.sessions
       /\ \A d \in Code : /\ sw.rooms[d].open = sv.rooms[d].open
                          /\ sw.rooms[d].hostSocketId = IF d = c THEN s ELSE sv.rooms[d].hostSocketId
       /\ \A u \in Socket : sw.sockets[u] =
            IF u = s THEN HostEntry(sv, c, s)
            ELSE IF u = t /\ u \in Live(sv) THEN Expel(sv.sockets[u], {c}) ELSE sv.sockets[u]
  <2>1. sw = AttachHost(sv, c, s, w)
    BY DEF sw
  <2>2. Attached(sv, c, s, sw)
    BY <1>1, <2>1, AttachEffect
  <2> QED BY <2>2 DEF Attached
<1>12. sw.sockets = hosted.sockets
  <2> HIDE DEF t
  <2>1. \A u \in Socket : hosted.sockets[u] =
            IF u = s THEN HostEntry(sv, c, s)
            ELSE IF u = t /\ u \in Live(sv) THEN Expel(sv.sockets[u], {c}) ELSE sv.sockets[u]
    <3>1. \A u \in Socket : expelled.sockets[u] =
            IF u = t /\ t \in Live(sv) /\ t # s THEN Expel(sv.sockets[u], {c}) ELSE sv.sockets[u]
      BY <1>3
    <3>2. \A u \in Socket : known.sockets[u] =
            IF u = s THEN HostEntry(sv, c, s) ELSE expelled.sockets[u]
      BY <1>3, <1>7 DEF Server
    <3> QED BY <1>1, <1>10, <3>1, <3>2
  <2>2. hosted.sockets \in [Socket -> SocketEntry] /\ sw.sockets \in [Socket -> SocketEntry]
    <3>1. hosted.sockets = known.sockets /\ known \in Server /\ sw \in Server
      BY <1>7, <1>10, <1>11
    <3> QED BY <3>1 DEF Server
  <2>3. \A u \in Socket : sw.sockets[u] = hosted.sockets[u]
    BY <1>11, <2>1
  <2> QED BY <2>2, <2>3
<1> HIDE DEF t
<1>13. Sound(sw)
  BY <1>9, <1>10, <1>11, <1>12, SameEssence
<1> QED BY <1>13 DEF sw

\* A new room, as long as there is space for one.
LEMMA CreateSound ==
  ASSUME NEW sv, Sound(sv), NEW c \in Code \ OpenRooms(sv), NEW w \in Nat,
         HasSpace(sv), SessionConstants,
         NEW sw, sw = CreateRoom(sv, c, w)
  PROVE  /\ Sound(sw) /\ c \in OpenRooms(sw) /\ OpenRooms(sv) \subseteq OpenRooms(sw)
         /\ sw.sockets = sv.sockets /\ sw.seats = sv.seats
<1> DEFINE e == [open |-> TRUE, hostSocketId |-> NoSocket,
                 expiresAt |-> IF LifetimeMs > 0 THEN w + LifetimeMs ELSE NoTime,
                 lastActivityAt |-> w]
<1>1. sv \in Server /\ ~sv.rooms[c].open /\ LifetimeMs \in Nat
  BY CleanupFits DEF Sound, OpenRooms
<1>2. e \in RoomEntry
  <2>1. (IF LifetimeMs > 0 THEN w + LifetimeMs ELSE NoTime) \in Nat \cup {NoTime}
    BY <1>1
  <2> QED BY <2>1 DEF RoomEntry
<1>3. e.open /\ e.hostSocketId = NoSocket
  OBVIOUS
<1>4. sw = [sv EXCEPT !.rooms[c] = e]
  BY DEF CreateRoom
<1> HIDE DEF e
<1>5. /\ sw \in Server /\ sw.seats = sv.seats /\ sw.sessions = sv.sessions /\ sw.sockets = sv.sockets
      /\ sw.rooms[c] = e /\ \A d \in Code \ {c} : sw.rooms[d] = sv.rooms[d]
  BY <1>1, <1>2, <1>4 DEF Server
<1>6. OpenRooms(sw) = OpenRooms(sv) \cup {c}
  BY <1>3, <1>5 DEF OpenRooms
<1>7. \A s \in Socket : IdentityFits(sw, s)
  BY <1>5 DEF Sound, IdentityFits
<1>8. ASSUME NEW p \in PlayerId PROVE SeatFits(sw, p)
  <2>1. SeatFits(sv, p)
    BY DEF Sound
  <2>2. sv.seats[p] # NoSeat => sv.seats[p].roomCode \in Code
    BY <1>1 DEF Server, Seat
  <2>3. \A d \in Code : sv.rooms[d].open => sw.rooms[d].open
    BY <1>1, <1>5
  <2> QED BY <1>5, <2>1, <2>2, <2>3 DEF SeatFits
<1>9. \A d \in Code : HostFits(sw, d)
  BY SMTT(90), <1>3, <1>5 DEF Sound, HostFits
<1>10. DevicesApart(sw)
  BY <1>5 DEF Sound, DevicesApart
<1>11. Cardinality(OpenRooms(sw)) <= MaxRooms
  <2>1. IsFiniteSet(OpenRooms(sv))
    BY FS_Subset DEF SessionConstants, OpenRooms
  <2>2. Cardinality(OpenRooms(sw)) = Cardinality(OpenRooms(sv)) + 1
    BY <1>6, <2>1, FS_AddElement
  <2>3. Cardinality(OpenRooms(sv)) \in Nat
    BY <2>1, FS_CardinalityType
  <2> QED BY <2>2, <2>3, CleanupFits DEF HasSpace
<1> QED BY <1>5, <1>6, <1>7, <1>8, <1>9, <1>10, <1>11 DEF Sound

\* A longer lifetime changes nothing that Sound speaks of.
LEMMA ExtendSound ==
  ASSUME NEW sv, Sound(sv), NEW c \in OpenRooms(sv), NEW w \in Nat, sv.rooms[c].expiresAt # NoTime
  PROVE  Sound(ExtendRoomLifetime(sv, c, w))
<1> DEFINE t == Touch(sv, c, w)
           sw == [t EXCEPT !.rooms[c].expiresAt = @ + LifetimeMs]
<1>1. sv \in Server /\ c \in Code /\ sv.rooms[c].open /\ LifetimeMs \in Nat
  BY CleanupFits DEF Sound, OpenRooms
<1>2. /\ t \in Server /\ t.seats = sv.seats /\ t.sessions = sv.sessions /\ t.sockets = sv.sockets
      /\ \A d \in Code : /\ t.rooms[d].open = sv.rooms[d].open
                         /\ t.rooms[d].hostSocketId = sv.rooms[d].hostSocketId
                         /\ t.rooms[d].expiresAt = sv.rooms[d].expiresAt
  BY <1>1, TouchEffect
<1> HIDE DEF t
<1>3. t.rooms[c] \in RoomEntry /\ t.rooms[c].expiresAt \in Nat
  <2>1. t.rooms[c] \in RoomEntry \cup {NoRoom} /\ t.rooms[c].open
    BY <1>1, <1>2 DEF Server
  <2>2. t.rooms[c] \in RoomEntry
    BY <2>1 DEF NoRoom
  <2> QED BY <1>1, <1>2, <2>2 DEF RoomEntry
<1>4. [t.rooms[c] EXCEPT !.expiresAt = @ + LifetimeMs] \in RoomEntry
  <2> DEFINE v == t.rooms[c].expiresAt + LifetimeMs
  <2>1. v \in Nat /\ [t.rooms[c] EXCEPT !.expiresAt = @ + LifetimeMs] = [t.rooms[c] EXCEPT !.expiresAt = v]
    BY <1>1, <1>3
  <2> HIDE DEF v
  <2> QED BY <1>3, <2>1 DEF RoomEntry
<1>5. /\ sw \in Server /\ sw.seats = t.seats /\ sw.sessions = t.sessions /\ sw.sockets = t.sockets
      /\ sw.rooms = [t.rooms EXCEPT ![c] = [t.rooms[c] EXCEPT !.expiresAt = @ + LifetimeMs]]
  BY <1>1, <1>2, <1>4 DEF Server
<1> HIDE DEF sw
<1>6. \A d \in Code : /\ sw.rooms[d].open = sv.rooms[d].open
                      /\ sw.rooms[d].hostSocketId = sv.rooms[d].hostSocketId
  BY <1>1, <1>2, <1>3, <1>5 DEF Server, RoomEntry
<1>7. /\ sw \in Server /\ sw.seats = sv.seats /\ sw.sessions = sv.sessions
      /\ sw.sockets = sv.sockets
  BY <1>2, <1>5
<1>8. Sound(sw)
  BY <1>6, <1>7, SameEssence
<1> QED BY <1>8 DEF sw, t, ExtendRoomLifetime

-----------------------------------------------------------------------------
(* Players.                                                                *)

\* The identity of a phone.
PlayerIdentity(p, c) == [role |-> "controller", roomCode |-> c, playerId |-> p]

\* The socket may become this player's: it is nobody else's and no screen unless it roams, and
\* every socket that names the player names the room, in which the device is the player's own.
MaySit(sv, p, c, d, s) ==
  /\ \A q \in PlayerId \ {p} : ~(sv.seats[q].roomCode = c /\ sv.seats[q].deviceId = d)
  /\ \A t \in Socket : sv.sockets[t].data.playerId = p => sv.sockets[t].data.roomCode = c
  /\ ~Roams(sv, s, c) => /\ \A q \in PlayerId \ {p} : sv.seats[q].socketId # s
                         /\ \A x \in Code : sv.rooms[x].hostSocketId # s

\* The tables with the player on that socket.
SitDown(sv, p, c, d, s) ==
  [sv EXCEPT !.seats[p]    = Seated(c, d, s),
             !.sessions[p] = [roomCode |-> c, deviceId |-> d, socketId |-> s],
             !.sockets[s].data = PlayerIdentity(p, c),
             !.sockets[s].joined = @ \cup {c},
             !.sockets[s].roamed = Roams(sv, s, c)]

\* A player sits down on a socket, for the first time or again: joining and resuming.
LEMMA SitSound ==
  ASSUME NEW sv, Sound(sv), NEW p \in PlayerId, NEW c \in OpenRooms(sv), NEW d \in Device,
         NEW s \in Live(sv), MaySit(sv, p, c, d, s), NEW sw, sw = SitDown(sv, p, c, d, s)
  PROVE  /\ Sound(sw) /\ sw.rooms = sv.rooms /\ sw.seats[p].presence = "online"
         /\ \A q \in PlayerId \ {p} : sw.seats[q] = sv.seats[q]
<1> DEFINE seat == Seated(c, d, s)
           session == [roomCode |-> c, deviceId |-> d, socketId |-> s]
           entry == [sv.sockets[s] EXCEPT !.data = PlayerIdentity(p, c), !.joined = @ \cup {c},
                                          !.roamed = Roams(sv, s, c)]
<1>1. /\ sv \in Server /\ c \in Code /\ sv.rooms[c].open /\ s \in Socket /\ s # NoSocket
      /\ sv.sockets[s] \in SocketEntry /\ sv.sockets[s].status = "live" /\ NoCode \notin Code
      /\ NoTime \notin Int
  BY SessionNullsAreNew DEF Sound, OpenRooms, Live, Server
<1>2. /\ seat \in Seat /\ seat.roomCode = c /\ seat.deviceId = d /\ seat.socketId = s
      /\ seat.presence = "online" /\ seat.graceEndsAt = NoTime /\ seat # NoSeat
  BY <1>1 DEF Seated, Seat, NoSeat
<1>3. session \in Session /\ session.roomCode = c /\ session.deviceId = d
  BY <1>1 DEF Session
<1>4. /\ entry \in SocketEntry /\ entry.status = "live" /\ entry.data = PlayerIdentity(p, c)
      /\ entry.roamed = Roams(sv, s, c) /\ c \in entry.joined
      /\ ~entry.roamed => entry.joined = {c}
  <2> DEFINE joined == sv.sockets[s].joined \cup {c}
             roams == Roams(sv, s, c)
  <2>1. /\ PlayerIdentity(p, c) \in Identity /\ joined \in SUBSET Code /\ c \in joined
        /\ roams \in BOOLEAN
    BY <1>1 DEF PlayerIdentity, Identity, SocketEntry, Roams
  <2>2. ~roams => joined = {c}
    <3>1. IdentityFits(sv, s) /\ sv.sockets[s].joined \subseteq Code
      BY <1>1 DEF Sound, SocketEntry
    <3> QED BY <1>1, <3>1 DEF IdentityFits, Roams
  <2>3. entry = [status |-> "live", data |-> PlayerIdentity(p, c), joined |-> joined,
                 roamed |-> roams]
    <3>1. entry = [sv.sockets[s] EXCEPT !.data = PlayerIdentity(p, c), !.joined = joined,
                                        !.roamed = roams]
      OBVIOUS
    <3> HIDE DEF entry, joined, roams
    <3> QED BY <1>1, <3>1 DEF SocketEntry
  <2> HIDE DEF entry, joined
  <2> QED BY <1>1, <2>1, <2>2, <2>3 DEF SocketEntry
<1>5. sw = [sv EXCEPT !.seats[p] = seat, !.sessions[p] = session, !.sockets[s] = entry]
  BY ZenonT(60), <1>1 DEF SitDown, Server, SocketEntry
<1> HIDE DEF seat, session, entry
<1>6. /\ sw \in Server /\ sw.rooms = sv.rooms
      /\ sw.seats = [sv.seats EXCEPT ![p] = seat]
      /\ sw.sessions = [sv.sessions EXCEPT ![p] = session]
      /\ sw.sockets = [sv.sockets EXCEPT ![s] = entry]
  <2>1. /\ sw.rooms = sv.rooms
        /\ sw.seats = [sv.seats EXCEPT ![p] = seat]
        /\ sw.sessions = [sv.sessions EXCEPT ![p] = session]
        /\ sw.sockets = [sv.sockets EXCEPT ![s] = entry]
        /\ sw = [rooms |-> sw.rooms, seats |-> sw.seats, sessions |-> sw.sessions,
                 sockets |-> sw.sockets]
    BY <1>1, <1>5 DEF Server
  <2>2. /\ sw.seats \in [PlayerId -> Seat \cup {NoSeat}]
        /\ sw.sessions \in [PlayerId -> Session \cup {NoSession}]
        /\ sw.sockets \in [Socket -> SocketEntry]
    BY <1>1, <1>2, <1>3, <1>4, <2>1 DEF Server
  <2> QED BY <1>1, <2>1, <2>2 DEF Server
<1>7. /\ sw.seats[p] = seat /\ sw.sessions[p] = session /\ sw.sockets[s] = entry
      /\ \A q \in PlayerId \ {p} : sw.seats[q] = sv.seats[q] /\ sw.sessions[q] = sv.sessions[q]
      /\ \A t \in Socket \ {s} : sw.sockets[t] = sv.sockets[t]
  BY <1>1, <1>6 DEF Server
<1>8. ASSUME NEW t \in Socket PROVE IdentityFits(sw, t)
  <2>1. CASE t = s
    <3>1. sw.seats[p].roomCode = c
      BY <1>2, <1>7
    <3> QED BY SMTT(90), <1>1, <1>4, <1>7, <2>1, <3>1 DEF IdentityFits, PlayerIdentity
  <2>2. CASE t # s
    <3>1. IdentityFits(sv, t) /\ sw.sockets[t] = sv.sockets[t]
      BY <1>7, <2>2 DEF Sound
    <3>2. CASE sv.sockets[t].data.playerId = p
      <4>1. sv.sockets[t].data.roomCode = c /\ sw.seats[p].roomCode = c
        BY <1>2, <1>7, <3>2 DEF MaySit
      <4> QED BY <3>1, <3>2, <4>1 DEF IdentityFits
    <3>3. CASE sv.sockets[t].data.playerId # p
      BY SMTT(90), <1>7, <3>1, <3>3 DEF IdentityFits
    <3> QED BY <3>2, <3>3
  <2> QED BY <2>1, <2>2
<1>9. ASSUME NEW q \in PlayerId PROVE SeatFits(sw, q)
  <2>1. CASE q = p
    BY <1>1, <1>2, <1>3, <1>4, <1>6, <1>7, <2>1 DEF SeatFits, PlayerIdentity
  <2>2. CASE q # p
    <3>1. /\ sw.seats[q] = sv.seats[q] /\ sw.sessions[q] = sv.sessions[q]
          /\ SeatFits(sv, q) /\ (sv.seats[q].socketId # s \/ entry.roamed)
      BY <1>4, <1>7, <2>2 DEF Sound, MaySit
    <3>2. sv.seats[q].socketId \in Socket \cup {NoSocket}
      BY <1>1 DEF Server, Seat, NoSeat
    <3> QED BY SMTT(90), <1>6, <1>7, <3>1, <3>2 DEF SeatFits
  <2> QED BY <2>1, <2>2
<1>10. ASSUME NEW x \in Code PROVE HostFits(sw, x)
  <2>1. /\ sv.rooms[x].hostSocketId \in Socket \cup {NoSocket}
        /\ sv.rooms[x].hostSocketId # s \/ entry.roamed
    BY <1>1, <1>4, HostSocketType DEF MaySit
  <2>2. HostFits(sv, x)
    BY DEF Sound
  <2> QED BY <1>6, <1>7, <2>1, <2>2 DEF HostFits
<1>11. DevicesApart(sw)
  <2>1. SUFFICES ASSUME NEW q \in PlayerId, NEW r \in PlayerId, sw.seats[q] # NoSeat,
                        sw.seats[q].roomCode = sw.seats[r].roomCode,
                        sw.seats[q].deviceId = sw.seats[r].deviceId, q # r
                 PROVE  FALSE
    BY DEF DevicesApart
  <2>2. CASE q = p
    BY <1>2, <1>7, <2>1, <2>2 DEF MaySit
  <2>3. CASE r = p
    BY <1>2, <1>7, <2>1, <2>3 DEF MaySit
  <2>4. CASE q # p /\ r # p
    BY <1>7, <2>1, <2>4 DEF Sound, DevicesApart
  <2> QED BY <2>2, <2>3, <2>4
<1>12. OpenRooms(sw) = OpenRooms(sv)
  BY <1>6 DEF OpenRooms
<1>13. Sound(sw)
  BY <1>6, <1>8, <1>9, <1>10, <1>11, <1>12 DEF Sound
<1> QED BY <1>2, <1>6, <1>7, <1>13

\* Players who leave or whose presence changes.
LEMMA SeatsChange ==
  ASSUME NEW sv, Sound(sv), NEW sw \in Server, sw.rooms = sv.rooms, sw.sockets = sv.sockets,
         \A p \in PlayerId : SeatFits(sw, p),
         \A p \in PlayerId : \/ sw.seats[p] = NoSeat
                             \/ /\ sv.seats[p] # NoSeat
                                /\ sw.seats[p].roomCode = sv.seats[p].roomCode
                                /\ sw.seats[p].deviceId = sv.seats[p].deviceId
  PROVE  Sound(sw)
<1>1. sv \in Server /\ NoCode \notin Code
  BY SessionNullsAreNew DEF Sound
<1>2. OpenRooms(sw) = OpenRooms(sv)
  BY DEF OpenRooms
<1>3. ASSUME NEW s \in Socket PROVE IdentityFits(sw, s)
  <2>1. \A p \in PlayerId : sw.seats[p].roomCode \in {NoCode, sv.seats[p].roomCode}
    BY DEF NoSeat
  <2>2. IdentityFits(sv, s)
    BY DEF Sound
  <2> QED BY <2>1, <2>2 DEF IdentityFits
<1>4. \A c \in Code : HostFits(sw, c)
  BY DEF Sound, HostFits
<1>5. DevicesApart(sw)
  <2>1. SUFFICES ASSUME NEW p \in PlayerId, NEW q \in PlayerId, sw.seats[p] # NoSeat,
                        sw.seats[p].roomCode = sw.seats[q].roomCode,
                        sw.seats[p].deviceId = sw.seats[q].deviceId
                 PROVE  p = q
    BY DEF DevicesApart
  <2>2. /\ sv.seats[p] # NoSeat /\ sw.seats[p].roomCode = sv.seats[p].roomCode
        /\ sw.seats[p].deviceId = sv.seats[p].deviceId /\ sv.seats[p].roomCode \in Code
    BY <1>1, <2>1 DEF Server, Seat
  <2>3. sw.seats[q] # NoSeat
    <3>1. NoSeat.roomCode = NoCode
      BY DEF NoSeat
    <3> QED BY <1>1, <2>1, <2>2, <3>1
  <2> QED BY <2>1, <2>2, <2>3 DEF Sound, DevicesApart
<1> QED BY <1>2, <1>3, <1>4, <1>5 DEF Sound

\* A session that forgets its socket keeps its room and its device.
LEMMA DetachKeeps ==
  ASSUME NEW sessions \in [PlayerId -> Session \cup {NoSession}], NEW s
  PROVE  /\ DetachSocket(sessions, s) \in [PlayerId -> Session \cup {NoSession}]
         /\ \A p \in PlayerId : /\ DetachSocket(sessions, s)[p].roomCode = sessions[p].roomCode
                                /\ DetachSocket(sessions, s)[p].deviceId = sessions[p].deviceId
<1>1. ASSUME NEW p \in PlayerId
      PROVE  /\ DetachSocket(sessions, s)[p] \in Session \cup {NoSession}
             /\ DetachSocket(sessions, s)[p].roomCode = sessions[p].roomCode
             /\ DetachSocket(sessions, s)[p].deviceId = sessions[p].deviceId
  <2>1. CASE s # NoSocket /\ sessions[p].socketId = s
    <3>1. DetachSocket(sessions, s)[p] = [sessions[p] EXCEPT !.socketId = NoSocket]
      BY <2>1 DEF DetachSocket
    <3>2. sessions[p] \in Session
      BY <2>1 DEF NoSession
    <3> QED BY <3>1, <3>2 DEF Session
  <2>2. CASE ~(s # NoSocket /\ sessions[p].socketId = s)
    <3>1. DetachSocket(sessions, s)[p] = sessions[p]
      BY <2>2 DEF DetachSocket
    <3> QED BY <3>1
  <2> QED BY <2>1, <2>2
<1>2. DetachSocket(sessions, s) = [p \in PlayerId |-> DetachSocket(sessions, s)[p]]
  BY DEF DetachSocket
<1> QED BY <1>1, <1>2

\* A player who leaves takes the session along.
LEMMA RemoveSound ==
  ASSUME NEW sv, Sound(sv), NEW p \in PlayerId, NEW sw, sw = RemovePlayer(sv, p)
  PROVE  /\ Sound(sw) /\ sw.rooms = sv.rooms /\ sw.sockets = sv.sockets
         /\ sw.seats = [sv.seats EXCEPT ![p] = NoSeat]
<1> DEFINE gone == [sv.sessions EXCEPT ![p] = NoSession]
           sessions == DetachSocket(gone, sv.seats[p].socketId)
<1>1. sv \in Server /\ gone \in [PlayerId -> Session \cup {NoSession}]
  BY DEF Sound, Server
<1>2. /\ sessions \in [PlayerId -> Session \cup {NoSession}]
      /\ \A q \in PlayerId : /\ sessions[q].roomCode = gone[q].roomCode
                             /\ sessions[q].deviceId = gone[q].deviceId
  <2> HIDE DEF gone
  <2> QED BY <1>1, DetachKeeps
<1>3. /\ gone[p] = NoSession /\ \A q \in PlayerId \ {p} : gone[q] = sv.sessions[q]
  BY <1>1 DEF Server
<1>4. sw = [sv EXCEPT !.seats[p] = NoSeat, !.sessions = sessions]
  BY <1>1 DEF RemovePlayer, Server
<1> HIDE DEF gone, sessions
<1>5. /\ sw \in Server /\ sw.rooms = sv.rooms /\ sw.sockets = sv.sockets
      /\ sw.seats = [sv.seats EXCEPT ![p] = NoSeat] /\ sw.sessions = sessions
  <2>1. /\ sw.rooms = sv.rooms /\ sw.sockets = sv.sockets
        /\ sw.seats = [sv.seats EXCEPT ![p] = NoSeat] /\ sw.sessions = sessions
        /\ sw = [rooms |-> sw.rooms, seats |-> sw.seats, sessions |-> sw.sessions,
                 sockets |-> sw.sockets]
    BY <1>1, <1>4 DEF Server
  <2>2. sw.seats \in [PlayerId -> Seat \cup {NoSeat}]
    BY <1>1, <2>1 DEF Server
  <2> QED BY <1>1, <1>2, <2>1, <2>2 DEF Server
<1>6. sw.seats[p] = NoSeat /\ \A q \in PlayerId \ {p} : sw.seats[q] = sv.seats[q]
  BY <1>1, <1>5 DEF Server
<1>7. ASSUME NEW q \in PlayerId PROVE SeatFits(sw, q)
  <2>1. CASE q = p
    BY <1>2, <1>3, <1>5, <1>6, <2>1 DEF SeatFits, NoSeat, NoSession
  <2>2. CASE q # p
    <3>1. /\ sw.seats[q] = sv.seats[q] /\ SeatFits(sv, q)
          /\ sw.sessions[q].roomCode = sv.sessions[q].roomCode
          /\ sw.sessions[q].deviceId = sv.sessions[q].deviceId
      BY <1>2, <1>3, <1>5, <1>6, <2>2 DEF Sound
    <3> QED BY <1>5, <3>1 DEF SeatFits
  <2> QED BY <2>1, <2>2
<1>8. Sound(sw)
  <2>1. ASSUME NEW q \in PlayerId, sw.seats[q] # NoSeat
        PROVE  /\ sv.seats[q] # NoSeat
               /\ sw.seats[q].roomCode = sv.seats[q].roomCode
               /\ sw.seats[q].deviceId = sv.seats[q].deviceId
    BY <1>6, <2>1
  <2> QED BY ZenonT(60), <1>5, <1>7, <2>1, SeatsChange
<1> QED BY <1>5, <1>8

\* A player whose connection is lost keeps seat and session for the grace window.
LEMMA DisconnectSound ==
  ASSUME NEW sv, Sound(sv), NEW p \in PlayerId, NEW s, sv.seats[p] # NoSeat, NEW w \in Nat,
         NEW sw, sw = DisconnectPlayer(sv, p, s, w)
  PROVE  /\ Sound(sw) /\ sw.rooms = sv.rooms /\ sw.sockets = sv.sockets
         /\ sw.seats[p].socketId = NoSocket /\ sw.seats[p].presence = "reconnecting"
         /\ \A q \in PlayerId \ {p} : sw.seats[q] = sv.seats[q]
<1> DEFINE seat == MarkDisconnected(sv.seats[p], w)
           sessions == DetachSocket(sv.sessions, s)
           until == w + ReconnectWindowMs
<1>1. sv \in Server /\ sv.seats[p] \in Seat /\ sv.sessions \in [PlayerId -> Session \cup {NoSession}]
  BY DEF Sound, Server
<1>2. /\ sessions \in [PlayerId -> Session \cup {NoSession}]
      /\ \A q \in PlayerId : /\ sessions[q].roomCode = sv.sessions[q].roomCode
                             /\ sessions[q].deviceId = sv.sessions[q].deviceId
  BY <1>1, DetachKeeps
<1>3. until \in Nat /\ until # NoTime
  BY WindowFits, SessionNullsAreNew
<1>4. /\ seat \in Seat /\ seat.roomCode = sv.seats[p].roomCode
      /\ seat.deviceId = sv.seats[p].deviceId /\ seat.socketId = NoSocket
      /\ seat.presence = "reconnecting" /\ seat.graceEndsAt = until
  <2>1. seat = [sv.seats[p] EXCEPT !.presence = "reconnecting", !.socketId = NoSocket,
                                   !.graceEndsAt = until]
    BY DEF MarkDisconnected
  <2> HIDE DEF seat, until
  <2> QED BY <1>1, <1>3, <2>1 DEF Seat
<1>5. sw = [sv EXCEPT !.seats[p] = seat, !.sessions = sessions]
  BY <1>1 DEF DisconnectPlayer, Server
<1> HIDE DEF seat, sessions, until
<1>6. /\ sw \in Server /\ sw.rooms = sv.rooms /\ sw.sockets = sv.sockets
      /\ sw.seats = [sv.seats EXCEPT ![p] = seat] /\ sw.sessions = sessions
  <2>1. /\ sw.rooms = sv.rooms /\ sw.sockets = sv.sockets
        /\ sw.seats = [sv.seats EXCEPT ![p] = seat] /\ sw.sessions = sessions
        /\ sw = [rooms |-> sw.rooms, seats |-> sw.seats, sessions |-> sw.sessions,
                 sockets |-> sw.sockets]
    BY <1>1, <1>5 DEF Server
  <2>2. sw.seats \in [PlayerId -> Seat \cup {NoSeat}]
    BY <1>1, <1>4, <2>1 DEF Server
  <2> QED BY <1>1, <1>2, <2>1, <2>2 DEF Server
<1>7. sw.seats[p] = seat /\ \A q \in PlayerId \ {p} : sw.seats[q] = sv.seats[q]
  BY <1>1, <1>6 DEF Server
<1>8. ASSUME NEW q \in PlayerId PROVE SeatFits(sw, q)
  <2>1. SeatFits(sv, q)
    BY DEF Sound
  <2>2. CASE q = p
    BY <1>2, <1>3, <1>4, <1>6, <1>7, <2>1, <2>2 DEF SeatFits
  <2>3. CASE q # p
    BY SMTT(90), <1>2, <1>6, <1>7, <2>1, <2>3 DEF SeatFits
  <2> QED BY <2>2, <2>3
<1>9. Sound(sw)
  <2>1. ASSUME NEW q \in PlayerId, sw.seats[q] # NoSeat
        PROVE  /\ sv.seats[q] # NoSeat
               /\ sw.seats[q].roomCode = sv.seats[q].roomCode
               /\ sw.seats[q].deviceId = sv.seats[q].deviceId
    BY <1>4, <1>7, <2>1
  <2> QED BY ZenonT(60), <1>6, <1>8, <2>1, SeatsChange
<1> QED BY <1>4, <1>6, <1>7, <1>9

\* Grace windows that run out end in "offline".
LEMMA GraceSound ==
  ASSUME NEW sv, Sound(sv), NEW w \in Nat, NEW sw, sw = ExpireGraceWindows(sv, w)
  PROVE  /\ Sound(sw) /\ sw.rooms = sv.rooms
         /\ \A p \in PlayerId : sv.seats[p].presence = "online" => sw.seats[p] = sv.seats[p]
<1> DEFINE over(p) == [sv.seats[p] EXCEPT !.presence = "offline", !.graceEndsAt = NoTime]
           seats == [p \in PlayerId |-> IF GraceOver(sv.seats[p], w) THEN over(p) ELSE sv.seats[p]]
<1>1. sv \in Server
  BY DEF Sound
<1>2. ASSUME NEW p \in PlayerId, GraceOver(sv.seats[p], w)
      PROVE  /\ sv.seats[p] \in Seat /\ sv.seats[p].presence = "reconnecting"
             /\ over(p) \in Seat /\ over(p).roomCode = sv.seats[p].roomCode
             /\ over(p).deviceId = sv.seats[p].deviceId /\ over(p).socketId = sv.seats[p].socketId
             /\ over(p).presence = "offline" /\ over(p).graceEndsAt = NoTime
  <2>1. sv.seats[p].presence = "reconnecting" /\ sv.seats[p] \in Seat
    BY <1>1, <1>2 DEF GraceOver, Server, NoSeat
  <2> QED BY <2>1 DEF Seat
<1>3. seats \in [PlayerId -> Seat \cup {NoSeat}]
  <2> HIDE DEF over
  <2> QED BY <1>1, <1>2 DEF Server
<1>4. sw = [sv EXCEPT !.seats = seats]
  BY DEF ExpireGraceWindows
<1>5. \A p \in PlayerId : seats[p] = IF GraceOver(sv.seats[p], w) THEN over(p) ELSE sv.seats[p]
  OBVIOUS
<1> HIDE DEF seats, over
<1>6. /\ sw \in Server /\ sw.rooms = sv.rooms /\ sw.sockets = sv.sockets
      /\ sw.sessions = sv.sessions /\ sw.seats = seats
  BY <1>1, <1>3, <1>4 DEF Server
<1>7. ASSUME NEW p \in PlayerId PROVE SeatFits(sw, p)
  <2>1. SeatFits(sv, p)
    BY DEF Sound
  <2>2. CASE GraceOver(sv.seats[p], w)
    <3>1. sw.seats[p] = over(p) /\ sv.seats[p] # NoSeat
      BY <1>2, <1>5, <1>6, <2>2 DEF NoSeat
    <3> QED BY <1>2, <1>6, <2>1, <2>2, <3>1 DEF SeatFits
  <2>3. CASE ~GraceOver(sv.seats[p], w)
    BY <1>5, <1>6, <2>1, <2>3 DEF SeatFits
  <2> QED BY <2>2, <2>3
<1>8. Sound(sw)
  <2>1. ASSUME NEW p \in PlayerId
        PROVE  \/ sw.seats[p] = NoSeat
               \/ /\ sv.seats[p] # NoSeat
                  /\ sw.seats[p].roomCode = sv.seats[p].roomCode
                  /\ sw.seats[p].deviceId = sv.seats[p].deviceId
    BY <1>2, <1>5, <1>6 DEF NoSeat
  <2> QED BY <1>6, <1>7, <2>1, SeatsChange
<1>9. \A p \in PlayerId : sv.seats[p].presence = "online" => sw.seats[p] = sv.seats[p]
  BY <1>5, <1>6 DEF GraceOver
<1> QED BY <1>6, <1>8, <1>9

-----------------------------------------------------------------------------
(* The steps.                                                              *)

\* Rooms with somebody online are closed for their lifetime only.
RoomsKept(sv, sw, w) ==
  \A c \in OpenRooms(sv) : Online(sv, c) # {} =>
    c \in OpenRooms(sw) \/ Expired(sv.rooms[c], w)

\* Players online stay so while their socket is connected, or lose their seat.
PlayersKept(sv, sw) ==
  \A p \in PlayerId : sv.seats[p].presence = "online" =>
    \/ sw.seats[p].presence = "online"
    \/ sw.seats[p].roomCode # sv.seats[p].roomCode
    \/ sv.seats[p].socketId \notin Live(sw)

\* One step: the tables agree afterwards, no room closed under an online player but for its
\* lifetime, and no reachable player was taken offline.
Good(sv, sw, w) == Sound(sw) /\ RoomsKept(sv, sw, w) /\ PlayersKept(sv, sw)

\* The inductive invariant.
IInv == wall \in Nat /\ Sound(server)

\* Where neither rooms close nor seats change.
LEMMA NothingLost ==
  ASSUME NEW sv \in Server, NEW sw, Sound(sw), NEW w,
         \A c \in Code : sw.rooms[c].open = sv.rooms[c].open, sw.seats = sv.seats
  PROVE  Good(sv, sw, w)
BY DEF Good, RoomsKept, PlayersKept, OpenRooms

\* A sound server is well-typed.
LEMMA Types ==
  ASSUME IInv, NEW s \in Socket
  PROVE  /\ server \in Server /\ Sound(server) /\ wall \in Nat
         /\ NoCode \notin Code /\ NoSocket \notin Socket /\ NoPlayer \notin PlayerId
         /\ server.sockets[s] \in SocketEntry /\ Data(s).roomCode \in Code \cup {NoCode}
         /\ IdentityFits(server, s)
<1>1. server \in Server /\ Sound(server) /\ wall \in Nat
  BY DEF IInv, Sound
<1>2. server.sockets[s] \in SocketEntry
  BY <1>1 DEF Server
<1>3. Data(s) \in Identity
  BY <1>2 DEF SocketEntry, Data
<1> QED BY <1>1, <1>2, <1>3, SessionNullsAreNew DEF Identity, Sound

\* The middleware keeps everything sound, and every seat and identity.
LEMMA ReceivedSound ==
  ASSUME IInv, NEW s \in Socket, NEW sv, sv = Received(s)
  PROVE  /\ Sound(sv) /\ sv \in Server /\ OpenRooms(sv) = OpenRooms(server)
         /\ Live(sv) = Live(server)
         /\ sv.seats = server.seats /\ sv.sessions = server.sessions /\ sv.sockets = server.sockets
         /\ \A c \in Code : /\ sv.rooms[c].open = server.rooms[c].open
                            /\ sv.rooms[c].hostSocketId = server.rooms[c].hostSocketId
                            /\ sv.rooms[c].expiresAt = server.rooms[c].expiresAt
<1>1. /\ server \in Server /\ Sound(server) /\ wall \in Nat /\ Data(s).roomCode \in Code \cup {NoCode}
  BY Types
<1>2. /\ sv \in Server /\ sv.seats = server.seats /\ sv.sessions = server.sessions
      /\ sv.sockets = server.sockets
      /\ \A c \in Code : /\ sv.rooms[c].open = server.rooms[c].open
                         /\ sv.rooms[c].hostSocketId = server.rooms[c].hostSocketId
                         /\ sv.rooms[c].expiresAt = server.rooms[c].expiresAt
  BY <1>1, TouchEffect DEF Received
<1> QED BY <1>1, <1>2, SameEssence

\* Nobody counts on a socket that is not connected, unless it roamed.
LEMMA LostIsQuiet ==
  ASSUME NEW sv, Sound(sv), NEW s \in Socket, sv.sockets[s].status # "live"
  PROVE  Quiet(sv, s) \/ sv.sockets[s].roamed
<1> SUFFICES ASSUME ~sv.sockets[s].roamed PROVE Quiet(sv, s)
  OBVIOUS
<1>1. s # NoSocket
  BY SessionNullsAreNew
<1>2. ASSUME NEW p \in PlayerId PROVE sv.seats[p].socketId # s
  <2>1. SeatFits(sv, p)
    BY DEF Sound
  <2> QED BY <1>1, <2>1 DEF SeatFits
<1>3. ASSUME NEW c \in Code PROVE sv.rooms[c].hostSocketId # s
  <2>1. HostFits(sv, c)
    BY DEF Sound
  <2> QED BY <1>1, <2>1 DEF HostFits
<1> QED BY <1>2, <1>3 DEF Quiet

\* Only the status of a socket changes that nobody counts on, or that roamed.
LEMMA StatusChange ==
  ASSUME NEW sv, Sound(sv), NEW s \in Socket, Quiet(sv, s) \/ sv.sockets[s].roamed,
         NEW status \in {"unused", "live", "lost"},
         NEW sw, sw = [sv EXCEPT !.sockets[s].status = status]
  PROVE  /\ Sound(sw) /\ sw.rooms = sv.rooms /\ sw.seats = sv.seats
         /\ sw.sockets[s].status = status
<1> DEFINE e == [sv.sockets[s] EXCEPT !.status = status]
<1>1. sv \in Server /\ sv.sockets[s] \in SocketEntry /\ IdentityFits(sv, s)
  BY DEF Sound, Server
<1>2. /\ e \in SocketEntry /\ e.data = sv.sockets[s].data /\ e.joined = sv.sockets[s].joined
      /\ e.status = status /\ e.roamed = sv.sockets[s].roamed
  BY <1>1 DEF SocketEntry
<1>3. sw = [sv EXCEPT !.sockets[s] = e]
  OBVIOUS
<1> HIDE DEF e
<1>4. EntryFits(sv, e)
  BY <1>1, <1>2 DEF EntryFits, IdentityFits
<1>5. Sound(sw)
  BY <1>2, <1>3, <1>4, QuietSocket
<1> QED BY <1>1, <1>2, <1>3, <1>5 DEF Server

\* A new socket knows nothing.
LEMMA ConnectStep ==
  ASSUME IInv, NEW s \in Socket, Connect(s)
  PROVE  Good(server, server', wall)
<1> DEFINE e == [NewSocket EXCEPT !.status = "live"]
<1>1. server \in Server /\ Sound(server)
  BY Types
<1>2. server' = [server EXCEPT !.sockets[s] = e]
  BY DEF Connect, Becomes
<1>3. e \in SocketEntry /\ e.data = NoIdentity /\ e.joined = {}
  BY DEF NewSocket, SocketEntry, NoIdentity, Identity
<1>4. NoIdentity.role = "none"
  BY DEF NoIdentity
<1> HIDE DEF e
<1>5. Quiet(server, s)
  BY DEF Connect, FreshSockets, Quiet
<1>6. EntryFits(server, e)
  BY <1>3, <1>4 DEF EntryFits
<1>7. Sound(server')
  BY <1>1, <1>2, <1>3, <1>5, <1>6, QuietSocket
<1>8. server'.rooms = server.rooms /\ server'.seats = server.seats
  BY <1>1, <1>2 DEF Server
<1> QED BY <1>1, <1>7, <1>8, NothingLost

\* Recovery gives back what the disconnect left, and no table counts on it.
LEMMA RecoverStep ==
  ASSUME IInv, NEW s \in Socket, Recover(s)
  PROVE  Good(server, server', wall)
<1>1. /\ server \in Server /\ Sound(server) /\ server.sockets[s].status # "live"
      /\ server' = [server EXCEPT !.sockets[s].status = "live"]
  BY Types DEF Recover, Becomes
<1>2. Sound(server') /\ server'.rooms = server.rooms /\ server'.seats = server.seats
  BY <1>1, LostIsQuiet, StatusChange
<1> QED BY <1>1, <1>2, NothingLost

\* Any other event only keeps the room active.
LEMMA OtherEventStep ==
  ASSUME IInv, NEW s \in Socket, OtherEvent(s)
  PROVE  Good(server, server', wall)
<1>1. server' = Received(s) /\ server \in Server
  BY Types DEF OtherEvent, Becomes
<1>2. /\ Sound(server') /\ server'.seats = server.seats
      /\ \A c \in Code : server'.rooms[c].open = server.rooms[c].open
  BY <1>1, ReceivedSound
<1> QED BY <1>1, <1>2, NothingLost

\* What a lost connection leaves behind counts on the socket no more, unless it roamed: the
\* handler looks for it in the room the socket names.
LEMMA DisconnectedSound ==
  ASSUME IInv, NEW s \in Live(server), NEW sv \in Disconnected(s)
  PROVE  /\ Sound(sv) /\ sv \in Server
         /\ sv.sockets = server.sockets /\ (Quiet(sv, s) \/ server.sockets[s].roamed)
         /\ \A c \in Code : sv.rooms[c].open = server.rooms[c].open
         /\ \A p \in PlayerId : \/ sv.seats[p] = server.seats[p]
                                \/ server.seats[p].socketId = s
<1> DEFINE c == Data(s).roomCode
<1>1. /\ s \in Socket /\ server.sockets[s].status = "live" /\ server \in Server /\ Sound(server)
      /\ wall \in Nat /\ NoCode \notin Code /\ NoSocket \notin Socket /\ s # NoSocket
      /\ server.sockets[s] \in SocketEntry /\ c \in Code \cup {NoCode} /\ IdentityFits(server, s)
  BY Types DEF Live
<1>2. ASSUME NEW p \in PlayerId, server.seats[p].socketId = s, ~server.sockets[s].roamed
      PROVE  /\ Data(s).role = "controller" /\ Data(s).playerId = p
             /\ server.seats[p] # NoSeat /\ server.seats[p].roomCode = c /\ c \in OpenRooms(server)
  <2>1. SeatFits(server, p)
    BY <1>1 DEF Sound
  <2>2. server.seats[p] # NoSeat
    BY <1>1, <1>2 DEF NoSeat
  <2>3. server.seats[p].roomCode \in Code
    BY <1>1, <2>2 DEF Server, Seat
  <2> QED BY <1>1, <1>2, <2>1, <2>2, <2>3 DEF SeatFits, Data, OpenRooms
<1>3. ASSUME NEW d \in Code, server.rooms[d].hostSocketId = s, ~server.sockets[s].roamed
      PROVE  Data(s).role = "host" /\ d = c
  <2>1. HostFits(server, d)
    BY <1>1 DEF Sound
  <2> QED BY <1>1, <1>3, <2>1 DEF HostFits, Data
<1>4. CASE c \notin OpenRooms(server)
  <2>1. sv = server
    BY <1>4 DEF Disconnected
  <2>2. server.sockets[s].roamed \/ \A d \in Code : server.rooms[d].hostSocketId # s
    <3>1. ASSUME server.rooms[c].hostSocketId = s, c \in Code PROVE FALSE
      <4>1. ~server.rooms[c].open
        BY <1>4, <3>1 DEF OpenRooms
      <4>2. server.rooms[c] = NoRoom
        BY <1>1, <3>1, <4>1 DEF Server, RoomEntry
      <4> QED BY <1>1, <3>1, <4>2 DEF NoRoom
    <3> QED BY <1>3, <3>1
  <2> QED BY <1>1, <1>2, <1>4, <2>1, <2>2 DEF Quiet
<1>5. CASE c \in OpenRooms(server) /\ Data(s).role = "host"
  <2>1. sv = ClearHostSocket(server, c, s, wall)
    BY <1>5 DEF Disconnected
  <2>2. CASE server.rooms[c].hostSocketId # s
    <3>1. sv = server
      BY <2>1, <2>2 DEF ClearHostSocket
    <3> QED BY <1>1, <1>2, <1>3, <1>5, <2>2, <3>1 DEF Quiet
  <2>3. CASE server.rooms[c].hostSocketId = s
    <3> DEFINE t == Touch(server, c, wall)
    <3>1. sv = [t EXCEPT !.rooms[c].hostSocketId = NoSocket]
      BY <2>1, <2>3 DEF ClearHostSocket
    <3>2. /\ t \in Server /\ Sound(t) /\ t.seats = server.seats /\ t.sockets = server.sockets
          /\ \A d \in Code : /\ t.rooms[d].open = server.rooms[d].open
                             /\ t.rooms[d].hostSocketId = server.rooms[d].hostSocketId
      BY <1>1, TouchEffect, TouchSound
    <3> HIDE DEF t
    <3>3. c \in OpenRooms(t) /\ c \in Code
      BY <1>5, <3>2 DEF OpenRooms
    <3>4. Sound(sv)
      BY <3>1, <3>2, <3>3, HostRoom
    <3>5. t.rooms[c] \in RoomEntry
      BY <3>2, <3>3 DEF Server, NoRoom, OpenRooms
    <3>6. /\ sv.seats = server.seats /\ sv.sockets = server.sockets
          /\ \A d \in Code : /\ sv.rooms[d].open = server.rooms[d].open
                             /\ sv.rooms[d].hostSocketId =
                                  IF d = c THEN NoSocket ELSE server.rooms[d].hostSocketId
      BY <3>1, <3>2, <3>3, <3>5 DEF Server, RoomEntry
    <3>7. Quiet(sv, s) \/ server.sockets[s].roamed
      BY <1>1, <1>2, <1>3, <1>5, <3>6 DEF Quiet
    <3> QED BY <3>4, <3>6, <3>7 DEF Sound
  <2> QED BY <2>2, <2>3
<1>6. CASE c \in OpenRooms(server) /\ Data(s).role # "host"
  <2> DEFINE found == FindBySocket(server, c, s)
  <2>1. found = {p \in PlayerId : server.seats[p].roomCode = c /\ server.seats[p].socketId = s}
    BY DEF FindBySocket, Roster
  <2>2. server.sockets[s].roamed \/ \A d \in Code : server.rooms[d].hostSocketId # s
    BY <1>3, <1>6
  <2>3. CASE found = {}
    <3>1. sv = Touch(server, c, wall)
      BY <1>6, <2>3 DEF Disconnected
    <3>2. /\ sv \in Server /\ Sound(sv) /\ sv.seats = server.seats /\ sv.sockets = server.sockets
          /\ \A d \in Code : /\ sv.rooms[d].open = server.rooms[d].open
                             /\ sv.rooms[d].hostSocketId = server.rooms[d].hostSocketId
      BY <1>1, <3>1, TouchEffect, TouchSound
    <3>3. server.sockets[s].roamed \/ \A p \in PlayerId : server.seats[p].socketId # s
      BY <1>2, <2>1, <2>3
    <3> QED BY <2>2, <3>2, <3>3 DEF Quiet
  <2>4. CASE found # {}
    <3>1. PICK p \in found : sv = Touch(DisconnectPlayer(server, p, s, wall), c, wall)
      BY <1>6, <2>4 DEF Disconnected
    <3> DEFINE gone == DisconnectPlayer(server, p, s, wall)
    <3>2. p \in PlayerId /\ server.seats[p].socketId = s /\ server.seats[p] # NoSeat
      BY <1>1, <2>1 DEF NoSeat
    <3>3. /\ Sound(gone) /\ gone.rooms = server.rooms /\ gone.sockets = server.sockets
          /\ gone.seats[p].socketId = NoSocket
          /\ \A q \in PlayerId \ {p} : gone.seats[q] = server.seats[q]
      BY <1>1, <3>2, DisconnectSound
    <3> HIDE DEF gone
    <3>4. /\ sv \in Server /\ Sound(sv) /\ sv.seats = gone.seats /\ sv.sockets = server.sockets
          /\ \A d \in Code : /\ sv.rooms[d].open = server.rooms[d].open
                             /\ sv.rooms[d].hostSocketId = server.rooms[d].hostSocketId
      <4>1. sv = Touch(gone, c, wall) /\ gone \in Server
        BY <3>1, <3>3 DEF gone, Sound
      <4>2. Sound(sv)
        BY <1>1, <3>3, <4>1, TouchSound
      <4>3. /\ sv \in Server /\ sv.seats = gone.seats /\ sv.sockets = gone.sockets
            /\ \A d \in Code : /\ sv.rooms[d].open = gone.rooms[d].open
                               /\ sv.rooms[d].hostSocketId = gone.rooms[d].hostSocketId
        BY <1>1, <4>1, TouchEffect
      <4> QED BY <3>3, <4>2, <4>3
    <3>5. ASSUME NEW q \in PlayerId, server.seats[q].socketId = s, ~server.sockets[s].roamed
          PROVE  q = p
      BY <1>2, <3>2, <3>5
    <3> QED BY <1>1, <2>2, <3>2, <3>3, <3>4, <3>5 DEF Quiet
  <2> QED BY <2>3, <2>4
<1> QED BY <1>4, <1>5, <1>6

\* A late disconnect finds its seat only when the seat still counts on that socket.
LEMMA DisconnectStep ==
  ASSUME IInv, NEW s \in Socket, Disconnect(s)
  PROVE  Good(server, server', wall)
<1>1. s \in Live(server) /\ server \in Server
  BY Types DEF Disconnect
<1>2. PICK sv \in Disconnected(s) : server' = [sv EXCEPT !.sockets[s].status = "lost"]
  BY DEF Disconnect, Becomes
<1>3. /\ Sound(sv) /\ sv \in Server /\ (Quiet(sv, s) \/ sv.sockets[s].roamed)
      /\ \A c \in Code : sv.rooms[c].open = server.rooms[c].open
      /\ \A p \in PlayerId : sv.seats[p] = server.seats[p] \/ server.seats[p].socketId = s
  BY <1>1, <1>2, DisconnectedSound
<1>4. /\ Sound(server') /\ server'.rooms = sv.rooms /\ server'.seats = sv.seats
      /\ server'.sockets[s].status = "lost"
  BY <1>2, <1>3, StatusChange
<1>5. RoomsKept(server, server', wall)
  BY <1>3, <1>4 DEF RoomsKept, OpenRooms
<1>6. PlayersKept(server, server')
  BY <1>3, <1>4 DEF PlayersKept, Live
<1> QED BY <1>4, <1>5, <1>6 DEF Good

\* A socket that is ended may be so whatever the tables hold.
LEMMA TerminatedFits ==
  ASSUME NEW sv, NEW socket \in SocketEntry
  PROVE  /\ Terminated(socket) \in SocketEntry /\ EntryFits(sv, Terminated(socket))
         /\ Terminated(socket).roamed = socket.roamed
<1> DEFINE e == [status |-> "unused", data |-> NoIdentity, joined |-> {}, roamed |-> socket.roamed]
<1>1. Terminated(socket) = e
  BY DEF Terminated, NewSocket
<1>2. socket.roamed \in BOOLEAN /\ NoIdentity \in Identity /\ NoIdentity.role = "none"
  BY DEF SocketEntry, NoIdentity, Identity
<1>3. e \in SocketEntry
  BY <1>2 DEF SocketEntry
<1>4. EntryFits(sv, e)
  BY <1>2 DEF EntryFits
<1> QED BY <1>1, <1>3, <1>4

\* Leaving frees one seat and one identity.
LEMMA LeaveStep ==
  ASSUME IInv, NEW s \in Socket, LeaveRoom(s)
  PROVE  Good(server, server', wall)
<1> DEFINE p == Data(s).playerId
           received == Received(s)
           removed == RemovePlayer(received, p)
<1>1. /\ s \in Live(server) /\ server \in Server /\ Sound(server) /\ NoSocket \notin Socket
      /\ Data(s).role = "controller" /\ p \in PlayerId /\ IdentityFits(server, s)
      /\ s # NoSocket
      /\ server' = [removed EXCEPT !.sockets[s] = Terminated(removed.sockets[s])]
      /\ server.sockets[s] \in SocketEntry
  BY Types DEF LeaveRoom, HasSeat, Roster, Becomes, Terminate
<1>2. /\ Sound(received) /\ received.seats = server.seats /\ received.sockets = server.sockets
      /\ \A c \in Code : /\ received.rooms[c].open = server.rooms[c].open
                         /\ received.rooms[c].hostSocketId = server.rooms[c].hostSocketId
  BY ReceivedSound
<1>3. /\ Sound(removed) /\ removed.rooms = received.rooms /\ removed.sockets = server.sockets
      /\ removed.seats = [server.seats EXCEPT ![p] = NoSeat] /\ removed \in Server
  <2> HIDE DEF received, p
  <2>1. Sound(removed) /\ removed.rooms = received.rooms /\ removed.sockets = received.sockets
        /\ removed.seats = [received.seats EXCEPT ![p] = NoSeat]
    BY <1>1, <1>2, RemoveSound
  <2> QED BY <1>2, <2>1 DEF Sound
<1> HIDE DEF received, removed
<1>4. /\ removed.seats[p] = NoSeat
      /\ \A q \in PlayerId \ {p} : removed.seats[q] = server.seats[q]
  BY <1>1, <1>3 DEF Server
<1>5. Quiet(removed, s) \/ server.sockets[s].roamed
  <2> SUFFICES ASSUME ~server.sockets[s].roamed PROVE Quiet(removed, s)
    OBVIOUS
  <2>1. ASSUME NEW q \in PlayerId, removed.seats[q].socketId = s PROVE FALSE
    <3>1. q # p /\ server.seats[q].socketId = s
      BY <1>1, <1>4, <2>1 DEF NoSeat
    <3>2. SeatFits(server, q)
      BY <1>1 DEF Sound
    <3> QED BY <1>1, <3>1, <3>2 DEF SeatFits, Data
  <2>2. ASSUME NEW c \in Code, removed.rooms[c].hostSocketId = s PROVE FALSE
    <3>1. HostFits(server, c) /\ server.rooms[c].hostSocketId = s
      BY <1>1, <1>2, <1>3, <2>2 DEF Sound
    <3> QED BY <1>1, <3>1 DEF HostFits, Data
  <2> QED BY <2>1, <2>2 DEF Quiet
<1>6. LET e == Terminated(removed.sockets[s])
      IN  e \in SocketEntry /\ EntryFits(removed, e) /\ e.roamed = server.sockets[s].roamed
  BY <1>1, <1>3, TerminatedFits
<1>7. Sound(server') /\ server'.rooms = removed.rooms /\ server'.seats = removed.seats
  <2>1. Sound(server')
    BY <1>1, <1>3, <1>5, <1>6, QuietSocket DEF Live
  <2> QED BY <1>1, <1>3, <2>1 DEF Server
<1>8. RoomsKept(server, server', wall)
  BY <1>2, <1>3, <1>7 DEF RoomsKept, OpenRooms
<1>9. PlayersKept(server, server')
  <2>1. server.seats[p] # NoSeat /\ server.seats[p].roomCode # NoCode
    <3>1. server.seats[p].roomCode = Data(s).roomCode /\ Data(s).roomCode \in Code
      BY DEF LeaveRoom, HasSeat, Roster, OpenRooms
    <3> QED BY <3>1, SessionNullsAreNew DEF NoSeat
  <2> QED BY <1>1, <1>4, <1>7, <2>1 DEF PlayersKept, NoSeat
<1> QED BY <1>7, <1>8, <1>9 DEF Good

\* So does being removed by the screen.
LEMMA KickStep ==
  ASSUME IInv, NEW s \in Socket, NEW p \in PlayerId, Kick(s, p)
  PROVE  Good(server, server', wall)
<1> DEFINE target == server.seats[p].socketId
           received == Received(s)
           removed == RemovePlayer(received, p)
<1>1. /\ server \in Server /\ Sound(server) /\ NoSocket \notin Socket
      /\ server' = IF target \in Live(server)
                   THEN [removed EXCEPT !.sockets[target] = Terminated(removed.sockets[target])]
                   ELSE removed
  BY Types DEF Kick, Becomes, Terminate
<1>2. /\ Sound(received) /\ received.seats = server.seats /\ received.sockets = server.sockets
      /\ \A c \in Code : /\ received.rooms[c].open = server.rooms[c].open
                         /\ received.rooms[c].hostSocketId = server.rooms[c].hostSocketId
  BY ReceivedSound
<1>3. /\ Sound(removed) /\ removed.rooms = received.rooms /\ removed.sockets = server.sockets
      /\ removed.seats = [server.seats EXCEPT ![p] = NoSeat] /\ removed \in Server
  <2> HIDE DEF received
  <2>1. Sound(removed) /\ removed.rooms = received.rooms /\ removed.sockets = received.sockets
        /\ removed.seats = [received.seats EXCEPT ![p] = NoSeat]
    BY <1>1, <1>2, RemoveSound
  <2> QED BY <1>2, <2>1 DEF Sound
<1> HIDE DEF received, removed
<1>4. /\ removed.seats[p] = NoSeat
      /\ \A q \in PlayerId \ {p} : removed.seats[q] = server.seats[q]
  BY <1>1, <1>3 DEF Server
<1>5. Sound(server') /\ server'.rooms = removed.rooms /\ server'.seats = removed.seats
  <2>1. CASE target \in Live(server)
    <3>1. target \in Socket /\ target # NoSocket
      BY <1>1, <2>1 DEF Live
    <3>2. SeatFits(server, p)
      BY <1>1 DEF Sound
    <3>3. ~server.sockets[target].roamed =>
            /\ server.sockets[target].data.role = "controller"
            /\ server.sockets[target].data.playerId = p
      BY <3>1, <3>2 DEF SeatFits
    <3> HIDE DEF target
    <3>4. ASSUME NEW q \in PlayerId, removed.seats[q].socketId = target,
                 ~server.sockets[target].roamed
          PROVE  FALSE
      <4>1. q # p /\ server.seats[q].socketId = target
        BY <1>4, <3>1, <3>4 DEF NoSeat
      <4>2. SeatFits(server, q)
        BY <1>1 DEF Sound
      <4> QED BY <3>1, <3>3, <3>4, <4>1, <4>2 DEF SeatFits
    <3>5. ASSUME NEW c \in Code, removed.rooms[c].hostSocketId = target,
                 ~server.sockets[target].roamed
          PROVE  FALSE
      <4>1. HostFits(server, c) /\ server.rooms[c].hostSocketId = target
        BY <1>1, <1>2, <1>3, <3>5 DEF Sound
      <4> QED BY <3>1, <3>3, <3>5, <4>1 DEF HostFits
    <3>6. Quiet(removed, target) \/ server.sockets[target].roamed
      BY <3>4, <3>5 DEF Quiet
    <3>7. server.sockets[target] \in SocketEntry /\ removed.sockets[target] = server.sockets[target]
      BY <1>1, <1>3, <3>1 DEF Server
    <3>8. LET e == Terminated(removed.sockets[target])
          IN  e \in SocketEntry /\ EntryFits(removed, e) /\ e.roamed = server.sockets[target].roamed
      BY <3>7, TerminatedFits
    <3>9. Sound(server')
      BY <1>1, <1>3, <2>1, <3>1, <3>6, <3>8, QuietSocket
    <3> QED BY <1>1, <1>3, <2>1, <3>9 DEF Server
  <2>2. CASE target \notin Live(server)
    BY <1>1, <1>3, <2>2
  <2> QED BY <2>1, <2>2
<1>6. RoomsKept(server, server', wall)
  BY <1>2, <1>3, <1>5 DEF RoomsKept, OpenRooms
<1>7. PlayersKept(server, server')
  <2>1. server.seats[p].roomCode # NoCode /\ NoSeat.roomCode = NoCode
    BY SessionNullsAreNew DEF Kick, Roster, OpenRooms, NoSeat
  <2> QED BY <1>4, <1>5, <2>1 DEF PlayersKept
<1> QED BY <1>5, <1>6, <1>7 DEF Good

\* A longer lifetime costs nobody a room or a seat.
LEMMA ExtendStep ==
  ASSUME IInv, NEW s \in Socket, ExtendLifetime(s)
  PROVE  Good(server, server', wall)
<1> DEFINE c == Data(s).roomCode
           t == Touch(server, c, wall)
<1>1. /\ server \in Server /\ Sound(server) /\ wall \in Nat /\ c \in OpenRooms(server)
      /\ server' = ExtendRoomLifetime(server, c, wall) /\ server.rooms[c].expiresAt # NoTime
  BY Types DEF ExtendLifetime, Becomes, CanExtend
<1>2. Sound(server')
  BY <1>1, ExtendSound
<1>3. /\ t \in Server /\ t.seats = server.seats
      /\ \A d \in Code : t.rooms[d].open = server.rooms[d].open
  BY <1>1, TouchEffect DEF OpenRooms
<1>4. server' = [t EXCEPT !.rooms[c].expiresAt = @ + LifetimeMs]
  BY <1>1 DEF ExtendRoomLifetime
<1> HIDE DEF t, c
<1>5. t.rooms[c] \in RoomEntry
  BY <1>1, <1>3 DEF Server, NoRoom, OpenRooms
<1>6. server'.seats = server.seats /\ \A d \in Code : server'.rooms[d].open = server.rooms[d].open
  BY <1>1, <1>3, <1>4, <1>5 DEF Server, RoomEntry, OpenRooms
<1> QED BY <1>1, <1>2, <1>6, NothingLost

\* A grace window that runs out changes players who are away.
LEMMA GraceStep ==
  ASSUME IInv, GraceTimer
  PROVE  Good(server, server', wall)
<1>1. /\ server \in Server /\ Sound(server) /\ wall \in Nat
      /\ server' = ExpireGraceWindows(server, wall)
  BY DEF IInv, Sound, GraceTimer, Becomes
<1>2. /\ Sound(server') /\ server'.rooms = server.rooms
      /\ \A p \in PlayerId : server.seats[p].presence = "online" => server'.seats[p] = server.seats[p]
  BY <1>1, GraceSound
<1> QED BY <1>2 DEF Good, RoomsKept, PlayersKept, OpenRooms

\* What joining and resuming have in common: the room is touched and the player sits down.
LEMMA SitStep ==
  ASSUME NEW sv, Sound(sv), NEW t, Sound(t), t.seats = sv.seats,
         \A c \in Code : t.rooms[c].open = sv.rooms[c].open,
         NEW p \in PlayerId, NEW c \in OpenRooms(t), NEW d \in Device, NEW s \in Live(t),
         MaySit(t, p, c, d, s), NEW sw, sw = SitDown(t, p, c, d, s), NEW w
  PROVE  Good(sv, sw, w)
<1>1. /\ Sound(sw) /\ sw.rooms = t.rooms /\ sw.seats[p].presence = "online"
      /\ \A q \in PlayerId \ {p} : sw.seats[q] = t.seats[q]
  BY SitSound
<1>2. RoomsKept(sv, sw, w)
  BY <1>1 DEF RoomsKept, OpenRooms
<1>3. PlayersKept(sv, sw)
  BY <1>1 DEF PlayersKept
<1> QED BY <1>1, <1>2, <1>3 DEF Good

\* Every socket that names a player who has a seat names the room of the seat.
LEMMA NamesTheRoom ==
  ASSUME NEW sv, Sound(sv), NEW p \in PlayerId, NEW c \in Code, sv.seats[p].roomCode = c,
         NEW t \in Socket, sv.sockets[t].data.playerId = p
  PROVE  sv.sockets[t].data.roomCode = c /\ sv.sockets[t].data.role = "controller"
<1>1. /\ IdentityFits(sv, t) /\ NoPlayer \notin PlayerId /\ NoCode \notin Code
      /\ sv.sockets[t].data \in Identity
  BY SessionNullsAreNew DEF Sound, Server, SocketEntry
<1>2. sv.sockets[t].data.role \in {"none", "host", "controller"}
  BY <1>1 DEF Identity
<1> QED BY <1>1, <1>2 DEF IdentityFits, NoIdentity

\* Joining seats a player on the socket that asked, and takes a device's older socket out.
LEMMA JoinStep ==
  ASSUME SessionConstants, IInv, NEW s \in Socket, NEW c \in Code, NEW d \in Device,
         JoinRoom(s, c, d)
  PROVE  Good(server, server', wall)
<1> DEFINE t == Touch(Received(s), c, wall)
           known == {p \in Roster(server, c) : server.seats[p].deviceId = d}
<1>1. PICK p \in IF known # {} THEN known ELSE FreshPlayers(server) :
        server' = Identify(JoinPlayer(t, p, c, d, s), s,
                           [role |-> "controller", roomCode |-> c, playerId |-> p])
  BY DEF JoinRoom, Becomes
<1>2. /\ s \in Live(server) /\ c \in OpenRooms(server) /\ MayJoin(s, c, d)
      /\ server \in Server /\ Sound(server) /\ wall \in Nat /\ p \in PlayerId
      /\ NoCode \notin Code /\ NoSocket \notin Socket /\ s # NoSocket
      /\ server.sockets[s] \in SocketEntry /\ IdentityFits(server, s)
      /\ server.sockets[s].data = Data(s)
  <2>1. p \in PlayerId
    BY <1>1 DEF Roster, FreshPlayers
  <2> QED BY <2>1, Types DEF JoinRoom, Data
<1>3. /\ Sound(t) /\ t.seats = server.seats /\ t.sockets = server.sockets
      /\ \A x \in Code : /\ t.rooms[x].open = server.rooms[x].open
                         /\ t.rooms[x].hostSocketId = server.rooms[x].hostSocketId
  <2> DEFINE received == Received(s)
  <2>1. /\ Sound(received) /\ received \in Server
        /\ received.seats = server.seats /\ received.sockets = server.sockets
        /\ \A x \in Code : /\ received.rooms[x].open = server.rooms[x].open
                           /\ received.rooms[x].hostSocketId = server.rooms[x].hostSocketId
    BY ReceivedSound
  <2> HIDE DEF received
  <2>2. t = Touch(received, c, wall)
    BY DEF received
  <2>3. Sound(t)
    BY <1>2, <2>1, <2>2, TouchSound
  <2>4. /\ t.seats = received.seats /\ t.sockets = received.sockets
        /\ \A x \in Code : /\ t.rooms[x].open = received.rooms[x].open
                           /\ t.rooms[x].hostSocketId = received.rooms[x].hostSocketId
    BY <1>2, <2>1, <2>2, TouchEffect
  <2> HIDE DEF t
  <2> QED BY <2>1, <2>3, <2>4
<1>4. server' = SitDown(t, p, c, d, s)
  <2> HIDE DEF t
  <2> QED BY <1>1, <1>2, <1>3 DEF Identify, JoinPlayer, SitDown, PlayerIdentity, Roams
<1> HIDE DEF t
<1>5. ASSUME NEW q \in PlayerId, server.seats[q].roomCode = c, server.seats[q].deviceId = d
      PROVE  q = p
  <2>1. q \in known
    BY <1>5 DEF Roster
  <2>2. server.seats[p].roomCode = c /\ server.seats[p].deviceId = d
    BY <1>1, <2>1 DEF Roster
  <2>3. server.seats[q] # NoSeat
    BY <1>2, <1>5 DEF NoSeat
  <2> QED BY <1>2, <1>5, <2>2, <2>3 DEF Sound, DevicesApart
<1>6. ASSUME NEW q \in PlayerId, server.seats[q].socketId = s, ~server.sockets[s].roamed
      PROVE  q = p
  <2>1. SeatFits(server, q) /\ server.seats[q] # NoSeat
    BY <1>2, <1>6 DEF Sound, NoSeat
  <2>2. server.seats[q].roomCode \in Code
    BY <1>2, <2>1 DEF Server, Seat
  <2>3. Data(s) = [role |-> "controller", roomCode |-> server.seats[q].roomCode, playerId |-> q]
    BY <1>2, <1>6, <2>1 DEF SeatFits
  <2>4. HasSeat(s)
    BY <2>3 DEF HasSeat, Roster
  <2>5. c = server.seats[q].roomCode /\ d = server.seats[q].deviceId
    BY <1>2, <2>2, <2>3, <2>4 DEF MayJoin
  <2> QED BY <1>5, <2>5
<1>7. ASSUME NEW x \in Code, server.rooms[x].hostSocketId = s, ~server.sockets[s].roamed
      PROVE  FALSE
  <2>1. Data(s).role = "host" /\ Data(s).roomCode = x
    BY <1>2, <1>7 DEF Sound, HostFits
  <2> QED BY <1>2, <2>1 DEF MayJoin
<1>8. ASSUME NEW u \in Socket, server.sockets[u].data.playerId = p
      PROVE  server.sockets[u].data.roomCode = c
  <2>1. CASE known # {}
    <3>1. server.seats[p].roomCode = c
      BY <1>1, <2>1 DEF Roster
    <3> QED BY <1>2, <1>8, <3>1, NamesTheRoom
  <2>2. CASE known = {}
    BY <1>1, <1>8, <2>2 DEF FreshPlayers
  <2> QED BY <2>1, <2>2
<1>10. MaySit(t, p, c, d, s)
  BY <1>3, <1>5, <1>6, <1>7, <1>8 DEF MaySit, Roams
<1>11. c \in OpenRooms(t) /\ s \in Live(t)
  BY <1>2, <1>3 DEF OpenRooms, Live
<1> QED BY <1>2, <1>3, <1>4, <1>10, <1>11, SitStep

\* Resuming does the same for a seat that was kept.
LEMMA ResumeStep ==
  ASSUME IInv, NEW s \in Socket, NEW p \in PlayerId, ResumeSession(s, p)
  PROVE  Good(server, server', wall)
<1> DEFINE c == server.sessions[p].roomCode
           d == server.sessions[p].deviceId
           t == Touch(server, c, wall)
<1>1. /\ s \in Live(server) /\ c \in OpenRooms(server) /\ c \in Code
      /\ Data(s).roomCode = NoCode \/ Data(s).playerId = p
      /\ server.seats[p].roomCode = c
      /\ server' = Identify(ResumePlayer(t, p, s), s,
                            [role |-> "controller", roomCode |-> c, playerId |-> p])
      /\ server \in Server /\ Sound(server) /\ wall \in Nat
      /\ NoCode \notin Code /\ NoSocket \notin Socket /\ s # NoSocket /\ NoPlayer \notin PlayerId
      /\ server.sockets[s] \in SocketEntry /\ IdentityFits(server, s)
      /\ server.sockets[s].data = Data(s) /\ SeatFits(server, p)
  BY Types DEF ResumeSession, Becomes, OpenRooms, Data, Sound
<1>2. /\ server.seats[p] # NoSeat /\ server.seats[p] \in Seat
      /\ server.sessions[p] \in Session /\ d \in Device /\ server.seats[p].deviceId = d
  <2>1. server.seats[p] # NoSeat /\ server.sessions[p] # NoSession
    BY <1>1 DEF NoSeat, NoSession
  <2>2. server.seats[p] \in Seat /\ server.sessions[p] \in Session
    BY <1>1, <2>1 DEF Server
  <2> QED BY <1>1, <2>1, <2>2 DEF Session, SeatFits
<1>3. /\ Sound(t) /\ t \in Server /\ t.seats = server.seats /\ t.sockets = server.sockets
      /\ t.sessions = server.sessions
      /\ \A x \in Code : /\ t.rooms[x].open = server.rooms[x].open
                         /\ t.rooms[x].hostSocketId = server.rooms[x].hostSocketId
  BY <1>1, TouchEffect, TouchSound
<1> HIDE DEF t
<1>4. server' = SitDown(t, p, c, d, s)
  <2>1. [server.sessions[p] EXCEPT !.socketId = s] = [roomCode |-> c, deviceId |-> d, socketId |-> s]
    BY <1>2 DEF Session
  <2>2. ResumePlayer(t, p, s) = [t EXCEPT !.seats[p] = Seated(c, d, s),
                                          !.sessions[p] = [roomCode |-> c, deviceId |-> d, socketId |-> s]]
    BY <1>1, <1>2, <1>3, <2>1 DEF ResumePlayer, Server
  <2> HIDE DEF c, d
  <2> QED BY <1>1, <1>3, <2>2 DEF Identify, SitDown, PlayerIdentity, Roams
<1>5. ASSUME NEW q \in PlayerId, server.seats[q].roomCode = c, server.seats[q].deviceId = d
      PROVE  q = p
  BY <1>1, <1>2, <1>5 DEF Sound, DevicesApart
<1>6. ASSUME NEW q \in PlayerId, server.seats[q].socketId = s, ~server.sockets[s].roamed
      PROVE  q = p
  <2>1. SeatFits(server, q) /\ server.seats[q] # NoSeat
    BY <1>1, <1>6 DEF Sound, NoSeat
  <2>2. server.seats[q].roomCode \in Code
    BY <1>1, <2>1 DEF Server, Seat
  <2> QED BY <1>1, <1>6, <2>1, <2>2 DEF SeatFits
<1>7. ASSUME NEW x \in Code, server.rooms[x].hostSocketId = s, ~server.sockets[s].roamed
      PROVE  FALSE
  <2>1. Data(s).role = "host" /\ Data(s).roomCode = x
    BY SMTT(90), <1>1, <1>7 DEF Sound, HostFits
  <2> QED BY <1>1, <2>1 DEF IdentityFits
<1>8. ASSUME NEW u \in Socket, server.sockets[u].data.playerId = p
      PROVE  server.sockets[u].data.roomCode = c
  BY <1>1, <1>8, NamesTheRoom
<1> HIDE DEF c, d
<1>10. MaySit(t, p, c, d, s)
  BY <1>3, <1>5, <1>6, <1>7, <1>8 DEF MaySit, Roams
<1>11. c \in OpenRooms(t) /\ s \in Live(t)
  BY <1>1, <1>3 DEF OpenRooms, Live
<1> QED BY <1>1, <1>2, <1>3, <1>4, <1>10, <1>11, SitStep

\* What closing rooms may cost: rooms that nobody is online in or whose lifetime is over, and
\* the seats in them; in the rooms that stay the same players are online.
Swept(sv, sw, w) ==
  /\ Sound(sw) /\ Live(sw) = Live(sv) /\ OpenRooms(sw) \subseteq OpenRooms(sv)
  /\ RoomsKept(sv, sw, w)
  /\ \A p \in PlayerId : sw.seats[p] \in {sv.seats[p], NoSeat}
  /\ \A c \in OpenRooms(sw) : Online(sw, c) = Online(sv, c)
  /\ \A s \in Socket : sw.sockets[s].data \in {sv.sockets[s].data, NoIdentity}

\* Closing one room of the sweep.
LEMMA CloseSwept ==
  ASSUME SessionConstants, NEW sv, Sound(sv), NEW w, NEW closing \in SUBSET OpenRooms(sv),
         \A c \in closing : Online(sv, c) = {} \/ Expired(sv.rooms[c], w),
         NEW sw, sw = CloseRooms(sv, closing)
  PROVE  Swept(sv, sw, w) /\ OpenRooms(sw) = OpenRooms(sv) \ closing
<1>1. closing \in SUBSET Code /\ sv \in Server /\ NoCode \notin Code /\ NoSeat.roomCode = NoCode
  BY SessionNullsAreNew DEF OpenRooms, Sound, NoSeat
<1>2. /\ Sound(sw) /\ Live(sw) = Live(sv)
      /\ \A s \in Socket : sw.sockets[s].data \in {sv.sockets[s].data, NoIdentity}
  BY <1>1, CloseSound
<1>3. /\ OpenRooms(sw) = OpenRooms(sv) \ closing
      /\ sw.seats = [p \in PlayerId |-> IF sv.seats[p].roomCode \in closing
                                        THEN NoSeat ELSE sv.seats[p]]
  BY ZenonT(60), <1>1, CloseEffect
<1>4. \A p \in PlayerId : sw.seats[p] = IF sv.seats[p].roomCode \in closing
                                        THEN NoSeat ELSE sv.seats[p]
  BY <1>3
<1>5. ASSUME NEW c \in OpenRooms(sw) PROVE Online(sw, c) = Online(sv, c)
  <2>1. c \in Code /\ c \notin closing
    BY <1>3 DEF OpenRooms
  <2>2. ASSUME NEW p \in PlayerId
        PROVE  /\ sw.seats[p].roomCode = c <=> sv.seats[p].roomCode = c
               /\ sv.seats[p].roomCode = c => sw.seats[p] = sv.seats[p]
    BY <1>1, <1>4, <2>1
  <2>3. \A p \in PlayerId : p \in Online(sw, c) <=> p \in Online(sv, c)
    BY <2>2 DEF Online, Roster
  <2> QED BY <2>3 DEF Online, Roster
<1>6. RoomsKept(sv, sw, w)
  BY <1>3 DEF RoomsKept
<1> QED BY <1>2, <1>3, <1>4, <1>5, <1>6 DEF Swept

\* The sweep closes rooms of that kind only.
LEMMA SweepSwept ==
  ASSUME SessionConstants, NEW sv, Sound(sv), NEW w, NEW sw, sw = RemoveInactiveRooms(sv, w)
  PROVE  Swept(sv, sw, w)
<1> DEFINE closing == {c \in OpenRooms(sv) : Expired(sv.rooms[c], w) \/ Abandoned(sv, c, w)}
<1>1. closing \in SUBSET OpenRooms(sv) /\ sw = CloseRooms(sv, closing)
  BY DEF RemoveInactiveRooms
<1>2. \A c \in closing : Online(sv, c) = {} \/ Expired(sv.rooms[c], w)
  BY DEF Abandoned
<1> HIDE DEF closing
<1> QED BY <1>1, <1>2, CloseSwept

\* The room that makes space has nobody online, and leaves space.
LEMMA EvictSwept ==
  ASSUME SessionConstants, NEW sv, Sound(sv), NEW w, NEW victim \in Evictable(sv),
         NEW sw, sw = CloseRooms(sv, {victim})
  PROVE  Swept(sv, sw, w) /\ HasSpace(sw)
<1>1. victim \in OpenRooms(sv) /\ Online(sv, victim) = {}
  BY DEF Evictable
<1>2. Swept(sv, sw, w) /\ OpenRooms(sw) = OpenRooms(sv) \ {victim}
  BY <1>1, CloseSwept
<1>3. IsFiniteSet(OpenRooms(sv))
  BY FS_Subset DEF SessionConstants, OpenRooms
<1>4. Cardinality(OpenRooms(sw)) = Cardinality(OpenRooms(sv)) - 1
  BY <1>1, <1>2, <1>3, FS_RemoveElement
<1>5. Cardinality(OpenRooms(sv)) \in Nat /\ Cardinality(OpenRooms(sv)) <= MaxRooms
  BY <1>3, FS_CardinalityType DEF Sound
<1> QED BY <1>2, <1>4, <1>5, CleanupFits DEF HasSpace

\* Closing rooms on the way to a step, and keeping rooms and seats from there on.
LEMMA SweptGood ==
  ASSUME NEW sv, Sound(sv), NEW sw, NEW w, Swept(sv, sw, w), NEW sx, Sound(sx),
         OpenRooms(sw) \subseteq OpenRooms(sx), sx.seats = sw.seats
  PROVE  Good(sv, sx, w)
<1>1. RoomsKept(sv, sx, w)
  BY DEF Swept, RoomsKept
<1>2. PlayersKept(sv, sx)
  <2>1. ASSUME NEW p \in PlayerId, sv.seats[p].presence = "online"
        PROVE  sv.seats[p].roomCode # NoSeat.roomCode
    <3>1. sv.seats[p] \in Seat
      BY <2>1 DEF Sound, Server, NoSeat
    <3> QED BY <3>1, SessionNullsAreNew DEF Seat, NoSeat
  <2>2. \A p \in PlayerId : sx.seats[p] \in {sv.seats[p], NoSeat}
    BY DEF Swept
  <2> QED BY <2>1, <2>2 DEF PlayersKept
<1> QED BY <1>1, <1>2 DEF Good

\* So the cleanup interval is a good step.
LEMMA CleanupStep ==
  ASSUME SessionConstants, IInv, Cleanup
  PROVE  Good(server, server', wall)
<1>1. server' = RemoveInactiveRooms(server, wall) /\ Sound(server)
  BY DEF Cleanup, Becomes, IInv
<1>2. Swept(server, server', wall)
  BY <1>1, SweepSwept
<1> QED BY <1>1, <1>2, SweptGood DEF Swept

\* A new room for a screen, which may have one that it knows of or not.
LEMMA HostNewGood ==
  ASSUME SessionConstants, IInv, NEW s \in Live(server), NEW sw, Swept(server, sw, wall),
         HasSpace(sw), HostNewRoom(sw, s),
         Data(s).roomCode = NoCode \/ Data(s).role = "host"
  PROVE  Good(server, server', wall)
<1>1. Sound(server) /\ wall \in Nat /\ Sound(sw) /\ s \in Live(sw)
  BY DEF IInv, Swept
<1>2. PICK c \in FreeCodes(sw) : server' = AttachHost(CreateRoom(sw, c, wall), c, s, wall)
  BY DEF HostNewRoom, Becomes
<1> DEFINE sx == CreateRoom(sw, c, wall)
<1>3. c \in Code \ OpenRooms(sw)
  BY <1>2 DEF FreeCodes
<1>4. /\ Sound(sx) /\ c \in OpenRooms(sx) /\ OpenRooms(sw) \subseteq OpenRooms(sx)
      /\ sx.sockets = sw.sockets /\ sx.seats = sw.seats
  BY <1>1, <1>3, CreateSound
<1> HIDE DEF sx
<1>5. s \in Live(sx) /\ s \in Socket
  BY <1>1, <1>4 DEF Live
<1>6. MayAttach(sx, s)
  <2>1. sx.sockets[s].data \in {Data(s), NoIdentity}
    BY <1>4, <1>5 DEF Swept, Data
  <2>2. NoIdentity.roomCode = NoCode
    BY DEF NoIdentity
  <2> QED BY <2>1, <2>2 DEF MayAttach
<1>7. server' = AttachHost(sx, c, s, wall)
  BY <1>2 DEF sx
<1>8. Sound(server')
  BY <1>1, <1>4, <1>5, <1>6, <1>7, AttachSound
<1>9. Attached(sx, c, s, server')
  BY <1>1, <1>4, <1>5, <1>7, AttachEffect DEF Sound
<1>10. OpenRooms(sw) \subseteq OpenRooms(server') /\ server'.seats = sw.seats
  BY <1>4, <1>9 DEF Attached, OpenRooms
<1> QED BY <1>1, <1>8, <1>10, SweptGood

\* Swept of the touched server is swept of the server.
LEMMA ReceivedSwept ==
  ASSUME SessionConstants, IInv, NEW s \in Socket, NEW sw, sw = RemoveInactiveRooms(Received(s), wall)
  PROVE  Swept(server, sw, wall)
<1> DEFINE received == Received(s)
<1>1. /\ Sound(received) /\ OpenRooms(received) = OpenRooms(server) /\ Live(received) = Live(server)
      /\ received.seats = server.seats /\ received.sockets = server.sockets
      /\ \A c \in Code : received.rooms[c].expiresAt = server.rooms[c].expiresAt
  BY ReceivedSound
<1> HIDE DEF received
<1>2. Swept(received, sw, wall)
  BY <1>1, SweepSwept DEF received
<1>3. \A c \in Code : Online(received, c) = Online(server, c)
  BY <1>1 DEF Online, Roster
<1>4. \A c \in Code : Expired(received.rooms[c], wall) <=> Expired(server.rooms[c], wall)
  BY <1>1 DEF Expired
<1>5. RoomsKept(server, sw, wall)
  BY <1>1, <1>2, <1>3, <1>4 DEF Swept, RoomsKept, OpenRooms
<1>6. \A c \in OpenRooms(sw) : Online(sw, c) = Online(server, c)
  BY <1>2, <1>3 DEF Swept, OpenRooms
<1> QED BY <1>1, <1>2, <1>5, <1>6 DEF Swept

\* A new room has nobody in it and a code nobody has.
LEMMA CreateNewStep ==
  ASSUME SessionConstants, IInv, NEW s \in Live(server), CreateNewRoom(s),
         Data(s).roomCode = NoCode \/ Data(s).role = "host"
  PROVE  Good(server, server', wall)
<1> DEFINE swept == RemoveInactiveRooms(Received(s), wall)
<1>1. Swept(server, swept, wall) /\ Sound(server) /\ Sound(swept)
  BY ReceivedSwept DEF Live, IInv, Swept
<1>2. CASE HasSpace(swept)
  <2>1. HostNewRoom(swept, s)
    BY <1>2 DEF CreateNewRoom
  <2> HIDE DEF swept
  <2> QED BY <1>1, <1>2, <2>1, HostNewGood
<1>3. CASE ~HasSpace(swept) /\ Evictable(swept) = {}
  <2>1. server' = swept
    BY <1>3 DEF CreateNewRoom, Becomes
  <2> HIDE DEF swept
  <2> QED BY <1>1, <2>1, SweptGood
<1>4. CASE ~HasSpace(swept) /\ Evictable(swept) # {}
  <2>1. PICK victim \in Evictable(swept) : HostNewRoom(CloseRooms(swept, {victim}), s)
    BY <1>4 DEF CreateNewRoom
  <2> DEFINE sw == CloseRooms(swept, {victim})
  <2> HIDE DEF swept
  <2>2. Swept(swept, sw, wall) /\ HasSpace(sw)
    BY <1>1, EvictSwept
  <2> HIDE DEF sw
  <2>3. \A p \in PlayerId : sw.seats[p] \in {server.seats[p], NoSeat}
    BY <1>1, <2>2 DEF Swept
  <2>4. \A t \in Socket : sw.sockets[t].data \in {server.sockets[t].data, NoIdentity}
    BY <1>1, <2>2 DEF Swept
  <2>5. RoomsKept(server, sw, wall)
    <3>1. ASSUME NEW c \in OpenRooms(server), Online(server, c) # {}, c \notin OpenRooms(sw)
          PROVE  Expired(server.rooms[c], wall)
      <4>1. CASE c \in OpenRooms(swept)
        <5>1. c = victim
          <6>1. OpenRooms(sw) = OpenRooms(swept) \ {victim}
            BY <1>1, <2>1, CloseSwept DEF sw, Evictable
          <6> QED BY <3>1, <4>1, <6>1
        <5> QED BY <1>1, <2>1, <3>1, <4>1, <5>1 DEF Evictable, Swept
      <4>2. CASE c \notin OpenRooms(swept)
        BY <1>1, <3>1, <4>2 DEF Swept, RoomsKept
      <4> QED BY <4>1, <4>2
    <3> QED BY <3>1 DEF RoomsKept
  <2>6. Swept(server, sw, wall)
    BY <1>1, <2>2, <2>3, <2>4, <2>5 DEF Swept
  <2>7. HostNewRoom(sw, s)
    BY <2>1 DEF sw
  <2> QED BY <2>2, <2>6, <2>7, HostNewGood
<1> QED BY <1>2, <1>3, <1>4

\* The screen's requests: create, attach, take back.
LEMMA RequestStep ==
  ASSUME SessionConstants, IInv, NEW s \in Socket, NEW requested \in Code \cup {NoCode},
         RequestRoom(s, requested)
  PROVE  Good(server, server', wall)
<1>1. /\ s \in Live(server) /\ MayHost(s, requested)
      /\ server \in Server /\ Sound(server) /\ wall \in Nat /\ NoCode \notin Code
      /\ IdentityFits(server, s) /\ Data(s) = server.sockets[s].data
  BY Types DEF RequestRoom, Data
<1>2. CASE requested = NoCode \/ CreateLocalPrimaryRoom(requested)
  <2>1. CreateNewRoom(s)
    BY <1>2 DEF RequestRoom
  <2>2. Data(s).roomCode = NoCode \/ Data(s).role = "host"
    BY <1>1 DEF MayHost
  <2> QED BY <1>1, <2>1, <2>2, CreateNewStep
<1>3. CASE ~(requested = NoCode \/ CreateLocalPrimaryRoom(requested)) /\ requested \in OpenRooms(server)
  <2> DEFINE received == Received(s)
  <2>1. /\ Sound(received) /\ received \in Server /\ OpenRooms(received) = OpenRooms(server)
        /\ Live(received) = Live(server)
        /\ received.seats = server.seats /\ received.sockets = server.sockets
        /\ \A c \in Code : received.rooms[c].open = server.rooms[c].open
    BY ReceivedSound
  <2>2. server' = AttachHost(received, requested, s, wall)
    BY <1>3 DEF RequestRoom, Becomes
  <2> HIDE DEF received
  <2>3. MayAttach(received, s)
    BY <1>1, <2>1 DEF MayHost, MayAttach
  <2>4. Sound(server')
    BY <1>1, <1>3, <2>1, <2>2, <2>3, AttachSound
  <2>5. Attached(received, requested, s, server')
    BY <1>1, <1>3, <2>1, <2>2, AttachEffect
  <2>6. server'.seats = server.seats /\ \A c \in Code : server'.rooms[c].open = server.rooms[c].open
    BY <2>1, <2>5 DEF Attached
  <2> QED BY <1>1, <2>4, <2>6, NothingLost
<1>4. CASE ~(requested = NoCode \/ CreateLocalPrimaryRoom(requested)) /\ requested \notin OpenRooms(server)
  <2>1. server' = Received(s)
    BY <1>4 DEF RequestRoom, Becomes
  <2>2. /\ Sound(server') /\ server'.seats = server.seats
        /\ \A c \in Code : server'.rooms[c].open = server.rooms[c].open
    BY <2>1, ReceivedSound
  <2> QED BY <1>1, <2>2, NothingLost
<1> QED BY <1>2, <1>3, <1>4

\* The server begins sound.
LEMMA SessionsInit ==
  ASSUME SessionConstants, Init
  PROVE  IInv
<1>1. /\ server.rooms = [c \in Code |-> NoRoom] /\ server.seats = [p \in PlayerId |-> NoSeat]
      /\ server.sessions = [p \in PlayerId |-> NoSession]
      /\ server.sockets = [s \in Socket |-> NewSocket] /\ server = NewServer
  BY DEF Init, NewServer
<1>2. NewSocket \in SocketEntry
  BY DEF NewSocket, SocketEntry, NoIdentity, Identity
<1>3. server \in Server
  BY <1>1, <1>2 DEF Server, NewServer
<1>4. \A s \in Socket : IdentityFits(server, s)
  BY <1>1 DEF IdentityFits, NewSocket, NoIdentity
<1>5. \A p \in PlayerId : SeatFits(server, p)
  BY <1>1 DEF SeatFits, NoSeat, NoSession
<1>6. \A c \in Code : HostFits(server, c)
  BY <1>1 DEF HostFits, NoRoom
<1>7. DevicesApart(server)
  BY <1>1 DEF DevicesApart
<1>8. OpenRooms(server) = {}
  BY <1>1 DEF OpenRooms, NoRoom
<1>9. Cardinality(OpenRooms(server)) <= MaxRooms
  BY <1>8, FS_EmptySet, CleanupFits
<1> QED BY <1>3, <1>4, <1>5, <1>6, <1>7, <1>9 DEF Init, IInv, Sound

\* Every step keeps the tables sound, rooms with somebody online and players online.
LEMMA SessionsStep ==
  ASSUME SessionConstants, IInv, Next
  PROVE  IInv' /\ (Good(server, server', wall) \/ server' = server)
<1>1. CASE TimePasses
  BY <1>1 DEF TimePasses, IInv
<1>2. CASE GraceTimer \/ Cleanup \/ \E s \in Socket : SocketStep(s)
  <2>1. Good(server, server', wall) /\ wall' = wall
    <3>1. CASE GraceTimer
      BY <3>1, GraceStep DEF GraceTimer, Becomes
    <3>2. CASE Cleanup
      BY <3>2, CleanupStep DEF Cleanup, Becomes
    <3>3. ASSUME NEW s \in Socket, SocketStep(s) PROVE Good(server, server', wall)
      BY <3>3, ConnectStep, RecoverStep, DisconnectStep, RequestStep, ExtendStep, JoinStep,
         ResumeStep, LeaveStep, KickStep, OtherEventStep DEF SocketStep
    <3>4. ASSUME NEW s \in Socket, SocketStep(s) PROVE wall' = wall
      BY <3>4 DEF SocketStep, Connect, Recover, Disconnect, RequestRoom, CreateNewRoom, HostNewRoom,
         ExtendLifetime, JoinRoom, ResumeSession, LeaveRoom, Kick, OtherEvent, Becomes
    <3> QED BY <1>2, <3>1, <3>2, <3>3, <3>4
  <2> QED BY <2>1 DEF IInv, Good
<1> QED BY <1>1, <1>2 DEF Next

\* The invariant holds in every reachable state.
LEMMA SessionsInvariant ==
  ASSUME SessionConstants
  PROVE  Spec => []IInv
<1>1. SessionConstants /\ Init => IInv
  BY SessionsInit
<1>2. SessionConstants /\ IInv /\ [Next]_vars => IInv'
  <2>1. ASSUME IInv, UNCHANGED vars PROVE IInv'
    BY <2>1 DEF vars, IInv
  <2> QED BY <2>1, SessionsStep
<1> QED BY <1>1, <1>2, PTL DEF Spec

-----------------------------------------------------------------------------
(* The theorems.                                                           *)

\* The tables keep their shape; a player has a socket exactly while online and a grace window
\* exactly while reconnecting.
THEOREM SessionTypes ==
  ASSUME SessionConstants
  PROVE  Spec => []TypeOK
<1>1. IInv => TypeOK
  BY DEF IInv, Sound, SeatFits, TypeOK
<1> QED BY SessionsInvariant, <1>1, PTL

\* Sessions and players of open rooms correspond one to one, through leaving, kicks and
\* closed rooms (reconnectService.ts, playerManager.ts).
THEOREM SessionsAlwaysResume ==
  ASSUME SessionConstants
  PROVE  Spec => []SessionsResume
<1>1. ASSUME IInv PROVE SessionsResume
  <2>1. \A p \in PlayerId : server.seats[p] # NoSeat => server.seats[p].roomCode \in Code
    BY <1>1 DEF IInv, Sound, Server, Seat
  <2> QED BY <1>1, <2>1 DEF IInv, Sound, SeatFits, SessionsResume, OpenRooms
<1> QED BY SessionsInvariant, <1>1, PTL

\* Whoever is shown online is on a live socket of the room that knows the player.
THEOREM OnlineIsReachable ==
  ASSUME SessionConstants
  PROVE  Spec => []OnlineMeansReachable
<1>1. ASSUME IInv PROVE OnlineMeansReachable
  <2> SUFFICES ASSUME NEW p \in PlayerId, server.seats[p].presence = "online"
               PROVE  /\ server.seats[p].socketId \in Socket
                      /\ ~server.sockets[server.seats[p].socketId].roamed =>
                           /\ server.seats[p].socketId \in Live(server)
                           /\ Data(server.seats[p].socketId) =
                                [role |-> "controller", roomCode |-> server.seats[p].roomCode,
                                 playerId |-> p]
                           /\ server.seats[p].roomCode \in
                                server.sockets[server.seats[p].socketId].joined
    BY DEF OnlineMeansReachable
  <2>1. SeatFits(server, p) /\ server \in Server
    BY <1>1 DEF IInv, Sound
  <2>2. server.seats[p].socketId \in Socket
    BY <2>1 DEF SeatFits, Server, Seat, NoSeat
  <2> QED BY <2>1, <2>2 DEF SeatFits, Live, Data
<1> QED BY SessionsInvariant, <1>1, PTL

\* A room that counts on a screen has a live one that knows the room.
THEOREM HostIsLive ==
  ASSUME SessionConstants
  PROVE  Spec => []HostSocketIsLive
<1>1. ASSUME IInv PROVE HostSocketIsLive
  <2>1. ASSUME NEW c \in Code
        PROVE  HostFits(server, c) /\ server.rooms[c].hostSocketId \in Socket \cup {NoSocket}
    BY <1>1, HostSocketType DEF IInv, Sound
  <2> QED BY <2>1 DEF HostSocketIsLive, HostFits, OpenRooms, Live, Data
<1> QED BY SessionsInvariant, <1>1, PTL

\* There are never more rooms than the server may hold.
THEOREM RoomsAreLimited ==
  ASSUME SessionConstants
  PROVE  Spec => []RoomLimit
<1>1. IInv => RoomLimit
  BY DEF IInv, Sound, RoomLimit
<1> QED BY SessionsInvariant, <1>1, PTL

\* No room is closed under a player who is online, except for its lifetime
\* (roomCleanupService.ts).
THEOREM ActiveRoomsStay ==
  ASSUME SessionConstants
  PROVE  Spec => ActiveRoomStays
<1>1. SessionConstants /\ IInv /\ [Next]_vars =>
        [\A c \in OpenRooms(server) :
           Online(server, c) # {} /\ c \notin OpenRooms(server') => Expired(server.rooms[c], wall)]_vars
  <2>1. ASSUME SessionConstants, IInv, Next
        PROVE  \A c \in OpenRooms(server) :
                 Online(server, c) # {} /\ c \notin OpenRooms(server') => Expired(server.rooms[c], wall)
    BY <2>1, SessionsStep DEF Good, RoomsKept
  <2> QED BY <2>1
<1> QED BY SessionsInvariant, <1>1, PTL DEF Spec, ActiveRoomStays

\* No late disconnect of an older socket and no grace window of an earlier absence takes a
\* player offline whose socket is connected.
THEOREM ReachableStay ==
  ASSUME SessionConstants
  PROVE  Spec => ReachableStaysOnline
<1>1. SessionConstants /\ IInv /\ [Next]_vars =>
        [\A p \in PlayerId : LET seat == server.seats[p] IN
           seat.presence = "online" /\ seat.socketId \in Live(server')
             => server'.seats[p].presence = "online" \/ server'.seats[p].roomCode # seat.roomCode]_vars
  <2>1. ASSUME SessionConstants, IInv, Next
        PROVE  \A p \in PlayerId : LET seat == server.seats[p] IN
                 seat.presence = "online" /\ seat.socketId \in Live(server')
                   => server'.seats[p].presence = "online" \/ server'.seats[p].roomCode # seat.roomCode
    BY <2>1, SessionsStep DEF Good, PlayersKept
  <2> QED BY <2>1
<1> QED BY SessionsInvariant, <1>1, PTL DEF Spec, ReachableStaysOnline
=============================================================================
