---------------------------- MODULE PhoneSession ----------------------------
(***************************************************************************)
(* One phone and the room it plays in: controllerSocketClient.ts with what *)
(* it stores (deviceSession.ts) and which page it shows                    *)
(* (controllerBootstrap.tsx), the server's handlers of room:join,          *)
(* session:resume, room:leave and player:kick, and the connections between *)
(* the two.                                                                *)
(*                                                                         *)
(* A connection is FIFO in both directions.  When it is lost, the phone    *)
(* knows before the server does; what was on its way to the server may     *)
(* still be handled until the phone's next connection is accepted.  With   *)
(* connection state recovery the phone may get its old connection back,    *)
(* with the events it missed but without acknowledgements.                 *)
(*                                                                         *)
(* A seat is a player of the room; its number stands for the player's id   *)
(* and for the reconnect token made with it, 0 for none.                   *)
(***************************************************************************)
EXTENDS Integers, Sequences

CONSTANTS MaxSeats, MaxDevices, MaxRounds, MaxLosses, MaxTimeouts, MaxAsked, MaxLine \* bounds

ASSUME SessionBoundsFit ==
  {MaxSeats, MaxDevices, MaxRounds, MaxLosses, MaxTimeouts, MaxAsked, MaxLine} \subseteq Nat

Number == 1..MaxSeats
NoSeat == [device |-> 0, socket |-> 0]

\* The phone: localStorage (stored, device), the flags of the client (ended is
\* sessionTerminated, leaving sessionTerminationPending) and the state its pages
\* show.  awaiting is the resume whose acknowledgement would still be taken.
Phone ==
  [stored : Nat, device : Nat, ended : BOOLEAN, leaving : BOOLEAN, resuming : BOOLEAN,
   retry : BOOLEAN, awaiting : Nat, connected : BOOLEAN, player : Nat, shown : Nat]

NewPhone(stored, device) ==
  [stored |-> stored, device |-> device, ended |-> FALSE, leaving |-> FALSE, resuming |-> FALSE,
   retry |-> FALSE, awaiting |-> 0, connected |-> FALSE, player |-> 0, shown |-> 0]

Events == {"room", "resumed", "terminated", "closed"}
Acks   == {"joined", "resume-ok", "resume-error", "left", "leave-error", "profile-ok", "error"}

VARIABLES
  phone,
  linked,      \* the phone's socket is connected
  conn,        \* number of the phone's connection, the last one when it has none
  alive,       \* connections the server takes to be alive
  recoverable, \* the server may give the phone its last connection back
  up, down,    \* on their way to the server and to the phone
  open,        \* the room exists
  round,       \* rounds started and ended in the room: one is running when odd
  seats,       \* the players of the room: device id and socket
  made,        \* seats made so far
  who,         \* socket.data.playerId of connection conn, which is in the room then
  devices,     \* device ids made so far
  refused,     \* history: the server refused a leave on this connection
  losses, timeouts

client   == <<phone, linked, conn, devices, refused, losses, timeouts>>
roomVars == <<open, round, seats, made>>
vars    == <<client, alive, recoverable, up, down, roomVars, who>>

Init ==
  /\ phone = NewPhone(0, 0)
  /\ linked = FALSE /\ conn = 0 /\ alive = {} /\ recoverable = FALSE
  /\ up = <<>> /\ down = <<>>
  /\ open = TRUE /\ round = 0
  /\ seats = [k \in Number |-> NoSeat] /\ made = 0 /\ who = 0
  /\ devices = 0
  /\ refused = FALSE
  /\ losses = 0 /\ timeouts = 0

Running == round % 2 = 1

-----------------------------------------------------------------------------
(* The client's own transitions.                                           *)

\* getOrCreateDeviceId: the device id, made when there is none.
DeviceOf(p) == IF p.device = 0 THEN devices + 1 ELSE p.device

Request(kind, p) == [kind |-> kind, seat |-> p.stored, device |-> DeviceOf(p), ask |-> p.awaiting]

\* The disconnect handler; the acknowledgements of the connection are given up.
Disconnected(p) ==
  [p EXCEPT !.resuming = FALSE, !.retry = FALSE, !.awaiting = 0, !.connected = FALSE]

\* Mutant: the retry timer is not cleared.
ClearedWithRetry(p) ==
  [p EXCEPT !.ended = TRUE, !.leaving = FALSE, !.resuming = FALSE,
            !.stored = 0, !.player = 0, !.device = devices + 1]

\* clearStoredSession with rotateDeviceId.
Cleared(p) ==
  [p EXCEPT !.ended = TRUE, !.leaving = FALSE, !.resuming = FALSE, !.retry = FALSE,
            !.stored = 0, !.player = 0, !.device = devices + 1]

\* Mutant: the new device id is used and not written down.
EndSessionForgetting ==
  /\ phone' = Disconnected(Cleared(phone))
  /\ devices' = devices
  /\ linked' = FALSE
  /\ recoverable' = FALSE
  /\ down' = <<>>

\* The same with its disconnect(); connect() follows by itself.
EndSession ==
  /\ phone' = Disconnected(Cleared(phone))
  /\ devices' = devices + 1
  /\ linked' = FALSE
  /\ recoverable' = FALSE
  /\ down' = <<>>

\* resumeSession on a live connection, as request number n.
Resuming(p, n) == [p EXCEPT !.ended = FALSE, !.leaving = FALSE, !.resuming = TRUE,
                            !.retry = FALSE, !.awaiting = n]

\* persistSession, and the room and player of an answer.
Seated(p, message) ==
  [p EXCEPT !.stored = message.seat, !.player = message.seat, !.connected = TRUE,
            !.shown = message.round]

-----------------------------------------------------------------------------
(* Connections.                                                            *)

\* A new connection, or the old one recovered; the phone resumes what it has stored.
Connect ==
  /\ ~linked
  /\ \E recovered \in BOOLEAN :
       /\ recovered => recoverable /\ conn \notin alive
       /\ conn' = IF recovered THEN conn ELSE conn + 1
       /\ alive' = alive \cup {conn'}
       /\ who' = IF recovered THEN who ELSE 0
       /\ down' = IF recovered THEN down ELSE <<>>
  /\ linked' = TRUE
  /\ recoverable' = FALSE
  /\ LET fresh   == [phone EXCEPT !.connected = phone.stored = 0]
         resumes == phone.stored # 0 /\ ~phone.ended /\ ~phone.leaving
     IN /\ phone' = IF resumes THEN Resuming(fresh, losses + timeouts + 1) ELSE fresh
        /\ up' = IF resumes THEN <<Request("resume", phone')>> ELSE <<>>
  /\ refused' = FALSE
  /\ UNCHANGED <<devices, losses, timeouts, roomVars>>

\* The events among the messages are kept in their order; the acknowledgements are lost.
OnlyEventsStay ==
  \E n \in 0..Len(down) : \E at \in [1..n -> 1..Len(down)] :
     /\ \A i, j \in 1..n : i < j => at[i] < at[j]
     /\ {at[i] : i \in 1..n} = {i \in 1..Len(down) : down[i].kind \in Events}
     /\ down' = [i \in 1..n |-> down[at[i]]]

\* The connection breaks, or the page is reloaded, which forgets all but localStorage.
LoseConnection(reload) ==
  /\ linked /\ losses < MaxLosses
  /\ losses' = losses + 1
  /\ linked' = FALSE
  /\ recoverable' = (~reload /\ conn \in alive)
  /\ OnlyEventsStay
  /\ phone' = IF reload THEN NewPhone(phone.stored, phone.device) ELSE Disconnected(phone)
  /\ UNCHANGED <<conn, devices, refused, timeouts, alive, up, roomVars, who>>

\* Mutant: the player is looked up by what the socket was, not by the socket.
NoticeLossOfPlayer(c) ==
  /\ c \in alive /\ ~(linked /\ c = conn)
  /\ alive' = alive \ {c}
  /\ seats' = [k \in Number |-> IF seats[k] # NoSeat THEN [seats[k] EXCEPT !.socket = 0] ELSE NoSeat]
  /\ up' = IF c = conn THEN <<>> ELSE up
  /\ UNCHANGED <<client, recoverable, down, open, round, made, who>>

\* The server's disconnect handler, for a connection that is no more.
NoticeLoss(c) ==
  /\ c \in alive /\ ~(linked /\ c = conn)
  /\ alive' = alive \ {c}
  /\ seats' = [k \in Number |-> IF seats[k].socket = c THEN [seats[k] EXCEPT !.socket = 0]
                                                         ELSE seats[k]]
  /\ up' = IF c = conn THEN <<>> ELSE up
  /\ UNCHANGED <<client, recoverable, down, open, round, made, who>>

\* What the server sends, the acknowledgement first: nobody but a recovered connection gets
\* the events later.
Tell(answer, events) ==
  /\ down' = IF linked THEN down \o answer \o events
             ELSE IF recoverable THEN down \o events
             ELSE down
  /\ Len(down') <= MaxLine

Say(kind, seat, ask) == [kind |-> kind, seat |-> seat, round |-> round, ask |-> ask]

-----------------------------------------------------------------------------
(* What the phone does by itself or at its player's wish.                  *)

\* A request on the live connection.
Ask(kind, p) ==
  /\ up' = Append(up, Request(kind, p))
  /\ Len(up') <= MaxAsked

\* joinRoom, from the join page; its submit button needs a connection.
Join ==
  /\ linked /\ phone.connected /\ phone.player = 0 /\ phone.stored = 0
  /\ DeviceOf(phone) < MaxDevices
  /\ LET asking == [phone EXCEPT !.ended = FALSE, !.leaving = FALSE]
     IN /\ Ask("join", asking)
        /\ phone' = [asking EXCEPT !.device = DeviceOf(phone)]
  /\ devices' = IF phone.device = 0 THEN devices + 1 ELSE devices
  /\ UNCHANGED <<linked, conn, refused, losses, timeouts, alive, recoverable, down, roomVars, who>>

\* leaveRoom; the pages of a room are disabled without a connection.
Leave ==
  /\ linked /\ phone.connected /\ phone.player # 0
  /\ Ask("leave", phone)
  /\ phone' = [phone EXCEPT !.leaving = TRUE]
  /\ UNCHANGED <<linked, conn, devices, refused, losses, timeouts, alive, recoverable, down, roomVars, who>>

\* setProfile, of the requests with an answer the one that stores the session again.
SetProfile ==
  /\ linked /\ phone.connected /\ phone.player # 0
  /\ Ask("profile", phone)
  /\ UNCHANGED <<client, alive, recoverable, down, roomVars, who>>

\* "Discard" on the reconnect page.
Discard ==
  /\ phone.player = 0 /\ phone.stored # 0
  /\ EndSession
  /\ UNCHANGED <<conn, refused, losses, timeouts, alive, up, roomVars, who>>

\* Mutant: an unanswered resume is not asked again.
ResumeTimesOutForGood ==
  /\ linked /\ phone.awaiting # 0 /\ timeouts < MaxTimeouts
  /\ timeouts' = timeouts + 1
  /\ phone' = [phone EXCEPT !.awaiting = 0, !.resuming = FALSE, !.connected = FALSE]
  /\ UNCHANGED <<linked, conn, devices, refused, losses, alive, recoverable, up, down, roomVars, who>>

\* No answer to session:resume for eight seconds; it is asked again in two.
ResumeTimesOut ==
  /\ linked /\ phone.awaiting # 0 /\ timeouts < MaxTimeouts
  /\ timeouts' = timeouts + 1
  /\ phone' = IF phone.ended \/ phone.leaving THEN [phone EXCEPT !.awaiting = 0]
              ELSE [phone EXCEPT !.awaiting = 0, !.resuming = FALSE, !.connected = FALSE, !.retry = TRUE]
  /\ UNCHANGED <<linked, conn, devices, refused, losses, alive, recoverable, up, down, roomVars, who>>

\* The retry timer; a resume or a leave under way comes first.
Retry ==
  /\ phone.retry
  /\ IF phone.resuming \/ phone.leaving \/ phone.stored = 0
     THEN phone' = [phone EXCEPT !.retry = FALSE] /\ up' = up
     ELSE /\ phone' = Resuming(phone, losses + timeouts + 1)
          /\ Ask("resume", phone')
  /\ UNCHANGED <<linked, conn, devices, refused, losses, timeouts, alive, recoverable, down, roomVars, who>>

-----------------------------------------------------------------------------
(* What the phone is told.                                                 *)

\* A session that has ended, or is about to, takes no news of the room.
Ignoring == phone.ended \/ phone.leaving

ReceivedRoom(m) ==
  phone' = IF Ignoring THEN phone
           ELSE [phone EXCEPT !.shown = m.round,
                              !.player = IF @ = 0 THEN phone.stored ELSE @]

ReceivedJoined(m) == phone' = Seated(phone, m)

\* The acknowledgement of a resume counts while it is awaited.
ReceivedResumeAck(m) ==
  phone' = IF phone.awaiting # m.ask THEN phone
           ELSE IF Ignoring THEN [phone EXCEPT !.awaiting = 0]
           ELSE IF m.kind = "resume-ok" THEN [Seated(phone, m) EXCEPT !.awaiting = 0, !.resuming = FALSE]
           ELSE [phone EXCEPT !.awaiting = 0, !.resuming = FALSE, !.ended = TRUE, !.stored = 0,
                              !.device = 0, !.player = 0, !.connected = TRUE]

ReceivedResumed(m) == phone' = IF Ignoring THEN phone ELSE Seated(phone, m)

ReceivedLeaveError == phone' = [phone EXCEPT !.leaving = FALSE]

ReceivedProfile(m) ==
  phone' = [phone EXCEPT !.stored = m.seat, !.player = m.seat, !.shown = m.round]

\* room:closed keeps the connection.
ReceivedClosed ==
  /\ phone' = Cleared(phone)
  /\ devices' = devices + 1

Keep(m) ==
  CASE m.kind = "room"                           -> ReceivedRoom(m)
    [] m.kind = "joined"                         -> ReceivedJoined(m)
    [] m.kind \in {"resume-ok", "resume-error"}  -> ReceivedResumeAck(m)
    [] m.kind = "resumed"                        -> ReceivedResumed(m)
    [] m.kind = "leave-error"                    -> ReceivedLeaveError
    [] m.kind = "profile-ok"                     -> ReceivedProfile(m)
    [] OTHER                                     -> phone' = phone

\* left and terminated: clearStoredSession with its disconnect().
Receive ==
  /\ linked /\ down # <<>>
  /\ LET m == Head(down)
     IN /\ refused' = (refused \/ m.kind = "leave-error")
        /\ CASE m.kind \in {"left", "terminated"} -> EndSession
             [] m.kind = "closed" ->
                  ReceivedClosed /\ down' = Tail(down) /\ UNCHANGED <<linked, recoverable>>
             [] OTHER ->
                  Keep(m) /\ down' = Tail(down) /\ UNCHANGED <<linked, recoverable, devices>>
  /\ UNCHANGED <<conn, losses, timeouts, alive, up, roomVars, who>>

-----------------------------------------------------------------------------
(* The server.                                                             *)

\* The seat of a device, if any.
SeatsOf(device) == {k \in Number : seats[k] # NoSeat /\ seats[k].device = device}

\* joinPlayer: the device's own seat, or a new one.
JoinedSeat(device) == IF SeatsOf(device) # {} THEN CHOOSE k \in SeatsOf(device) : TRUE ELSE made + 1

Take(k, device) ==
  /\ k \in Number
  /\ seats' = [seats EXCEPT ![k] = [device |-> device, socket |-> conn]]
  /\ who' = k

\* Mutant: every join makes a player.
HandleJoinAnew(m) ==
  IF ~open THEN Tell(<<Say("error", 0, 0)>>, <<>>) /\ UNCHANGED <<seats, made, who>>
  ELSE /\ Take(made + 1, m.device)
       /\ made' = made + 1
       /\ Tell(<<Say("joined", made + 1, 0)>>, <<Say("room", 0, 0)>>)

HandleJoin(m) ==
  IF ~open THEN Tell(<<Say("error", 0, 0)>>, <<>>) /\ UNCHANGED <<seats, made, who>>
  ELSE LET k == JoinedSeat(m.device)
       IN /\ Take(k, m.device)
          /\ made' = IF k > made THEN k ELSE made
          /\ Tell(<<Say("joined", k, 0)>>, <<Say("room", 0, 0)>>)

\* resumePlayer: the token's player, from the same device.
HandleResume(m) ==
  IF open /\ m.seat \in SeatsOf(m.device)
  THEN /\ Take(m.seat, m.device)
       /\ made' = made
       /\ Tell(<<Say("resume-ok", m.seat, m.ask)>>, <<Say("resumed", m.seat, 0), Say("room", 0, 0)>>)
  ELSE Tell(<<Say("resume-error", 0, m.ask)>>, <<>>) /\ UNCHANGED <<seats, made, who>>

\* The player of the phone's connection is in the room.
Present == who \in Number /\ seats[who] # NoSeat

\* clearSocketIdentity and disconnect(true), after a farewell.
Sever(farewell) ==
  /\ alive' = alive \ {conn}
  /\ who' = 0
  /\ recoverable' = FALSE
  /\ down' = IF linked THEN down \o farewell ELSE <<>>
  /\ Len(down') <= MaxLine

\* Players leave and are kicked while no round is running.
HandleLeave ==
  IF open /\ Present /\ ~Running
  THEN /\ seats' = [seats EXCEPT ![who] = NoSeat]
       /\ Sever(<<Say("left", 0, 0), Say("terminated", 0, 0)>>)
  ELSE /\ Tell(<<Say("leave-error", 0, 0)>>, <<>>)
       /\ UNCHANGED <<seats, who, alive, recoverable>>

HandleProfile(m) ==
  /\ IF open /\ Present /\ who = m.seat /\ seats[who].socket = conn /\ ~Running
     THEN Tell(<<Say("profile-ok", who, 0)>>, <<Say("room", 0, 0)>>)
     ELSE Tell(<<Say("error", 0, 0)>>, <<>>)
  /\ UNCHANGED <<seats, who>>

Handle ==
  /\ conn \in alive /\ up # <<>>
  /\ up' = Tail(up)
  /\ LET m == Head(up)
     IN CASE m.kind = "join"    -> HandleJoin(m) /\ UNCHANGED <<alive, recoverable>>
          [] m.kind = "resume"  -> HandleResume(m) /\ UNCHANGED <<alive, recoverable>>
          [] m.kind = "leave"   -> HandleLeave /\ made' = made
          [] m.kind = "profile" -> HandleProfile(m) /\ UNCHANGED <<made, alive, recoverable>>
  /\ UNCHANGED <<client, open, round>>

\* player:kick by the host; a player with another socket just loses that one.
Kick(k) ==
  /\ open /\ ~Running /\ seats[k] # NoSeat
  /\ seats' = [seats EXCEPT ![k] = NoSeat]
  /\ IF seats[k].socket = conn /\ conn \in alive
     THEN Sever(<<Say("terminated", 0, 0)>>)
     ELSE /\ alive' = alive \ {seats[k].socket}
          /\ UNCHANGED <<who, recoverable, down>>
  /\ UNCHANGED <<client, up, open, round, made>>

\* closeRoom: the room's players and sessions go with it.
CloseRoom ==
  /\ open
  /\ open' = FALSE
  /\ seats' = [k \in Number |-> NoSeat]
  /\ IF who # 0 THEN Tell(<<>>, <<Say("closed", 0, 0)>>) ELSE UNCHANGED down
  /\ who' = IF conn \in alive THEN 0 ELSE who
  /\ UNCHANGED <<client, alive, recoverable, up, round, made>>

\* Mutant: the snapshot is made before the round is.
NextRoundToldBefore ==
  /\ open /\ round < MaxRounds
  /\ round' = round + 1
  /\ IF who # 0 THEN Tell(<<>>, <<Say("room", 0, 0)>>) ELSE UNCHANGED down
  /\ UNCHANGED <<client, alive, recoverable, up, open, seats, made, who>>

\* A round starts or ends, and the room hears of it.
NextRound ==
  /\ open /\ round < MaxRounds
  /\ round' = round + 1
  /\ IF who # 0 THEN Tell(<<>>, <<[Say("room", 0, 0) EXCEPT !.round = round + 1]>>) ELSE UNCHANGED down
  /\ UNCHANGED <<client, alive, recoverable, up, open, seats, made, who>>

-----------------------------------------------------------------------------
PlayerStep == Join \/ Leave \/ SetProfile \/ Discard
PhoneStep  == Connect \/ ResumeTimesOut \/ Retry \/ Receive
ServerStep == Handle \/ (\E c \in alive : NoticeLoss(c)) \/ (\E k \in Number : Kick(k))
              \/ CloseRoom \/ NextRound
Fault      == \E reload \in BOOLEAN : LoseConnection(reload)

Next == PlayerStep \/ PhoneStep \/ ServerStep \/ Fault

Spec == Init /\ [][Next]_vars

\* Socket.IO reconnects for ever and delivers on a connection that holds, the
\* server handles what it gets, timers fire.
FairSpec == /\ Spec
            /\ WF_vars(Connect) /\ WF_vars(Retry) /\ WF_vars(Receive) /\ WF_vars(Handle)

-----------------------------------------------------------------------------
(* Properties.                                                             *)

TypeOK ==
  /\ phone \in Phone /\ phone.device <= devices /\ phone.stored <= made
  /\ linked \in BOOLEAN /\ recoverable \in BOOLEAN /\ open \in BOOLEAN /\ refused \in BOOLEAN
  /\ {conn, round, made, who, devices, losses, timeouts} \subseteq Nat
  /\ who \in Number \cup {0} /\ made \in Number \cup {0}
  /\ alive \subseteq 1..conn
  /\ up \in Seq([kind : {"join", "resume", "leave", "profile"}, seat : Nat, device : Nat, ask : Nat])
  /\ down \in Seq([kind : Events \cup Acks, seat : Nat, round : Nat, ask : Nat])
  /\ seats \in [Number -> [device : Nat, socket : Nat]]

\* A session the phone has ended stays ended: no acknowledgement, event or retry that
\* was under way stores it again, whichever of leave, kick, closing and discarding
\* ended it (controllerSocketClient.ts 163, 231, 352).
EndedStaysEnded == phone.ended => phone.stored = 0 /\ phone.player = 0 /\ ~phone.retry

\* Nothing under way between the phone and the server, no retry due, and no leave
\* refused: what came while it was pending (news of the room, a refused resume) is lost
\* on the phone until it connects anew.
Settled == linked /\ conn \in alive /\ up = <<>> /\ down = <<>> /\ ~phone.retry /\ ~refused

\* When nothing is under way, a phone with its room on screen and its controls enabled
\* sits, with the device and token it has stored, on a seat that the server connects to
\* this very socket (registerSocketHandlers.ts 491-588, controllerSocketClient.ts 312-388).
SettledPhoneIsSeated ==
  Settled /\ phone.connected /\ phone.player # 0 =>
    /\ phone.player = phone.stored /\ phone.stored = who
    /\ seats[who] = [device |-> phone.device, socket |-> conn]

\* When nothing is under way, an enabled phone shows the round the server is in, through
\* losses, recovered connections and resumes (controllerSocketClient.ts 140-167, 231-251).
SettledPhoneShowsRound ==
  Settled /\ phone.connected /\ phone.player # 0 => phone.shown = round

\* However often a phone asks to join, it has one seat: a join whose answer was lost is
\* repeated with the same device id (playerManager.ts 49-66).
OneSeatPerDevice == \A j, k \in Number : j # k /\ seats[j] # NoSeat => seats[j].device # seats[k].device

\* A phone with a stored session and no leave pending gets its room back, or learns that
\* the session is over, once connections hold (docs/project-status.md 199).
SessionComesBack ==
  (phone.stored # 0 /\ ~phone.leaving) ~> (phone.connected \/ phone.stored = 0 \/ phone.leaving)

\* The same for every stored session: "Host and controller retry connections
\* automatically and restore the existing room/player session" (docs/project-status.md 199).
EverySessionComesBack == phone.stored # 0 ~> phone.connected \/ phone.stored = 0
=============================================================================
