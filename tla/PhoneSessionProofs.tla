------------------------- MODULE PhoneSessionProofs -------------------------
(***************************************************************************)
(* A device never has two seats, however often its phone asks, loses the   *)
(* answer and asks again: for every number of seats, devices, rounds,      *)
(* losses and timeouts, and any number of requests on their way.           *)
(*                                                                         *)
(* Seats are taken by joining and resuming alone, in the name of the       *)
(* device in the request.  So every request on its way has to name one,    *)
(* and the phone has to have one, or be able to make one, when it asks.    *)
(* Nothing is needed of what is on its way to the phone.                   *)
(***************************************************************************)
EXTENDS PhoneSession, TLAPS

Fields == {"stored", "device", "ended", "leaving", "resuming", "retry", "awaiting", "connected",
           "player", "shown"}

\* A phone that can name its device, or make up one.
Named(p) == DOMAIN p = Fields /\ p.device \in Nat

\* A request that names a device; nothing else of it matters.
IsRequest(m) == m.kind \in {"join", "resume", "leave", "profile"} /\ m.device \in Nat \ {0}

Requests(s) ==
  /\ s \in Seq({s[i] : i \in DOMAIN s})
  /\ \A i \in DOMAIN s : IsRequest(s[i])

\* Whoever has a seat is a device.
SeatsFit ==
  /\ seats \in [Number -> [device : Nat, socket : Nat]]
  /\ \A k \in Number : seats[k] # NoSeat => seats[k].device # 0

\* The inductive invariant.
IInv ==
  /\ Named(phone) /\ devices \in Nat /\ conn \in Nat
  /\ Requests(up)
  /\ SeatsFit /\ OneSeatPerDevice

-----------------------------------------------------------------------------
(* Requests.                                                               *)

LEMMA RequestsOf ==
  ASSUME NEW S, NEW s \in Seq(S), \A i \in DOMAIN s : IsRequest(s[i])
  PROVE  Requests(s)
  BY DEF Requests

LEMMA RequestsTail ==
  ASSUME NEW s, Requests(s), s # <<>>
  PROVE  Requests(Tail(s)) /\ IsRequest(Head(s))
<1> DEFINE S == {s[i] : i \in DOMAIN s}
<1>1. s \in Seq(S) /\ \A i \in DOMAIN s : IsRequest(s[i])
  BY DEF Requests
<1> HIDE DEF S
<1>2. Tail(s) \in Seq(S) /\ Head(s) = s[1] /\ 1 \in DOMAIN s
  BY <1>1
<1>3. ASSUME NEW i \in DOMAIN Tail(s)
      PROVE  Tail(s)[i] = s[i + 1] /\ i + 1 \in DOMAIN s
  BY <1>1
<1>4. \A i \in DOMAIN Tail(s) : IsRequest(Tail(s)[i])
  BY <1>1, <1>3
<1> QED BY <1>1, <1>2, <1>4, RequestsOf

LEMMA RequestsAppend ==
  ASSUME NEW s, Requests(s), NEW e, IsRequest(e)
  PROVE  Requests(Append(s, e))
<1> DEFINE S == {s[i] : i \in DOMAIN s} \cup {e}
<1>1. s \in Seq(S) /\ e \in S /\ \A i \in DOMAIN s : IsRequest(s[i])
  BY DEF Requests
<1> HIDE DEF S
<1>2. Append(s, e) \in Seq(S)
  BY <1>1
<1>3. ASSUME NEW i \in DOMAIN Append(s, e)
      PROVE  IsRequest(Append(s, e)[i])
  <2>1. CASE i \in DOMAIN s
    BY <1>1, <2>1
  <2>2. CASE i \notin DOMAIN s
    BY <1>1, <2>2
  <2> QED BY <2>1, <2>2
<1> QED BY <1>2, <1>3, RequestsOf

LEMMA OneRequest ==
  ASSUME NEW e, IsRequest(e)
  PROVE  Requests(<<e>>) /\ Requests(<<>>)
<1>1. <<e>> \in Seq({e}) /\ <<>> \in Seq({e})
  OBVIOUS
<1>2. \A i \in DOMAIN <<e>> : IsRequest(<<e>>[i])
  OBVIOUS
<1>3. Requests(<<e>>)
  BY <1>1, <1>2, RequestsOf
<1>4. \A i \in DOMAIN <<>> : IsRequest(<<>>[i])
  OBVIOUS
<1> QED BY <1>1, <1>3, <1>4, RequestsOf

\* A request of a phone that is named names its device.
LEMMA RequestNames ==
  ASSUME NEW p, Named(p), devices \in Nat, NEW kind \in {"join", "resume", "leave", "profile"}
  PROVE  IsRequest(Request(kind, p)) /\ DeviceOf(p) \in Nat \ {0}
  BY DEF Request, IsRequest, DeviceOf, Named
-----------------------------------------------------------------------------
(* The phone.                                                              *)

\* What a phone becomes keeps a device it can name.
LEMMA PhoneSteps ==
  ASSUME NEW p, Named(p), NEW n, NEW m, devices \in Nat, NEW b
  PROVE  /\ Named(Disconnected(p)) /\ Named(Cleared(p)) /\ Named(Resuming(p, n))
         /\ Named(Seated(p, m)) /\ Named(NewPhone(p.stored, p.device))
         /\ Named([p EXCEPT !.connected = b]) /\ Named([p EXCEPT !.leaving = b])
         /\ Named([p EXCEPT !.retry = b]) /\ Named([p EXCEPT !.awaiting = b])
<1>1. Named(Disconnected(p)) /\ Named(Cleared(p))
  BY DEF Named, Disconnected, Cleared, Fields
<1>2. Named(Resuming(p, n)) /\ Named(Seated(p, m))
  BY DEF Named, Resuming, Seated, Fields
<1>3. Named(NewPhone(p.stored, p.device))
  BY DEF Named, NewPhone, Fields
<1> QED BY <1>1, <1>2, <1>3 DEF Named, Fields

\* Ending the session makes a new device.
LEMMA EndNamed ==
  ASSUME Named(phone), devices \in Nat, EndSession
  PROVE  Named(phone') /\ devices' \in Nat
<1>1. Named(Cleared(phone))
  BY PhoneSteps
<1>2. Named(Disconnected(Cleared(phone)))
  BY <1>1, PhoneSteps
<1> QED BY <1>2 DEF EndSession, Named

\* So does every message.
LEMMA KeepNamed ==
  ASSUME Named(phone), NEW m, Keep(m)
  PROVE  Named(phone')
<1>1. CASE m.kind = "room"
  BY <1>1 DEF Keep, ReceivedRoom, Named, Fields
<1>2. CASE m.kind = "joined"
  BY <1>2 DEF Keep, ReceivedJoined, Seated, Named, Fields
<1>3. CASE m.kind \in {"resume-ok", "resume-error"}
  <2>1. ReceivedResumeAck(m)
    BY <1>3 DEF Keep
  <2>2. Named(Seated(phone, m))
    BY DEF Seated, Named, Fields
  <2>3. Named([Seated(phone, m) EXCEPT !.awaiting = 0, !.resuming = FALSE])
    BY <2>2 DEF Named, Fields
  <2>4. Named([phone EXCEPT !.awaiting = 0])
    BY DEF Named, Fields
  <2>5. Named([phone EXCEPT !.awaiting = 0, !.resuming = FALSE, !.ended = TRUE, !.stored = 0,
                            !.device = 0, !.player = 0, !.connected = TRUE])
    BY DEF Named, Fields
  <2> QED BY <2>1, <2>3, <2>4, <2>5 DEF ReceivedResumeAck
<1>4. CASE m.kind = "resumed"
  BY <1>4 DEF Keep, ReceivedResumed, Seated, Named, Fields
<1>5. CASE m.kind = "leave-error"
  BY <1>5 DEF Keep, ReceivedLeaveError, Named, Fields
<1>6. CASE m.kind = "profile-ok"
  BY <1>6 DEF Keep, ReceivedProfile, Named, Fields
<1>7. CASE m.kind \notin {"room", "joined", "resume-ok", "resume-error", "resumed", "leave-error",
                          "profile-ok"}
  BY <1>7 DEF Keep
<1> QED BY <1>1, <1>2, <1>3, <1>4, <1>5, <1>6, <1>7
-----------------------------------------------------------------------------
(* Seats.                                                                  *)

\* A seat given to a device that has no other one.
LEMMA TakeFits ==
  ASSUME SeatsFit, OneSeatPerDevice, conn \in Nat, NEW k, NEW device \in Nat \ {0},
         \A j \in SeatsOf(device) : j = k,
         Take(k, device)
  PROVE  SeatsFit' /\ OneSeatPerDevice'
<1>1. k \in Number /\ seats' = [seats EXCEPT ![k] = [device |-> device, socket |-> conn]]
  BY DEF Take
<1>2. /\ seats' \in [Number -> [device : Nat, socket : Nat]]
      /\ seats'[k].device = device
      /\ \A j \in Number : j # k => seats'[j] = seats[j]
  BY <1>1 DEF SeatsFit
<1>3. SeatsFit'
  BY <1>2 DEF SeatsFit
<1>4. ASSUME NEW i \in Number, NEW j \in Number, i # j, seats'[i] # NoSeat
      PROVE  seats'[i].device # seats'[j].device
  <2>1. CASE i = k
    <3>1. seats'[j] = seats[j] /\ j \notin SeatsOf(device)
      BY <1>2, <1>4, <2>1
    <3>2. seats[j] = NoSeat \/ seats[j].device # device
      BY <3>1 DEF SeatsOf
    <3> QED BY <1>2, <2>1, <3>1, <3>2 DEF NoSeat
  <2>2. CASE j = k
    <3>1. seats'[i] = seats[i] /\ i \notin SeatsOf(device) /\ seats[i] # NoSeat
      BY <1>2, <1>4, <2>2
    <3> QED BY <1>2, <2>2, <3>1 DEF SeatsOf
  <2>3. CASE i # k /\ j # k
    BY <1>2, <1>4, <2>3 DEF OneSeatPerDevice
  <2> QED BY <2>1, <2>2, <2>3
<1> QED BY <1>3, <1>4 DEF OneSeatPerDevice

\* A device that joins again gets the seat it has.
LEMMA JoinFits ==
  ASSUME SeatsFit, OneSeatPerDevice, conn \in Nat, NEW m, IsRequest(m), HandleJoin(m)
  PROVE  SeatsFit' /\ OneSeatPerDevice'
<1>1. CASE ~open
  BY <1>1 DEF HandleJoin, SeatsFit, OneSeatPerDevice
<1>2. CASE open
  <2> DEFINE k == JoinedSeat(m.device)
  <2>1. Take(k, m.device)
    BY <1>2 DEF HandleJoin
  <2>2. ASSUME NEW j \in SeatsOf(m.device) PROVE j = k
    <3>1. k \in SeatsOf(m.device)
      BY <2>2 DEF JoinedSeat
    <3> QED BY <2>2, <3>1 DEF SeatsOf, OneSeatPerDevice
  <2>3. m.device \in Nat \ {0}
    BY DEF IsRequest
  <2> HIDE DEF k
  <2> QED BY <2>1, <2>2, <2>3, TakeFits
<1> QED BY <1>1, <1>2

\* A token is worth the seat it was made with, for the device that has it.
LEMMA ResumeFits ==
  ASSUME SeatsFit, OneSeatPerDevice, conn \in Nat, NEW m, IsRequest(m), HandleResume(m)
  PROVE  SeatsFit' /\ OneSeatPerDevice'
<1>1. CASE ~(open /\ m.seat \in SeatsOf(m.device))
  BY <1>1 DEF HandleResume, SeatsFit, OneSeatPerDevice
<1>2. CASE open /\ m.seat \in SeatsOf(m.device)
  <2>1. Take(m.seat, m.device)
    BY <1>2 DEF HandleResume
  <2>2. \A j \in SeatsOf(m.device) : j = m.seat
    BY <1>2 DEF SeatsOf, OneSeatPerDevice
  <2> QED BY <2>1, <2>2, TakeFits DEF IsRequest
<1> QED BY <1>1, <1>2

\* A seat is given up.
LEMMA VacateFits ==
  ASSUME SeatsFit, OneSeatPerDevice, NEW k, seats' = [seats EXCEPT ![k] = NoSeat]
  PROVE  SeatsFit' /\ OneSeatPerDevice'
<1>1. NoSeat \in [device : Nat, socket : Nat]
  BY DEF NoSeat
<1>2. /\ seats' \in [Number -> [device : Nat, socket : Nat]]
      /\ \A j \in Number : seats'[j] = IF j = k THEN NoSeat ELSE seats[j]
  BY <1>1 DEF SeatsFit
<1>3. SeatsFit'
  BY <1>2 DEF SeatsFit
<1>4. ASSUME NEW i \in Number, NEW j \in Number, i # j, seats'[i] # NoSeat
      PROVE  seats'[i].device # seats'[j].device
  <2>1. i # k /\ seats'[i] = seats[i] /\ seats[i].device # 0
    BY <1>2, <1>4 DEF SeatsFit
  <2> QED BY <1>2, <1>4, <2>1 DEF OneSeatPerDevice, NoSeat
<1> QED BY <1>3, <1>4 DEF OneSeatPerDevice

\* A seat loses its socket and no more.
LEMMA NoticeFits ==
  ASSUME SeatsFit, OneSeatPerDevice, NEW c, NoticeLoss(c)
  PROVE  SeatsFit' /\ OneSeatPerDevice'
<1>1. \A j \in Number : /\ seats'[j] \in [device : Nat, socket : Nat]
                         /\ seats'[j].device = seats[j].device
                         /\ seats'[j] \in {seats[j], [device |-> seats[j].device, socket |-> 0]}
  BY DEF NoticeLoss, SeatsFit
<1>2. seats' \in [Number -> [device : Nat, socket : Nat]]
  BY <1>1 DEF NoticeLoss
<1>3. \A j \in Number : seats'[j] # NoSeat => seats[j] # NoSeat
  BY <1>1 DEF NoSeat
<1>4. SeatsFit'
  BY <1>1, <1>2, <1>3 DEF SeatsFit
<1> QED BY <1>1, <1>3, <1>4 DEF OneSeatPerDevice
-----------------------------------------------------------------------------
(* The steps.                                                              *)

\* What a step has to show when it leaves the seats alone.
LEMMA ClientStep ==
  ASSUME IInv, Named(phone'), devices' \in Nat, conn' \in Nat, Requests(up'), seats' = seats
  PROVE  IInv'
  BY DEF IInv, SeatsFit, OneSeatPerDevice

\* What the player does.
LEMMA PlayerStepFits == ASSUME IInv, PlayerStep PROVE IInv'
<1> USE DEF IInv
<1>1. CASE Join
  <2>1. /\ devices' \in Nat /\ conn' = conn /\ seats' = seats
        /\ phone' = [[phone EXCEPT !.ended = FALSE, !.leaving = FALSE] EXCEPT !.device = DeviceOf(phone)]
        /\ up' = Append(up, Request("join", [phone EXCEPT !.ended = FALSE, !.leaving = FALSE]))
    BY <1>1 DEF Join, Ask, roomVars
  <2>2. Named([phone EXCEPT !.ended = FALSE, !.leaving = FALSE])
    BY DEF Named, Fields
  <2>3. Named(phone')
    BY <2>1, <2>2, RequestNames DEF Named, Fields
  <2> QED BY <2>1, <2>2, <2>3, RequestNames, RequestsAppend, ClientStep
<1>2. CASE Leave
  <2>1. /\ devices' = devices /\ conn' = conn /\ seats' = seats
        /\ phone' = [phone EXCEPT !.leaving = TRUE]
        /\ up' = Append(up, Request("leave", phone))
    BY <1>2 DEF Leave, Ask, roomVars
  <2> QED BY <2>1, PhoneSteps, RequestNames, RequestsAppend, ClientStep
<1>3. CASE SetProfile
  <2>1. /\ devices' = devices /\ conn' = conn /\ seats' = seats /\ phone' = phone
        /\ up' = Append(up, Request("profile", phone))
    BY <1>3 DEF SetProfile, Ask, client, roomVars
  <2> QED BY <2>1, RequestNames, RequestsAppend, ClientStep
<1>4. CASE Discard
  <2>1. EndSession /\ conn' = conn /\ up' = up /\ seats' = seats
    BY <1>4 DEF Discard, roomVars
  <2> QED BY <2>1, EndNamed, ClientStep
<1> QED BY <1>1, <1>2, <1>3, <1>4 DEF PlayerStep

\* What the phone does by itself.
LEMMA PhoneStepFits == ASSUME IInv, PhoneStep PROVE IInv'
<1> USE DEF IInv
<1>1. CASE Connect
  <2> DEFINE fresh == [phone EXCEPT !.connected = phone.stored = 0]
             again == Resuming(fresh, losses + timeouts + 1)
  <2>1. /\ devices' = devices /\ conn' \in {conn, conn + 1} /\ seats' = seats
        /\ \/ phone' = again /\ up' = <<Request("resume", phone')>>
           \/ phone' = fresh /\ up' = <<>>
    BY <1>1 DEF Connect, roomVars
  <2>2. Named(fresh) /\ Named(again)
    <3>1. Named(fresh)
      BY PhoneSteps
    <3> QED BY <3>1, PhoneSteps
  <2>3. Named(phone') /\ conn' \in Nat
    BY <2>1, <2>2
  <2>4. Requests(up')
    <3> HIDE DEF again, fresh
    <3>1. IsRequest(Request("resume", again))
      BY <2>2, RequestNames
    <3>2. Requests(<<Request("resume", again)>>) /\ Requests(<<>>)
      BY <3>1, OneRequest
    <3>3. up' = <<Request("resume", again)>> \/ up' = <<>>
      BY <2>1
    <3> QED BY <3>2, <3>3
  <2> QED BY <2>1, <2>3, <2>4, ClientStep
<1>2. CASE ResumeTimesOut
  <2>1. devices' = devices /\ conn' = conn /\ up' = up /\ seats' = seats
    BY <1>2 DEF ResumeTimesOut, roomVars
  <2>2. Named(phone')
    BY <1>2 DEF ResumeTimesOut, Named, Fields
  <2> QED BY <2>1, <2>2, ClientStep
<1>3. CASE Retry
  <2>1. /\ devices' = devices /\ conn' = conn /\ seats' = seats
        /\ \/ phone' = [phone EXCEPT !.retry = FALSE] /\ up' = up
           \/ /\ phone' = Resuming(phone, losses + timeouts + 1)
              /\ up' = Append(up, Request("resume", Resuming(phone, losses + timeouts + 1)))
    BY <1>3 DEF Retry, Ask, roomVars
  <2>2. Named(Resuming(phone, losses + timeouts + 1))
    BY PhoneSteps
  <2>3. Named(phone')
    <3>1. Named([phone EXCEPT !.retry = FALSE])
      BY DEF Named, Fields
    <3> QED BY <2>1, <2>2, <3>1
  <2>4. Requests(up')
    BY <2>1, <2>2, RequestNames, RequestsAppend
  <2> QED BY <2>1, <2>3, <2>4, ClientStep
<1>4. CASE Receive
  <2>1. conn' = conn /\ up' = up /\ seats' = seats
    BY <1>4 DEF Receive, roomVars
  <2>2. Named(phone') /\ devices' \in Nat
    <3> DEFINE m == Head(down)
    <3>1. CASE m.kind \in {"left", "terminated"}
      BY <1>4, <3>1, EndNamed DEF Receive
    <3>2. CASE m.kind = "closed"
      <4>1. phone' = Cleared(phone) /\ devices' = devices + 1
        BY <1>4, <3>2 DEF Receive, ReceivedClosed
      <4>2. Named(Cleared(phone))
        BY PhoneSteps
      <4> QED BY <4>1, <4>2
    <3>3. CASE m.kind \notin {"left", "terminated", "closed"}
      <4>1. Keep(m) /\ devices' = devices
        BY <1>4, <3>3 DEF Receive
      <4> HIDE DEF m
      <4> QED BY <4>1, KeepNamed
    <3> QED BY <3>1, <3>2, <3>3
  <2> QED BY <2>1, <2>2, ClientStep
<1> QED BY <1>1, <1>2, <1>3, <1>4 DEF PhoneStep

\* What the server does.
LEMMA ServerStepFits == ASSUME IInv, ServerStep PROVE IInv'
<1> USE DEF IInv
<1>0. Requests(<<>>)
  <2>1. Requests(<<>>)
    BY DEF Requests
  <2> QED BY <2>1
<1>1. CASE Handle
  <2> DEFINE m == Head(up)
  <2>1. /\ phone' = phone /\ devices' = devices /\ conn' = conn
        /\ Requests(up') /\ IsRequest(m)
    BY <1>1, RequestsTail DEF Handle, client
  <2>2. SeatsFit' /\ OneSeatPerDevice'
    <3>1. CASE m.kind = "join"
      <4>1. HandleJoin(m)
        BY <1>1, <3>1 DEF Handle
      <4> HIDE DEF m
      <4> QED BY <2>1, <4>1, JoinFits
    <3>2. CASE m.kind = "resume"
      <4>1. HandleResume(m)
        BY <1>1, <3>2 DEF Handle
      <4> HIDE DEF m
      <4> QED BY <2>1, <4>1, ResumeFits
    <3>3. CASE m.kind = "leave"
      <4>1. HandleLeave
        BY <1>1, <3>3 DEF Handle
      <4>2. seats' = [seats EXCEPT ![who] = NoSeat] \/ seats' = seats
        BY <4>1 DEF HandleLeave
      <4> QED BY <4>2, VacateFits DEF SeatsFit, OneSeatPerDevice
    <3>4. CASE m.kind = "profile"
      <4>1. HandleProfile(m)
        BY <1>1, <3>4 DEF Handle
      <4> QED BY <4>1 DEF HandleProfile, SeatsFit, OneSeatPerDevice
    <3> QED BY <2>1, <3>1, <3>2, <3>3, <3>4 DEF IsRequest
  <2> QED BY <2>1, <2>2
<1>2. ASSUME NEW c \in alive, NoticeLoss(c) PROVE IInv'
  <2>1. /\ phone' = phone /\ devices' = devices /\ conn' = conn
        /\ up' \in {<<>>, up}
    BY <1>2 DEF NoticeLoss, client
  <2>2. SeatsFit' /\ OneSeatPerDevice'
    BY <1>2, NoticeFits
  <2> QED BY <1>0, <2>1, <2>2
<1>3. ASSUME NEW k \in Number, Kick(k) PROVE IInv'
  <2>1. /\ phone' = phone /\ devices' = devices /\ conn' = conn /\ up' = up
        /\ seats' = [seats EXCEPT ![k] = NoSeat]
    BY <1>3 DEF Kick, client
  <2> QED BY <2>1, VacateFits
<1>4. CASE CloseRoom
  <2>1. /\ phone' = phone /\ devices' = devices /\ conn' = conn /\ up' = up
        /\ seats' = [k \in Number |-> NoSeat]
    BY <1>4 DEF CloseRoom, client
  <2>2. SeatsFit' /\ OneSeatPerDevice'
    BY <2>1 DEF SeatsFit, OneSeatPerDevice, NoSeat
  <2> QED BY <2>1, <2>2
<1>5. CASE NextRound
  <2>1. /\ phone' = phone /\ devices' = devices /\ conn' = conn /\ up' = up /\ seats' = seats
    BY <1>5 DEF NextRound, client
  <2> QED BY <2>1, ClientStep
<1> QED BY <1>1, <1>2, <1>3, <1>4, <1>5 DEF ServerStep

\* What goes wrong.
LEMMA FaultFits == ASSUME IInv, Fault PROVE IInv'
<1> USE DEF IInv
<1>1. PICK reload \in BOOLEAN : LoseConnection(reload)
  BY DEF Fault
<1>2. devices' = devices /\ conn' = conn /\ up' = up /\ seats' = seats
  BY <1>1 DEF LoseConnection, roomVars
<1>3. Named(phone')
  BY <1>1, PhoneSteps DEF LoseConnection
<1> QED BY <1>2, <1>3, ClientStep

-----------------------------------------------------------------------------
\* However often a phone asks to join or to resume, and whatever is lost or comes twice, its
\* device has one seat (playerManager.ts 49-66).
THEOREM DevicesSitOnce == Spec => []OneSeatPerDevice
<1>1. Init => IInv
  <2> SUFFICES ASSUME Init PROVE IInv
    OBVIOUS
  <2>1. Named(phone)
    BY DEF Init, NewPhone, Named, Fields
  <2>2. Requests(up)
    BY DEF Init, Requests
  <2>3. SeatsFit /\ OneSeatPerDevice
    BY DEF Init, SeatsFit, OneSeatPerDevice, NoSeat
  <2> QED BY <2>1, <2>2, <2>3 DEF Init, IInv
<1>2. IInv /\ [Next]_vars => IInv'
  <2> SUFFICES ASSUME IInv, [Next]_vars PROVE IInv'
    OBVIOUS
  <2>1. CASE UNCHANGED vars
    BY <2>1 DEF vars, client, roomVars, IInv, SeatsFit, OneSeatPerDevice
  <2> QED BY <2>1, PlayerStepFits, PhoneStepFits, ServerStepFits, FaultFits DEF Next
<1>3. IInv => OneSeatPerDevice
  BY DEF IInv
<1> QED BY <1>1, <1>2, <1>3, PTL DEF Spec
=============================================================================
