--------------------------- MODULE PartyRoomProofs ---------------------------
(***************************************************************************)
(* Theorems about PartyRoom for every value of its constants.              *)
(*                                                                         *)
(* The argument has one inductive invariant, IInv, which says of the room  *)
(* record everything a handler relies on.  Each operator that builds a     *)
(* room record gets a lemma: from a sound room it makes a sound room, it   *)
(* leaves the room's clock reading the same time, and it moves the round   *)
(* in one of the ways RoundLifecycle allows.  The theorems follow from     *)
(* these.                                                                  *)
(***************************************************************************)
EXTENDS PartyRoom, TLAPS

-----------------------------------------------------------------------------
(* The inductive invariant, as predicates of a room record r at wall time  *)
(* w.                                                                      *)

\* What pauses have cost so far fits into the time that has passed.
ClockFits(c, w) ==
  /\ c.pausedTotalMs <= w
  /\ IsPaused(c) => c.pausedTotalMs <= c.pausedAt /\ c.pausedAt <= w
  /\ ~IsPaused(c) => c.pausedByPlayerId = NoPlayer

ControlFits(r) ==
  /\ Holder(r) \in r.players \cup {NoPlayer}
  /\ Pending(r) # NoRequest => Pending(r).playerId \in r.players \ {Holder(r)}

HoldFits(r) == r.clock.pausedByPlayerId \in r.players \cup {NoPlayer}

ScoreFits(round) ==
  /\ round.phase \in {"result", "scoreboard", "finished"} => round.scoreCommitted
  /\ round.phase \in {"none", "round_intro", "countdown", "playing"} => ~round.scoreCommitted

RoundFits(r) ==
  /\ HasRound(r) => r.currentRound.gameId = r.selectedGameId
  /\ ScoreFits(r.currentRound)
  /\ \A p \in Player : r.score[p] <= RoundsPaid(r)

RoomOK(r, w) ==
  /\ r \in Room /\ r.ready \subseteq r.players
  /\ ClockFits(r.clock, w)
  /\ ControlFits(r)
  /\ HoldFits(r)
  /\ RoundFits(r)

IInv == wall \in Nat /\ RoomOK(room, wall)

-----------------------------------------------------------------------------
(* The room's clock.                                                       *)

\* A room's clock never runs below zero, so every deadline is a natural number.
LEMMA RoomNowNat ==
  ASSUME NEW c \in Clock, NEW w \in Nat, ClockFits(c, w)
  PROVE  RoomNow(c, w) \in Nat
BY DEF Clock, ClockFits, RoomNow, IsPaused

\* Ending a pause moves its length into the total: the clock reads the same.
LEMMA ResumeKeepsClock ==
  ASSUME NEW c \in Clock, NEW w \in Nat, ClockFits(c, w)
  PROVE  /\ ResumeRoom(c, w) \in Clock
         /\ ClockFits(ResumeRoom(c, w), w)
         /\ ~IsPaused(ResumeRoom(c, w))
         /\ ResumeRoom(c, w).pausedByPlayerId = NoPlayer
         /\ RoomNow(ResumeRoom(c, w), w) = RoomNow(c, w)
BY DEF Clock, ClockFits, RoomNow, IsPaused, ResumeRoom

\* Beginning a pause stops the clock where it stands.
LEMMA PauseKeepsClock ==
  ASSUME NEW c \in Clock, NEW w \in Nat, ClockFits(c, w), NEW p \in Actor
  PROVE  /\ PauseRoom(c, w, p) \in Clock
         /\ ClockFits(PauseRoom(c, w, p), w)
         /\ PauseRoom(c, w, p).pausedByPlayerId \in {c.pausedByPlayerId, p}
         /\ RoomNow(PauseRoom(c, w, p), w) = RoomNow(c, w)
<1>1. CASE IsPaused(c)
  BY <1>1 DEF PauseRoom
<1>2. CASE ~IsPaused(c)
  <2> DEFINE d == [c EXCEPT !.pausedAt = w, !.pausedByPlayerId = p]
  <2>1. PauseRoom(c, w, p) = d /\ p \in Player \cup {NoPlayer}
    BY <1>2 DEF PauseRoom, Actor, Screen
  <2>2. /\ d \in Clock
        /\ d.pausedAt = w /\ d.pausedTotalMs = c.pausedTotalMs /\ d.pausedByPlayerId = p
    BY <2>1 DEF Clock
  <2>3. d.pausedAt # NoTime
    BY <2>2, NullsAreNew
  <2> QED
    BY <1>2, <2>1, <2>2, <2>3 DEF Clock, ClockFits, RoomNow, IsPaused
<1> QED
  BY <1>1, <1>2

\* Time passing moves the clock of a running room and leaves a held one alone.
LEMMA TimeMovesClock ==
  ASSUME NEW c \in Clock, NEW w \in Nat, ClockFits(c, w)
  PROVE  /\ ClockFits(c, w + 1)
         /\ RoomNow(c, w + 1) = RoomNow(c, w) + (IF IsPaused(c) THEN 0 ELSE 1)
BY DEF Clock, ClockFits, RoomNow, IsPaused

-----------------------------------------------------------------------------
(* What happens to the rest of the room when one part of it is replaced.   *)

LEMMA ClockReplaced ==
  ASSUME NEW r, NEW w \in Nat, RoomOK(r, w),
         NEW c \in Clock, ClockFits(c, w), c.pausedByPlayerId \in r.players \cup {NoPlayer}
  PROVE  RoomOK([r EXCEPT !.clock = c], w)
BY DEF RoomOK, Room, ControlFits, Holder, Pending, HoldFits, RoundFits, HasRound, ScoreFits,
       RoundsPaid, HasActiveRound

LEMMA ControlReplaced ==
  ASSUME NEW r, NEW w \in Nat, RoomOK(r, w),
         NEW h \in r.players \cup {NoPlayer}, NEW q \in Request \cup {NoRequest},
         q # NoRequest => q.playerId \in r.players \ {h}
  PROVE  RoomOK(WithControl(r, h, q), w)
BY DEF RoomOK, Room, WithControl, HostControl, ControlFits, Holder, Pending, HoldFits, RoundFits,
       HasRound, ScoreFits, RoundsPaid, HasActiveRound

LEMMA ReadyReplaced ==
  ASSUME NEW r, NEW w \in Nat, RoomOK(r, w), NEW S \in SUBSET r.players
  PROVE  RoomOK([r EXCEPT !.ready = S], w)
BY DEF RoomOK, Room, ControlFits, Holder, Pending, HoldFits, RoundFits, HasRound, ScoreFits,
       RoundsPaid, HasActiveRound

-----------------------------------------------------------------------------
(* How a step may move the round: the vocabulary of the lemmas to come.    *)

SameTime(r, q, w) == RoomNow(q.clock, w) = RoomNow(r.clock, w)

\* q drops the round of r, or moves it forward, or leaves it as it is.
Drops(r, q) == q.currentRound = NoRound

Moves(r, q) ==
  /\ q.currentRound.phase \in Lifecycle!Phases
  /\ r.currentRound.phase # "none"
  /\ Lifecycle!Rank(r.currentRound.phase) <= Lifecycle!Rank(q.currentRound.phase)
  /\ r.currentRound.scoreCommitted => q.currentRound.scoreCommitted

Keeps(r, q) == q.currentRound = r.currentRound

\* A step that opens no round, and one that opens the next round.
Quiet(r, q, w) ==
  /\ RoomOK(q, w) /\ SameTime(r, q, w)
  /\ q.roundCounter = r.roundCounter
  /\ Drops(r, q) \/ Moves(r, q) \/ Keeps(r, q)

Opens(r, q, w) ==
  /\ RoomOK(q, w) /\ SameTime(r, q, w)
  /\ q.roundCounter = r.roundCounter + 1
  /\ q.currentRound.phase = "round_intro" /\ ~q.currentRound.scoreCommitted
  /\ ~IsPaused(q.clock)

Sound(r, q, w) == Quiet(r, q, w) \/ Opens(r, q, w)

-----------------------------------------------------------------------------
(* Pauses and the controls leave the round alone.                          *)

\* Clearing a pause.
LEMMA ClearPauseQuiet ==
  ASSUME NEW r, NEW w \in Nat, RoomOK(r, w)
  PROVE  /\ Quiet(r, ClearPause(r, w), w)
         /\ ClearPause(r, w) = [r EXCEPT !.clock = ResumeRoom(r.clock, w)]
         /\ ~IsPaused(ClearPause(r, w).clock)
         /\ ClearPause(r, w).clock.pausedByPlayerId = NoPlayer
<1> DEFINE c == ResumeRoom(r.clock, w)
           q == [r EXCEPT !.clock = c]
<1>1. r.clock \in Clock /\ ClockFits(r.clock, w) /\ r \in Room
  BY DEF RoomOK, Room
<1>2. /\ c \in Clock /\ ClockFits(c, w) /\ ~IsPaused(c)
      /\ c.pausedByPlayerId = NoPlayer /\ RoomNow(c, w) = RoomNow(r.clock, w)
  BY <1>1, ResumeKeepsClock
<1> HIDE DEF c
<1>3. RoomOK(q, w)
  BY <1>2, ClockReplaced
<1>4. q.clock = c /\ q.currentRound = r.currentRound /\ q.roundCounter = r.roundCounter
  BY <1>1 DEF Room
<1>5. ClearPause(r, w) = q
  BY DEF ClearPause, c
<1> HIDE DEF q
<1>6. Quiet(r, q, w)
  BY <1>2, <1>3, <1>4 DEF Quiet, SameTime, Keeps
<1> QED
  BY <1>2, <1>4, <1>5, <1>6 DEF q, c

\* Handing the controls to somebody in the room, or to nobody.
LEMMA WithControlQuiet ==
  ASSUME NEW r, NEW w \in Nat, RoomOK(r, w),
         NEW h \in r.players \cup {NoPlayer}, NEW q \in Request \cup {NoRequest},
         q # NoRequest => q.playerId \in r.players \ {h}
  PROVE  Quiet(r, WithControl(r, h, q), w)
<1>1. RoomOK(WithControl(r, h, q), w)
  BY ControlReplaced
<1>2. /\ WithControl(r, h, q).clock = r.clock
      /\ WithControl(r, h, q).currentRound = r.currentRound
      /\ WithControl(r, h, q).roundCounter = r.roundCounter
  BY DEF RoomOK, Room, WithControl
<1> QED
  BY <1>1, <1>2 DEF Quiet, SameTime, Keeps

LEMMA RankNat == ASSUME NEW p \in Lifecycle!Phases PROVE Lifecycle!Rank(p) \in 1..7
BY DEF Lifecycle!Phases, Lifecycle!Unscored, Lifecycle!Settled, Lifecycle!Rank

\* A sound room's round is in one of the phases of the life cycle, or absent.
LEMMA PhaseOfRoom ==
  ASSUME NEW r, NEW w, RoomOK(r, w)
  PROVE  /\ r.currentRound \in Round \cup {NoRound}
         /\ r.currentRound.phase \in Lifecycle!Phases \cup {"none"}
         /\ HasRound(r) <=> r.currentRound \in Round
         /\ HasRound(r) <=> r.currentRound # NoRound
BY DEF RoomOK, Room, Round, Phase, TimedPhase, NoRound, HasRound, Lifecycle!Phases,
       Lifecycle!Unscored, Lifecycle!Settled

LEMMA QuietItself ==
  ASSUME NEW r, NEW w, RoomOK(r, w) PROVE Quiet(r, r, w)
BY DEF Quiet, SameTime, Keeps

\* A quiet step followed by a sound one is a sound one; quiet ones make a quiet one.
LEMMA QuietThenSound ==
  ASSUME NEW r, NEW m, NEW q, NEW w, RoomOK(r, w), Quiet(r, m, w), Sound(m, q, w)
  PROVE  Sound(r, q, w) /\ (Quiet(m, q, w) => Quiet(r, q, w))
<1>1. CASE Opens(m, q, w)
  <2>1. Opens(r, q, w)
    BY <1>1 DEF Quiet, Opens, SameTime
  <2>2. ~Quiet(m, q, w)
    <3>1. m.roundCounter \in Nat
      BY DEF Quiet, RoomOK, Room
    <3> QED
      BY <1>1, <3>1 DEF Quiet, Opens
  <2> QED
    BY <2>1, <2>2 DEF Sound
<1>2. CASE Quiet(m, q, w)
  <2>1. RoomOK(q, w) /\ SameTime(r, q, w) /\ q.roundCounter = r.roundCounter
    BY <1>2 DEF Quiet, SameTime
  <2>2. Drops(r, q) \/ Moves(r, q) \/ Keeps(r, q)
    <3>1. CASE Drops(m, q)
      BY <3>1 DEF Drops
    <3>2. CASE Keeps(m, q)
      BY <3>2 DEF Quiet, Keeps, Drops, Moves
    <3>3. CASE Moves(m, q) /\ Drops(r, m)
      BY <3>3 DEF Moves, Drops, NoRound
    <3>4. CASE Moves(m, q) /\ Keeps(r, m)
      BY <3>4 DEF Moves, Keeps
    <3>5. CASE Moves(m, q) /\ Moves(r, m)
      <4>1. /\ r.currentRound.phase \in Lifecycle!Phases
            /\ m.currentRound.phase \in Lifecycle!Phases
            /\ q.currentRound.phase \in Lifecycle!Phases
        BY <3>5, PhaseOfRoom DEF Moves
      <4>2. /\ Lifecycle!Rank(r.currentRound.phase) \in Int
            /\ Lifecycle!Rank(m.currentRound.phase) \in Int
            /\ Lifecycle!Rank(q.currentRound.phase) \in Int
        BY <4>1, RankNat
      <4> QED
        BY <3>5, <4>2 DEF Moves
    <3> QED
      BY <1>2, <3>1, <3>2, <3>3, <3>4, <3>5 DEF Quiet
  <2> QED
    BY <2>1, <2>2 DEF Quiet, Sound
<1> QED
  BY <1>1, <1>2 DEF Sound

-----------------------------------------------------------------------------
(* The controls.                                                           *)

LEMMA NoRequestIsNone ==
  /\ NoRequest.playerId = NoPlayer
  /\ \A q \in Request \cup {NoRequest} : q.playerId \in Player => q \in Request
BY NullsAreNew DEF Request, NoRequest

LEMMA RequestQuiet ==
  ASSUME NEW r, NEW w \in Nat, RoomOK(r, w), NEW p \in r.players
  PROVE  Quiet(r, RequestHostControl(r, p, w), w)
<1>1. p \in Player
  BY DEF RoomOK, Room
<1>2. CASE Holder(r) \in r.players \ {p}
  <2> DEFINE q == [playerId |-> p, expiresAt |-> w + HandoverMs]
  <2>1. q \in Request /\ q.playerId \in r.players \ {Holder(r)}
    BY <1>1, <1>2, DurationsFit DEF Request
  <2>2. Quiet(r, WithControl(r, Holder(r), q), w)
    BY <1>2, <2>1, WithControlQuiet
  <2> QED
    BY <1>2, <2>2 DEF RequestHostControl
<1>3. CASE Holder(r) \notin r.players \ {p}
  BY <1>3, WithControlQuiet DEF RequestHostControl
<1> QED
  BY <1>2, <1>3

LEMMA ResolveQuiet ==
  ASSUME NEW r, NEW w \in Nat, RoomOK(r, w), NEW p, NEW grant \in BOOLEAN
  PROVE  Quiet(r, ResolveHostControl(r, p, grant), w)
<1> DEFINE h == IF grant THEN IfPresent(r, p) ELSE Holder(r)
<1>1. h \in r.players \cup {NoPlayer}
  BY DEF IfPresent, RoomOK, ControlFits
<1> HIDE DEF h
<1>2. Quiet(r, WithControl(r, h, NoRequest), w)
  BY <1>1, WithControlQuiet
<1> QED
  BY <1>2, QuietItself DEF ResolveHostControl, h

LEMMA ExpireQuiet ==
  ASSUME NEW r, NEW w \in Nat, RoomOK(r, w)
  PROVE  Quiet(r, ExpireHostControlRequest(r, w), w)
<1>1. IfPresent(r, Pending(r).playerId) \in r.players \cup {NoPlayer}
  BY DEF IfPresent
<1>2. Quiet(r, WithControl(r, IfPresent(r, Pending(r).playerId), NoRequest), w)
  BY <1>1, WithControlQuiet
<1> QED
  BY <1>2, QuietItself DEF ExpireHostControlRequest

LEMMA ReleaseQuiet ==
  ASSUME NEW r, NEW w \in Nat, RoomOK(r, w)
  PROVE  Quiet(r, ReleaseHostControl(r, w), w)
<1> DEFINE m == ReleasePauseHeldBy(r, Holder(r), w)
<1>1. Quiet(r, m, w)
  BY ClearPauseQuiet, QuietItself DEF ReleasePauseHeldBy
<1> HIDE DEF m
<1>2. RoomOK(m, w)
  BY <1>1 DEF Quiet
<1>3. Quiet(m, WithControl(m, NoPlayer, NoRequest), w)
  BY <1>2, WithControlQuiet
<1> QED
  BY <1>1, <1>3, QuietThenSound DEF ReleaseHostControl, Sound, m

\* Holding the round and letting it go.
LEMMA HoldQuiet ==
  ASSUME NEW r, NEW w \in Nat, RoomOK(r, w), NEW by \in Actor, CanControlRoom(r, by),
         NEW paused \in BOOLEAN
  PROVE  Quiet(r, [r EXCEPT !.clock = IF paused THEN PauseRoom(@, w, by) ELSE ResumeRoom(@, w)], w)
<1> DEFINE c == IF paused THEN PauseRoom(r.clock, w, by) ELSE ResumeRoom(r.clock, w)
           q == [r EXCEPT !.clock = c]
<1>1. r \in Room /\ r.clock \in Clock /\ ClockFits(r.clock, w)
      /\ r.clock.pausedByPlayerId \in r.players \cup {NoPlayer}
  BY DEF RoomOK, Room, HoldFits
<1>2. by \in r.players \cup {NoPlayer}
  BY DEF CanControlRoom, HasHostControl, Screen
<1>3. /\ c \in Clock /\ ClockFits(c, w) /\ RoomNow(c, w) = RoomNow(r.clock, w)
      /\ c.pausedByPlayerId \in r.players \cup {NoPlayer}
  <2>1. CASE paused
    BY <1>1, <1>2, <2>1, PauseKeepsClock
  <2>2. CASE ~paused
    BY <1>1, <2>2, ResumeKeepsClock
  <2> QED
    BY <2>1, <2>2
<1> HIDE DEF c
<1>4. RoomOK(q, w)
  BY <1>3, ClockReplaced
<1>5. q.clock = c /\ q.currentRound = r.currentRound /\ q.roundCounter = r.roundCounter
  BY <1>1 DEF Room
<1> HIDE DEF q
<1>6. Quiet(r, q, w)
  BY <1>3, <1>4, <1>5 DEF Quiet, SameTime, Keeps
<1> QED
  BY <1>6 DEF q, c

-----------------------------------------------------------------------------
(* The roster.                                                             *)

LEMMA JoinQuiet ==
  ASSUME NEW r, NEW w \in Nat, RoomOK(r, w), NEW p \in Player
  PROVE  Quiet(r, [r EXCEPT !.players = @ \cup {p}], w)
<1> DEFINE q == [r EXCEPT !.players = @ \cup {p}]
<1>1. RoomOK(q, w)
  BY DEF RoomOK, Room, ControlFits, Holder, Pending, HoldFits, RoundFits, HasRound, ScoreFits,
         RoundsPaid, HasActiveRound
<1>2. q.clock = r.clock /\ q.currentRound = r.currentRound /\ q.roundCounter = r.roundCounter
  BY DEF RoomOK, Room
<1> QED
  BY <1>1, <1>2 DEF Quiet, SameTime, Keeps

LEMMA ReadyQuiet ==
  ASSUME NEW r, NEW w \in Nat, RoomOK(r, w), NEW S \in SUBSET r.players
  PROVE  Quiet(r, [r EXCEPT !.ready = S], w)
<1> DEFINE q == [r EXCEPT !.ready = S]
<1>1. RoomOK(q, w)
  BY ReadyReplaced
<1>2. q.clock = r.clock /\ q.currentRound = r.currentRound /\ q.roundCounter = r.roundCounter
  BY DEF RoomOK, Room
<1> QED
  BY <1>1, <1>2 DEF Quiet, SameTime, Keeps

\* A chosen setup and a confirmation matter to nobody but CanStartRound.
LEMMA SetupQuiet ==
  ASSUME NEW r, NEW w \in Nat, RoomOK(r, w), NEW C \in [Game -> SUBSET Player],
         NEW S \in SUBSET r.players, NEW K \in SUBSET Game
  PROVE  /\ Quiet(r, [r EXCEPT !.chosen = C, !.ready = S], w)
         /\ Quiet(r, [r EXCEPT !.confirmed = K], w)
<1> DEFINE q == [r EXCEPT !.chosen = C, !.ready = S]
           d == [r EXCEPT !.confirmed = K]
<1>1. r \in Room
  BY DEF RoomOK
<1>2. /\ q \in Room
      /\ q.ready = S /\ q.players = r.players /\ q.clock = r.clock
      /\ q.hostControl = r.hostControl /\ q.currentRound = r.currentRound
      /\ q.selectedGameId = r.selectedGameId /\ q.roundCounter = r.roundCounter
      /\ q.score = r.score
  BY <1>1 DEF Room
<1>3. /\ d \in Room
      /\ d.ready = r.ready /\ d.players = r.players /\ d.clock = r.clock
      /\ d.hostControl = r.hostControl /\ d.currentRound = r.currentRound
      /\ d.selectedGameId = r.selectedGameId /\ d.roundCounter = r.roundCounter
      /\ d.score = r.score
  BY <1>1 DEF Room
<1> HIDE DEF q, d
<1>4. RoomOK(q, w) /\ RoomOK(d, w)
  BY <1>2, <1>3 DEF RoomOK, ControlFits, Holder, Pending, HoldFits, RoundFits, HasRound,
                    ScoreFits, RoundsPaid, HasActiveRound
<1>5. Quiet(r, q, w) /\ Quiet(r, d, w)
  BY <1>2, <1>3, <1>4 DEF Quiet, SameTime, Keeps
<1> QED
  BY <1>5 DEF q, d

\* Deleting a player who neither drives the room, nor asks to, nor holds the round.
LEMMA WithoutQuiet ==
  ASSUME NEW r, NEW w \in Nat, RoomOK(r, w), ~HasActiveRound(r), NEW p \in r.players,
         Holder(r) # p, Pending(r).playerId # p, r.clock.pausedByPlayerId # p
  PROVE  Quiet(r, WithoutPlayer(r, p), w)
<1> DEFINE q == WithoutPlayer(r, p)
<1>1. r \in Room /\ p \in Player
  BY DEF RoomOK, Room
<1>2. /\ q \in Room
      /\ q.ready = r.ready \ {p} /\ q.players = r.players \ {p} /\ q.clock = r.clock
      /\ q.hostControl = r.hostControl /\ q.currentRound = r.currentRound
      /\ q.selectedGameId = r.selectedGameId /\ q.roundCounter = r.roundCounter
      /\ q.score = [r.score EXCEPT ![p] = 0]
  BY <1>1 DEF Room, WithoutPlayer
<1> HIDE DEF q
<1>3. RoundFits(q)
  <2>1. RoundsPaid(q) = r.roundCounter /\ RoundsPaid(r) = r.roundCounter
    BY <1>2 DEF RoundsPaid, HasActiveRound
  <2>2. \A x \in Player : q.score[x] <= RoundsPaid(q)
    BY <1>1, <1>2, <2>1 DEF Room, RoomOK, RoundFits
  <2> QED
    BY <1>2, <2>2 DEF RoomOK, RoundFits, HasRound
<1>4. ControlFits(q) /\ HoldFits(q) /\ q.ready \subseteq q.players /\ ClockFits(q.clock, w)
  BY <1>2 DEF RoomOK, ControlFits, Holder, Pending, HoldFits
<1>5. RoomOK(q, w)
  BY <1>2, <1>3, <1>4 DEF RoomOK
<1>6. Quiet(r, q, w)
  BY <1>2, <1>5 DEF Quiet, SameTime, Keeps
<1> QED
  BY <1>6 DEF q

\* Forgetting a player's controls, request and pause.
LEMMA ForgetQuiet ==
  ASSUME NEW r, NEW w \in Nat, RoomOK(r, w), NEW p \in Player
  PROVE  LET q == ForgetHostControlForPlayer(r, p, w)
         IN  /\ Quiet(r, q, w)
             /\ Holder(q) # p /\ Pending(q).playerId # p /\ q.clock.pausedByPlayerId # p
             /\ q.players = r.players /\ q.currentRound = r.currentRound
<1> DEFINE h == IF Holder(r) = p THEN NoPlayer ELSE Holder(r)
           k == IF Pending(r).playerId = p THEN NoRequest ELSE Pending(r)
           m == WithControl(r, h, k)
           q == ReleasePauseHeldBy(m, p, w)
<1>1. p # NoPlayer /\ r \in Room
  BY NullsAreNew DEF RoomOK
<1>2. /\ h \in r.players \cup {NoPlayer} /\ h # p
      /\ k \in Request \cup {NoRequest} /\ k.playerId # p
      /\ k # NoRequest => k.playerId \in r.players \ {h}
  <2>1. /\ Holder(r) \in r.players \cup {NoPlayer}
        /\ Pending(r) \in Request \cup {NoRequest}
        /\ Pending(r) # NoRequest => Pending(r).playerId \in r.players \ {Holder(r)}
    BY DEF RoomOK, Room, HostControl, ControlFits, Holder, Pending
  <2>2. h \in r.players \cup {NoPlayer} /\ h # p
    BY <1>1, <2>1
  <2>3. CASE Pending(r).playerId = p
    BY <1>1, <2>2, <2>3, NoRequestIsNone
  <2>4. CASE Pending(r).playerId # p
    <3>1. NoPlayer \notin r.players
      BY NullsAreNew DEF RoomOK, Room
    <3> QED
      BY <2>1, <2>2, <2>4, <3>1
  <2> QED
    BY <2>3, <2>4
<1> HIDE DEF h, k
<1>3. Quiet(r, m, w) /\ RoomOK(m, w)
  BY <1>2, WithControlQuiet DEF Quiet
<1>4. /\ m.hostControl = [holderPlayerId |-> h, pendingRequest |-> k] /\ m \in Room
      /\ m.players = r.players /\ m.currentRound = r.currentRound
  BY <1>1, <1>3 DEF WithControl, RoomOK, Room
<1> HIDE DEF m
<1>5. /\ Quiet(m, q, w) /\ q.clock.pausedByPlayerId # p
      /\ q.hostControl = m.hostControl /\ q.players = m.players
      /\ q.currentRound = m.currentRound
  <2>1. CASE m.clock.pausedByPlayerId = p
    <3>1. q = ClearPause(m, w)
      BY <1>1, <2>1 DEF ReleasePauseHeldBy
    <3>2. q = [m EXCEPT !.clock = ResumeRoom(m.clock, w)]
      BY <3>1, <1>3, ClearPauseQuiet
    <3>3. /\ q.hostControl = m.hostControl /\ q.players = m.players
          /\ q.currentRound = m.currentRound
      BY <3>2, <1>4 DEF Room
    <3> QED
      BY <1>1, <1>3, <3>1, <3>3, ClearPauseQuiet
  <2>2. CASE m.clock.pausedByPlayerId # p
    BY <1>3, <2>2, QuietItself DEF ReleasePauseHeldBy
  <2> QED
    BY <2>1, <2>2
<1>6. q = ForgetHostControlForPlayer(r, p, w)
  BY DEF ForgetHostControlForPlayer, h, k, m
<1> HIDE DEF q
<1>7. Quiet(r, q, w)
  BY <1>3, <1>5, QuietThenSound DEF Sound
<1>8. Holder(q) # p /\ Pending(q).playerId # p
  BY <1>2, <1>4, <1>5 DEF Holder, Pending
<1> QED
  BY <1>4, <1>5, <1>6, <1>7, <1>8

\* Deleting the record and then forgetting the player's controls comes to the
\* same as doing it in the other order.
LEMMA ForgetCommutes ==
  ASSUME NEW r \in Room, NEW w \in Nat, NEW p \in Player
  PROVE  ForgetHostControlForPlayer(WithoutPlayer(r, p), p, w)
           = WithoutPlayer(ForgetHostControlForPlayer(r, p, w), p)
<1> DEFINE h == IF Holder(r) = p THEN NoPlayer ELSE Holder(r)
           k == IF Pending(r).playerId = p THEN NoRequest ELSE Pending(r)
           c == IF r.clock.pausedByPlayerId = p THEN ResumeRoom(r.clock, w) ELSE r.clock
           s == WithoutPlayer(r, p)
           f == ForgetHostControlForPlayer(r, p, w)
           both == [s EXCEPT !.hostControl = [holderPlayerId |-> h, pendingRequest |-> k],
                             !.clock = c]
<1>1. p # NoPlayer
  BY NullsAreNew
<1>2. /\ s \in Room /\ s.hostControl = r.hostControl /\ s.clock = r.clock
      /\ s = [r EXCEPT !.players = @ \ {p}, !.ready = @ \ {p}, !.score = [@ EXCEPT ![p] = 0],
                       !.chosen = [g \in Game |-> @[g] \ {p}]]
  BY DEF WithoutPlayer, Room
<1>3. f = [r EXCEPT !.hostControl = [holderPlayerId |-> h, pendingRequest |-> k], !.clock = c]
  BY <1>1 DEF ForgetHostControlForPlayer, ReleasePauseHeldBy, ClearPause, WithControl, Room
<1>4. ForgetHostControlForPlayer(s, p, w) = both
  <2> HIDE DEF s
  <2>1. Holder(s) = Holder(r) /\ Pending(s) = Pending(r)
    BY <1>2 DEF Holder, Pending
  <2> QED
    BY ZenonT(60), <1>1, <1>2, <2>1
       DEF ForgetHostControlForPlayer, ReleasePauseHeldBy, ClearPause, WithControl, Room
<1> HIDE DEF h, k, c, f
<1>5. WithoutPlayer(f, p) = both
  BY ZenonT(60), <1>3, <1>2 DEF WithoutPlayer, Room
<1> QED
  BY <1>4, <1>5 DEF f

LEMMA RemoveQuiet ==
  ASSUME NEW r, NEW w \in Nat, RoomOK(r, w), ~HasActiveRound(r), NEW p \in r.players
  PROVE  Quiet(r, ForgetHostControlForPlayer(WithoutPlayer(r, p), p, w), w)
<1> DEFINE f == ForgetHostControlForPlayer(r, p, w)
<1>1. r \in Room /\ p \in Player
  BY DEF RoomOK, Room
<1>2. /\ Quiet(r, f, w) /\ Holder(f) # p /\ Pending(f).playerId # p
      /\ f.clock.pausedByPlayerId # p /\ f.players = r.players
      /\ f.currentRound = r.currentRound
  BY <1>1, ForgetQuiet
<1>3. ForgetHostControlForPlayer(WithoutPlayer(r, p), p, w) = WithoutPlayer(f, p)
  BY <1>1, ForgetCommutes
<1> HIDE DEF f
<1>4. RoomOK(f, w) /\ ~HasActiveRound(f) /\ p \in f.players
  BY <1>2 DEF Quiet, HasActiveRound
<1>5. Quiet(f, WithoutPlayer(f, p), w)
  BY <1>2, <1>4, WithoutQuiet
<1> QED
  BY <1>2, <1>3, <1>5, QuietThenSound DEF Sound

-----------------------------------------------------------------------------
(* The stages of progressRoom.                                             *)

\* b is a later moment of the round a: same round, no phase back, score kept.
Forward(a, b) ==
  /\ b \in Round /\ b.gameId = a.gameId /\ b.roundNumber = a.roundNumber
  /\ Lifecycle!Rank(a.phase) <= Lifecycle!Rank(b.phase)
  /\ a.scoreCommitted => b.scoreCommitted
  /\ ScoreFits(b)

LEMMA PhaseIsPhase == Phase = Lifecycle!Phases
BY DEF Phase, TimedPhase, Lifecycle!Phases, Lifecycle!Unscored, Lifecycle!Settled

LEMMA ForwardItself == ASSUME NEW a \in Round, ScoreFits(a) PROVE Forward(a, a)
<1>1. Lifecycle!Rank(a.phase) \in Int
  BY PhaseIsPhase, RankNat DEF Round
<1> QED
  BY <1>1 DEF Forward

LEMMA ForwardTwice ==
  ASSUME NEW a \in Round, NEW b, NEW c, Forward(a, b), Forward(b, c) PROVE Forward(a, c)
<1>1. /\ Lifecycle!Rank(a.phase) \in Int /\ Lifecycle!Rank(b.phase) \in Int
      /\ Lifecycle!Rank(c.phase) \in Int
  BY PhaseIsPhase, RankNat DEF Round, Forward
<1> QED
  BY <1>1 DEF Forward

LEMMA EnterRound ==
  ASSUME NEW a \in Round, NEW phase \in Phase, NEW now \in Nat
  PROVE  /\ Enter(a, phase, now) \in Round
         /\ Enter(a, phase, now).phase = phase
         /\ Enter(a, phase, now).gameId = a.gameId
         /\ Enter(a, phase, now).roundNumber = a.roundNumber
         /\ Enter(a, phase, now).scoreCommitted = a.scoreCommitted
<1>1. (IF phase \in TimedPhase THEN now + Duration[phase] ELSE NoTime) \in Nat \cup {NoTime}
  BY DurationsFit
<1> QED
  BY <1>1 DEF Enter, Round

\* Entering a phase no earlier than the one the round is in, when the score allows it.
LEMMA EnterForward ==
  ASSUME NEW a \in Round, NEW phase \in Phase, NEW now \in Nat,
         Lifecycle!Rank(a.phase) <= Lifecycle!Rank(phase),
         phase \in {"result", "scoreboard", "finished"} => a.scoreCommitted,
         phase \in {"round_intro", "countdown", "playing"} => ~a.scoreCommitted
  PROVE  Forward(a, Enter(a, phase, now))
<1>1. phase # "none"
  BY DEF Phase, TimedPhase
<1> QED
  BY <1>1, EnterRound DEF Forward, ScoreFits

LEMMA AfterForward ==
  ASSUME NEW a \in Round, ScoreFits(a), NEW now \in Nat
  PROVE  /\ Forward(a, After("round_intro", "countdown", now)[a])
         /\ Forward(a, After("countdown", "playing", now)[a])
         /\ Forward(a, After("result", "scoreboard", now)[a])
         /\ Forward(a, After("scoreboard", "finished", now)[a])
<1>1. /\ a.phase = "round_intro" => Forward(a, Enter(a, "countdown", now))
      /\ a.phase = "countdown"   => Forward(a, Enter(a, "playing", now))
      /\ a.phase = "result"      => Forward(a, Enter(a, "scoreboard", now))
      /\ a.phase = "scoreboard"  => Forward(a, Enter(a, "finished", now))
  BY EnterForward DEF ScoreFits, Lifecycle!Rank, Phase, TimedPhase
<1> QED
  BY <1>1, ForwardItself DEF After

LEMMA GameMovesForward ==
  ASSUME NEW a \in Round, ScoreFits(a), NEW now \in Nat, NEW phase \in GamePhases,
         NEW over \in BOOLEAN
  PROVE  /\ Forward(a, GameMoves(phase, now)[a])
         /\ Forward(a, LockIfFinished(over, now)[a])
         /\ GameMoves(phase, now)[a].scoreCommitted = a.scoreCommitted
         /\ LockIfFinished(over, now)[a].scoreCommitted = a.scoreCommitted
<1>1. a.phase = "playing" => /\ Forward(a, Enter(a, "locked", now))
                             /\ Enter(a, "locked", now).scoreCommitted = a.scoreCommitted
  <2>1. "locked" \in Phase /\ Lifecycle!Rank("playing") <= Lifecycle!Rank("locked")
    BY DEF Lifecycle!Rank, Phase, TimedPhase
  <2> QED
    BY <2>1, EnterForward, EnterRound
<1>2. phase # "playing" => phase = "locked"
  BY HooksStayInContract
<1> QED
  BY <1>1, <1>2, ForwardItself DEF GameMoves, LockIfFinished

LEMMA CommitForward ==
  ASSUME NEW a \in Round, ScoreFits(a)
  PROVE  /\ Forward(a, CommitScore[a])
         /\ CommitScore[a].phase = "locked" => CommitScore[a].scoreCommitted
<1>1. CASE a.phase = "locked"
  <2> DEFINE b == [a EXCEPT !.scoreCommitted = TRUE]
  <2>1. /\ b \in Round /\ b.gameId = a.gameId /\ b.roundNumber = a.roundNumber
        /\ b.phase = a.phase /\ b.scoreCommitted
    BY DEF Round
  <2>2. CommitScore[a] = b
    BY <1>1 DEF CommitScore
  <2> HIDE DEF b
  <2> QED
    BY <1>1, <2>1, <2>2 DEF Forward, ScoreFits, Lifecycle!Rank
<1>2. CASE a.phase # "locked"
  BY <1>2, ForwardItself DEF CommitScore
<1> QED
  BY <1>1, <1>2

LEMMA AfterLockedForward ==
  ASSUME NEW a \in Round, ScoreFits(a), NEW now \in Nat, a.phase = "locked" => a.scoreCommitted
  PROVE  Forward(a, AfterLocked(now)[a])
<1>1. a.phase = "locked" => /\ Forward(a, Enter(a, "finished", now))
                            /\ Forward(a, Enter(a, "result", now))
  BY EnterForward DEF Lifecycle!Rank, Phase, TimedPhase
<1> QED
  BY <1>1, ForwardItself DEF AfterLocked, After

LEMMA PlayedForward ==
  ASSUME NEW a \in Round, ScoreFits(a), NEW now \in Nat, NEW hooks \in Hooks, NEW tick \in BOOLEAN
  PROVE  Forward(a, Played(a, now, hooks, tick))
<1> DEFINE counted == After("round_intro", "countdown", now)[a]
           playing == After("countdown", "playing", now)[counted]
           ticked  == Ticked(playing, now, hooks, tick)
           locked  == LockIfFinished(hooks.over, now)[ticked]
<1>1. hooks.phase \in GamePhases /\ hooks.over \in BOOLEAN
  BY DEF Hooks
<1>2. Forward(a, counted) /\ counted \in Round /\ ScoreFits(counted)
  BY AfterForward DEF Forward
<1> HIDE DEF counted
<1>3. Forward(counted, playing) /\ playing \in Round /\ ScoreFits(playing)
  BY <1>2, AfterForward DEF Forward
<1> HIDE DEF playing
<1>4. Forward(playing, ticked) /\ ticked \in Round /\ ScoreFits(ticked)
  BY <1>1, <1>3, GameMovesForward, ForwardItself DEF Forward, Ticked
<1> HIDE DEF ticked
<1>5. Forward(ticked, locked)
  BY <1>1, <1>4, GameMovesForward
<1> HIDE DEF locked
<1>6. Forward(a, playing)
  BY <1>2, <1>3, ForwardTwice
<1>7. Forward(a, ticked)
  BY <1>4, <1>6, ForwardTwice
<1>8. Forward(a, locked)
  BY <1>5, <1>7, ForwardTwice
<1> QED
  BY <1>8 DEF Played, locked, ticked, playing, counted

\* One call of progressRoom carries a round forward, however many phases it falls through.
LEMMA ProgressForward ==
  ASSUME NEW a \in Round, ScoreFits(a), NEW now \in Nat, NEW hooks \in Hooks, NEW tick \in BOOLEAN
  PROVE  Forward(a, ProgressRound(a, now, hooks, tick))
<1> DEFINE played == Played(a, now, hooks, tick)
           scored == CommitScore[played]
           ended  == AfterLocked(now)[scored]
           shown  == After("result", "scoreboard", now)[ended]
           done   == After("scoreboard", "finished", now)[shown]
<1>1. Forward(a, played) /\ played \in Round /\ ScoreFits(played)
  BY PlayedForward DEF Forward
<1> HIDE DEF played
<1>2. /\ Forward(played, scored) /\ scored \in Round /\ ScoreFits(scored)
      /\ scored.phase = "locked" => scored.scoreCommitted
  BY <1>1, CommitForward DEF Forward
<1> HIDE DEF scored
<1>3. Forward(scored, ended) /\ ended \in Round /\ ScoreFits(ended)
  BY <1>2, AfterLockedForward DEF Forward
<1> HIDE DEF ended
<1>4. Forward(ended, shown) /\ shown \in Round /\ ScoreFits(shown)
  BY <1>3, AfterForward DEF Forward
<1> HIDE DEF shown
<1>5. Forward(shown, done)
  BY <1>4, AfterForward
<1> HIDE DEF done
<1>6. Forward(a, scored)
  BY <1>1, <1>2, ForwardTwice
<1>7. Forward(a, ended)
  BY <1>3, <1>6, ForwardTwice
<1>8. Forward(a, shown)
  BY <1>4, <1>7, ForwardTwice
<1>9. Forward(a, done)
  BY <1>5, <1>8, ForwardTwice
<1> QED
  BY <1>9 DEF ProgressRound, Shown, done, shown, ended, scored, played

-----------------------------------------------------------------------------
(* Rounds of a room.                                                       *)

\* Moving the round forward never lowers what may have been paid.
LEMMA RoundReplaced ==
  ASSUME NEW r, NEW w \in Nat, RoomOK(r, w), HasRound(r),
         NEW b, Forward(r.currentRound, b), NEW S \in [Player -> Nat],
         \A p \in Player : S[p] <= RoundsPaid([r EXCEPT !.currentRound = b])
  PROVE  Quiet(r, [r EXCEPT !.score = S, !.currentRound = b], w)
<1> DEFINE q == [r EXCEPT !.score = S, !.currentRound = b]
<1>1. r \in Room /\ b \in Round
  BY DEF RoomOK, Forward
<1>2. /\ q \in Room
      /\ q.ready = r.ready /\ q.players = r.players /\ q.clock = r.clock
      /\ q.hostControl = r.hostControl /\ q.currentRound = b
      /\ q.selectedGameId = r.selectedGameId /\ q.roundCounter = r.roundCounter
      /\ q.score = S
  BY <1>1 DEF Room
<1>3. RoundsPaid([r EXCEPT !.currentRound = b]) = RoundsPaid(q)
  BY <1>1, <1>2 DEF RoundsPaid, HasActiveRound, Room
<1> HIDE DEF q
<1>4. RoundFits(q)
  <2>1. \A p \in Player : q.score[p] <= RoundsPaid(q)
    BY <1>2, <1>3
  <2> QED
    BY <1>2, <2>1 DEF RoomOK, RoundFits, HasRound, Forward
<1>5. RoomOK(q, w)
  BY <1>2, <1>4 DEF RoomOK, ControlFits, Holder, Pending, HoldFits
<1>6. Moves(r, q)
  BY <1>1, <1>2, PhaseIsPhase DEF Moves, Forward, HasRound, Round
<1>7. Quiet(r, q, w)
  BY <1>2, <1>5, <1>6 DEF Quiet, SameTime
<1> QED
  BY <1>7 DEF q

\* An unscored round is an active one.
LEMMA PaidGrows ==
  ASSUME NEW r, NEW w \in Nat, RoomOK(r, w), HasRound(r), NEW b, Forward(r.currentRound, b)
  PROVE  LET q == [r EXCEPT !.currentRound = b]
         IN  /\ RoundsPaid(r) \in Int
             /\ RoundsPaid(r) <= RoundsPaid(q)
             /\ b.scoreCommitted /\ ~r.currentRound.scoreCommitted
                  => RoundsPaid(q) = RoundsPaid(r) + 1
<1> DEFINE q == [r EXCEPT !.currentRound = b]
<1>1. /\ q.currentRound = b /\ q.roundCounter = r.roundCounter /\ r.roundCounter \in Nat
      /\ b.scoreCommitted \in BOOLEAN /\ r.currentRound.scoreCommitted \in BOOLEAN
  BY DEF RoomOK, Room, Forward, Round, NoRound
<1> HIDE DEF q
<1>2. ~r.currentRound.scoreCommitted => HasActiveRound(r)
  BY DEF RoomOK, RoundFits, ScoreFits, HasActiveRound, HasRound
<1>3. ~b.scoreCommitted => HasActiveRound(q) /\ ~r.currentRound.scoreCommitted
  <2>1. b.phase # "none"
    BY DEF Forward, Round, Phase, TimedPhase
  <2> QED
    BY <1>1, <2>1 DEF Forward, ScoreFits, HasActiveRound
<1>4. /\ RoundsPaid(r) = IF r.currentRound.scoreCommitted THEN r.roundCounter
                                                         ELSE r.roundCounter - 1
      /\ RoundsPaid(q) = IF b.scoreCommitted THEN r.roundCounter ELSE r.roundCounter - 1
  BY <1>1, <1>2, <1>3 DEF RoundsPaid
<1>5. /\ RoundsPaid(r) \in Int /\ RoundsPaid(r) <= RoundsPaid(q)
      /\ b.scoreCommitted /\ ~r.currentRound.scoreCommitted => RoundsPaid(q) = RoundsPaid(r) + 1
  BY <1>1, <1>3, <1>4
<1> QED
  BY <1>5 DEF q

\* A game's own move, without a call of progressRoom.
LEMMA MoveQuiet ==
  ASSUME NEW r, NEW w \in Nat, RoomOK(r, w), HasRound(r), NEW b, Forward(r.currentRound, b)
  PROVE  Quiet(r, [r EXCEPT !.currentRound = b], w)
<1>1. /\ r \in Room /\ r.score \in [Player -> Nat]
      /\ \A p \in Player : r.score[p] <= RoundsPaid(r)
  BY DEF RoomOK, Room, RoundFits
<1>2. \A p \in Player : r.score[p] <= RoundsPaid([r EXCEPT !.currentRound = b])
  <2>1. /\ RoundsPaid(r) \in Int
        /\ RoundsPaid(r) <= RoundsPaid([r EXCEPT !.currentRound = b])
        /\ RoundsPaid([r EXCEPT !.currentRound = b]) \in Int
    <3>1. r.roundCounter \in Nat
      BY DEF RoomOK, Room
    <3> QED
      BY <1>1, <3>1, PaidGrows DEF RoundsPaid, Room
  <2> QED
    BY <1>1, <2>1
<1>3. [r EXCEPT !.score = r.score, !.currentRound = b] = [r EXCEPT !.currentRound = b]
  BY <1>1 DEF Room
<1> QED
  BY <1>1, <1>2, <1>3, RoundReplaced

\* The game's clock is a natural number in a sound room.
LEMMA RoomTime == ASSUME NEW r, NEW w \in Nat, RoomOK(r, w) PROVE RoomNow(r.clock, w) \in Nat
BY RoomNowNat DEF RoomOK, Room

\* progressRoom keeps the room sound; in particular the points it pays are covered.
LEMMA ProgressQuiet ==
  ASSUME NEW r, NEW w \in Nat, RoomOK(r, w), HasRound(r),
         NEW hooks \in Hooks, NEW tick \in BOOLEAN
  PROVE  Quiet(r, ProgressRoom(r, w, hooks, tick), w)
<1> DEFINE a    == r.currentRound
           next == ProgressRound(a, RoomNow(r.clock, w), hooks, tick)
           pays == CommitsNow(a, next) /\ next.gameId \notin GameScoped
           S    == IF pays
                   THEN [p \in Player |-> IF p \in hooks.scorers \cap r.players
                                          THEN r.score[p] + 1 ELSE r.score[p]]
                   ELSE r.score
           q    == [r EXCEPT !.score = S, !.currentRound = next]
<1>1. /\ r \in Room /\ a \in Round /\ ScoreFits(a) /\ r.score \in [Player -> Nat]
      /\ \A p \in Player : r.score[p] \in Nat /\ r.score[p] <= RoundsPaid(r)
  BY PhaseOfRoom DEF RoomOK, Room, RoundFits
<1>2. Forward(a, next)
  BY <1>1, RoomTime, ProgressForward
<1> HIDE DEF next
<1>3. /\ RoundsPaid(r) \in Int
      /\ RoundsPaid(r) <= RoundsPaid([r EXCEPT !.currentRound = next])
      /\ RoundsPaid([r EXCEPT !.currentRound = next]) \in Int
      /\ CommitsNow(a, next)
           => RoundsPaid([r EXCEPT !.currentRound = next]) = RoundsPaid(r) + 1
  <2>1. r.roundCounter \in Nat
    BY DEF RoomOK, Room
  <2>2. RoundsPaid([r EXCEPT !.currentRound = next]) \in Int
    BY <1>1, <2>1 DEF RoundsPaid, Room
  <2> QED
    BY <1>2, <2>2, PaidGrows DEF CommitsNow
<1>4. S \in [Player -> Nat]
  BY <1>1
<1>5. \A p \in Player : S[p] <= RoundsPaid([r EXCEPT !.currentRound = next])
  <2>1. CASE pays
    <3>1. \A p \in Player : S[p] \in {r.score[p], r.score[p] + 1}
      BY <2>1
    <3> QED
      BY <1>1, <1>3, <2>1, <3>1
  <2>2. CASE ~pays
    <3>1. \A p \in Player : S[p] = r.score[p]
      BY <2>2
    <3> QED
      BY <1>1, <1>3, <3>1
  <2> QED
    BY <2>1, <2>2
<1>6. Quiet(r, q, w)
  BY <1>2, <1>4, <1>5, RoundReplaced
<1>7. ProgressRoom(r, w, hooks, tick) = q
  <2>1. CASE pays
    BY <1>1, <2>1 DEF ProgressRoom, ApplyScore, next, Room
  <2>2. CASE ~pays
    BY <1>1, <2>2 DEF ProgressRoom, next, Room
  <2> QED
    BY <2>1, <2>2
<1> QED
  BY <1>6, <1>7

LEMMA InputQuiet ==
  ASSUME NEW r, NEW w \in Nat, RoomOK(r, w), NEW hooks \in Hooks
  PROVE  Quiet(r, HandleInput(r, w, hooks), w)
<1>1. CASE ~HasRound(r)
  BY <1>1, QuietItself DEF HandleInput
<1>2. CASE HasRound(r)
  <2> DEFINE b == GameMoves(hooks.phase, RoomNow(r.clock, w))[r.currentRound]
             m == [r EXCEPT !.currentRound = b]
  <2>1. r \in Room /\ r.currentRound \in Round /\ ScoreFits(r.currentRound)
    BY <1>2, PhaseOfRoom DEF RoomOK, RoundFits
  <2>2. Forward(r.currentRound, b)
    BY <2>1, RoomTime, GameMovesForward DEF Hooks
  <2> HIDE DEF b
  <2>3. Quiet(r, m, w)
    BY <1>2, <2>2, MoveQuiet
  <2>4. RoomOK(m, w) /\ HasRound(m)
    <3>1. m.currentRound = b /\ b.phase \in Phase
      BY <2>1, <2>2 DEF Room, Forward, Round
    <3> QED
      BY <2>3, <3>1 DEF Quiet, HasRound, Phase, TimedPhase
  <2> HIDE DEF m
  <2>5. Quiet(m, ProgressRoom(m, w, hooks, FALSE), w)
    BY <2>4, ProgressQuiet
  <2>6. Quiet(r, ProgressRoom(m, w, hooks, FALSE), w)
    BY <2>3, <2>5, QuietThenSound DEF Sound
  <2> QED
    BY <1>2, <2>6 DEF HandleInput, m, b
<1> QED
  BY <1>1, <1>2

LEMMA TickQuiet ==
  ASSUME NEW r, NEW w \in Nat, RoomOK(r, w), NEW hooks \in Hooks
  PROVE  Quiet(r, TickRoom(r, w, hooks), w)
BY QuietItself, ProgressQuiet DEF TickRoom

LEMMA HostActionQuiet ==
  ASSUME NEW r, NEW w \in Nat, RoomOK(r, w), r.selectedGameId \in Game,
         NEW phase \in GamePhases, NEW confirm \in BOOLEAN
  PROVE  Quiet(r, HandleHostAction(r, w, phase, confirm), w)
<1> DEFINE g == r.selectedGameId
           K == IF g \notin ConfirmGames THEN r.confirmed
                ELSE IF confirm THEN r.confirmed \cup {g} ELSE r.confirmed \ {g}
           m == [r EXCEPT !.confirmed = K]
           b == GameMoves(phase, RoomNow(r.clock, w))[r.currentRound]
           q == [m EXCEPT !.currentRound = b]
<1>1. r \in Room /\ K \in SUBSET Game
  BY DEF RoomOK, Room
<1> HIDE DEF K
<1>2. Quiet(r, m, w) /\ RoomOK(m, w)
  <2>1. /\ r.chosen \in [Game -> SUBSET Player] /\ r.ready \in SUBSET r.players
    BY DEF RoomOK, Room
  <2> QED
    BY <1>1, <2>1, SetupQuiet DEF Quiet
<1>3. m.currentRound = r.currentRound /\ m.clock = r.clock /\ HasRound(m) = HasRound(r)
  BY <1>1 DEF Room, HasRound
<1> HIDE DEF m
<1>4. CASE r.currentRound.gameId # g
  <2>1. HandleHostAction(r, w, phase, confirm) = m
    BY <1>1, <1>4 DEF HandleHostAction, m, K, Room
  <2> QED
    BY <1>2, <2>1
<1>5. CASE r.currentRound.gameId = g
  <2>1. r.currentRound \in Round /\ HasRound(r) /\ ScoreFits(r.currentRound)
    BY <1>5, PhaseOfRoom, NullsAreNew DEF NoRound, RoomOK, RoundFits
  <2>2. Forward(m.currentRound, b)
    BY <1>3, <2>1, RoomTime, GameMovesForward
  <2> HIDE DEF b
  <2>3. Quiet(m, q, w)
    BY <1>2, <1>3, <2>1, <2>2, MoveQuiet
  <2>4. HandleHostAction(r, w, phase, confirm) = q
    BY <1>1, <1>5 DEF HandleHostAction, m, b, K, Room
  <2> QED
    BY <1>2, <2>3, <2>4, QuietThenSound DEF Sound
<1> QED
  BY <1>4, <1>5

-----------------------------------------------------------------------------
(* Opening and dropping rounds.                                            *)

LEMMA DropQuiet ==
  ASSUME NEW r, NEW w \in Nat, RoomOK(r, w), NEW g \in Game \cup {NoGame}
  PROVE  Quiet(r, SelectGame(r, g), w) /\ Quiet(r, AbortRound(r), w)
<1> DEFINE q(x) == [r EXCEPT !.selectedGameId = x, !.currentRound = NoRound]
<1>1. ASSUME NEW x \in Game \cup {NoGame} PROVE Quiet(r, q(x), w)
  <2>1. r \in Room
    BY DEF RoomOK
  <2>2. /\ q(x) \in Room
        /\ q(x).ready = r.ready /\ q(x).players = r.players /\ q(x).clock = r.clock
        /\ q(x).hostControl = r.hostControl /\ q(x).currentRound = NoRound
        /\ q(x).roundCounter = r.roundCounter /\ q(x).score = r.score
    BY <2>1 DEF Room
  <2>3. RoundFits(q(x))
    <3>1. RoundsPaid(q(x)) = r.roundCounter
      BY <2>2 DEF RoundsPaid, HasActiveRound, NoRound
    <3>2. \A p \in Player : r.score[p] <= r.roundCounter
      BY DEF RoomOK, Room, RoundFits, RoundsPaid
    <3> QED
      BY <2>2, <3>1, <3>2 DEF RoundFits, HasRound, ScoreFits, NoRound
  <2>4. RoomOK(q(x), w)
    BY <2>2, <2>3 DEF RoomOK, ControlFits, Holder, Pending, HoldFits
  <2> HIDE DEF q
  <2> QED
    BY <2>2, <2>4 DEF Quiet, SameTime, Drops
<1>2. r \in Room /\ r.selectedGameId \in Game \cup {NoGame}
  BY DEF RoomOK, Room
<1>3. q(g) = SelectGame(r, g) /\ q(r.selectedGameId) = AbortRound(r)
  BY <1>2 DEF SelectGame, AbortRound, Room
<1> HIDE DEF q
<1> QED
  BY <1>1, <1>2, <1>3

\* A round opened in a room that is not held.
LEMMA OpenOpens ==
  ASSUME NEW r, NEW w \in Nat, RoomOK(r, w), r.selectedGameId \in Game,
         ~HasActiveRound(r), ~IsPaused(r.clock)
  PROVE  Opens(r, OpenRound(r, w), w)
<1> DEFINE b == InitialState(r, w)
           q == OpenRound(r, w)
<1>1. r \in Room /\ r.roundCounter \in Nat
  BY DEF RoomOK, Room
<1>2. /\ b \in Round /\ b.phase = "round_intro" /\ ~b.scoreCommitted
      /\ b.gameId = r.selectedGameId
  <2>1. RoomNow(r.clock, w) + Duration["round_intro"] \in Nat
    BY RoomTime, DurationsFit DEF TimedPhase
  <2> QED
    BY <1>1, <2>1 DEF InitialState, Round, Phase, TimedPhase
<1>3. /\ q \in Room
      /\ q.ready = r.ready /\ q.players = r.players /\ q.clock = r.clock
      /\ q.hostControl = r.hostControl /\ q.currentRound = b
      /\ q.selectedGameId = r.selectedGameId /\ q.roundCounter = r.roundCounter + 1
      /\ q.score = r.score
  <2> HIDE DEF b
  <2> DEFINE n == r.roundCounter + 1
  <2>1. q = [r EXCEPT !.currentRound = b, !.roundCounter = n] /\ n \in Nat
    BY <1>1 DEF OpenRound, b
  <2> HIDE DEF q, n
  <2>2. /\ q \in Room
        /\ q.ready = r.ready /\ q.players = r.players /\ q.clock = r.clock
        /\ q.hostControl = r.hostControl /\ q.currentRound = b
        /\ q.selectedGameId = r.selectedGameId /\ q.roundCounter = n /\ q.score = r.score
    BY <1>1, <1>2, <2>1 DEF Room
  <2> QED
    BY <2>2 DEF n
<1> HIDE DEF b, q
<1>4. RoundFits(q)
  <2>1. RoundsPaid(q) = r.roundCounter /\ RoundsPaid(r) \in Int /\ RoundsPaid(r) <= r.roundCounter
    BY <1>1, <1>2, <1>3 DEF RoundsPaid, HasActiveRound
  <2>2. \A p \in Player : q.score[p] <= RoundsPaid(q)
    BY <1>1, <1>3, <2>1 DEF RoomOK, Room, RoundFits
  <2> QED
    BY <1>2, <1>3, <2>2 DEF RoundFits, ScoreFits, HasRound
<1>5. RoomOK(q, w)
  BY <1>3, <1>4 DEF RoomOK, ControlFits, Holder, Pending, HoldFits
<1>6. Opens(r, q, w)
  BY <1>2, <1>3, <1>5 DEF Opens, SameTime
<1> QED
  BY <1>6 DEF q

\* Both ways into a round: the pause is cleared, the round opened, and for a game
\* that waits for its players everybody's readiness taken back.
LEMMA StartOpens ==
  ASSUME NEW r, NEW w \in Nat, RoomOK(r, w), r.selectedGameId \in Game, ~HasActiveRound(r)
  PROVE  /\ Opens(r, StartRound(ClearPause(r, w), w), w)
         /\ Opens(r, SetAllReady(StartRound(ClearPause(r, w), w), FALSE), w)
<1> DEFINE m == ClearPause(r, w)
           q == OpenRound(m, w)
           u == [q EXCEPT !.ready = {}]
<1>1. r \in Room
  BY DEF RoomOK
<1>2. Quiet(r, m, w) /\ RoomOK(m, w) /\ ~IsPaused(m.clock)
  BY ClearPauseQuiet DEF Quiet
<1>3. m.selectedGameId = r.selectedGameId /\ m.currentRound = r.currentRound
  BY <1>1 DEF ClearPause, Room
<1> HIDE DEF m
<1>4. ~HasActiveRound(m) /\ m.selectedGameId \in Game
  BY <1>3 DEF HasActiveRound
<1>5. Opens(m, q, w)
  BY <1>2, <1>4, OpenOpens
<1>6. StartRound(m, w) = q
  BY <1>4, NullsAreNew DEF StartRound
<1> HIDE DEF q
<1>7. Opens(r, q, w)
  BY <1>2, <1>5 DEF Quiet, Opens, SameTime
<1>8. Opens(r, u, w)
  <2>1. RoomOK(q, w) /\ q \in Room
    BY <1>7 DEF Opens, RoomOK
  <2>2. RoomOK(u, w)
    BY <2>1, ReadyReplaced
  <2>3. u.clock = q.clock /\ u.currentRound = q.currentRound /\ u.roundCounter = q.roundCounter
    BY <2>1 DEF Room
  <2> HIDE DEF u
  <2> QED
    BY <1>7, <2>2, <2>3 DEF Opens, SameTime
<1>9. SetAllReady(q, FALSE) = u
  BY DEF SetAllReady
<1> QED
  BY <1>6, <1>7, <1>8, <1>9 DEF m

LEMMA ReadyLockedOpens ==
  ASSUME NEW r, NEW w \in Nat, RoomOK(r, w), r.selectedGameId \in Game, ~HasActiveRound(r)
  PROVE  Opens(r, StartReadyLockedRound(r, w), w)
BY StartOpens DEF StartReadyLockedRound

\* After any handler that may start the round of a waiting game.
LEMMA AutoStartSound ==
  ASSUME NEW r, NEW w \in Nat, RoomOK(r, w), NEW goOn
  PROVE  Sound(r, MaybeAutoStartReadyRound(r, w, goOn), w)
<1>1. CanStartRound(r, r.selectedGameId) => r.selectedGameId \in Game /\ ~HasActiveRound(r)
  BY DEF CanStartRound, RoomOK, Room
<1>2. CanStartRound(r, r.selectedGameId) => Opens(r, StartReadyLockedRound(r, w), w)
  BY <1>1, ReadyLockedOpens
<1> QED
  BY <1>2, QuietItself DEF MaybeAutoStartReadyRound, Sound

\* What follows a round that a tick finished.
LEMMA SettleSound ==
  ASSUME NEW r, NEW w \in Nat, RoomOK(r, w), r.currentRound.phase = "finished", NEW goOn
  PROVE  Sound(r, SettleFinishedRound(r, w, goOn), w)
<1>1. r.selectedGameId \in Game /\ ~HasActiveRound(r)
  <2>1. HasRound(r)
    BY DEF HasRound
  <2>2. r.currentRound.gameId \in Game
    BY <2>1, PhaseOfRoom DEF Round
  <2> QED
    BY <2>1, <2>2 DEF RoomOK, RoundFits, HasActiveRound
<1>2. Opens(r, SetAllReady(StartRound(ClearPause(r, w), w), FALSE), w)
  BY <1>1, StartOpens
<1>3. Quiet(r, SetAllReady(r, FALSE), w)
  BY ReadyQuiet DEF SetAllReady
<1> QED
  BY <1>2, <1>3, QuietItself DEF SettleFinishedRound, Sound

LEMMA TimerSound ==
  ASSUME NEW r, NEW w \in Nat, RoomOK(r, w), NEW hooks \in Hooks
  PROVE  Sound(r, RoundTimerTick(r, w, hooks), w)
<1> DEFINE m == ExpireHostControlRequest(r, w)
           t == TickRoom(m, w, hooks)
<1>1. Quiet(r, m, w) /\ RoomOK(m, w)
  BY ExpireQuiet DEF Quiet
<1> HIDE DEF m
<1>2. Quiet(m, t, w)
  BY <1>1, TickQuiet
<1> HIDE DEF t
<1>3. Quiet(r, t, w) /\ RoomOK(t, w)
  BY <1>1, <1>2, QuietThenSound DEF Sound, Quiet
<1>4. t.currentRound.phase = "finished" => Sound(r, SettleFinishedRound(t, w, hooks.goOn), w)
  BY <1>3, SettleSound, QuietThenSound
<1> QED
  BY <1>3, <1>4 DEF RoundTimerTick, AdvanceRound, Sound, m, t

-----------------------------------------------------------------------------
(* Every step of the room.                                                 *)

LEMMA HooksForAreHooks == ASSUME NEW r PROVE HooksFor(r) \subseteq Hooks
BY DEF HooksFor

\* A handler that ends by looking for a round to start.
LEMMA ThenAutoStart ==
  ASSUME NEW r, NEW w \in Nat, RoomOK(r, w), NEW m, Quiet(r, m, w), NEW goOn
  PROVE  Sound(r, MaybeAutoStartReadyRound(m, w, goOn), w)
<1>1. RoomOK(m, w)
  BY DEF Quiet
<1> QED
  BY <1>1, AutoStartSound, QuietThenSound

LEMMA PlayerStepSound ==
  ASSUME IInv, NEW p \in Player, PlayerStep(p)
  PROVE  wall' = wall /\ Sound(room, room', wall)
<1> USE DEF IInv
<1>0. room \in Room /\ room.ready \subseteq room.players /\ wall \in Nat
  BY DEF RoomOK
<1>1. CASE JoinPlayer(p)
  BY <1>1, JoinQuiet DEF JoinPlayer, Becomes, Sound
<1>2. CASE LeaveRoom(p)
  BY <1>2, RemoveQuiet DEF LeaveRoom, RemovePlayer, Becomes, Sound
<1>3. ASSUME NEW isReady \in BOOLEAN, NEW goOn, SetReady(p, isReady, goOn)
      PROVE  wall' = wall /\ Sound(room, room', wall)
  <2> DEFINE S == IF isReady THEN room.ready \cup {p} ELSE room.ready \ {p}
             m == [room EXCEPT !.ready = S]
  <2>1. S \in SUBSET room.players
    BY <1>0, <1>3 DEF SetReady
  <2> HIDE DEF S
  <2>2. Quiet(room, m, wall)
    BY <2>1, ReadyQuiet
  <2>3. wall' = wall /\ room' = MaybeAutoStartReadyRound(m, wall, goOn)
    BY <1>3 DEF SetReady, Becomes, S
  <2> HIDE DEF m
  <2> QED
    BY <2>2, <2>3, ThenAutoStart
<1>4. ASSUME NEW goOn, SetPlayerSetup(p, goOn)
      PROVE  wall' = wall /\ Sound(room, room', wall)
  <2> DEFINE g == room.selectedGameId
             C == [room.chosen EXCEPT ![g] = @ \cup {p}]
             S == room.ready \ {p}
             m == [room EXCEPT !.chosen = C, !.ready = S]
  <2>1. C \in [Game -> SUBSET Player] /\ S \in SUBSET room.players
    BY <1>0, <1>4, ManifestsFit DEF SetPlayerSetup, Room
  <2>2. wall' = wall /\ room' = MaybeAutoStartReadyRound(m, wall, goOn)
    BY <1>4 DEF SetPlayerSetup, Becomes
  <2> HIDE DEF C, S
  <2>3. Quiet(room, m, wall)
    <3>1. room.confirmed \in SUBSET Game
      BY <1>0 DEF Room
    <3> QED
      BY <2>1, <3>1, SetupQuiet
  <2> HIDE DEF m
  <2> QED
    BY <2>2, <2>3, ThenAutoStart
<1>5. CASE RequestControl(p)
  BY <1>5, RequestQuiet DEF RequestControl, Becomes, Sound
<1> QED
  BY <1>1, <1>2, <1>3, <1>4, <1>5 DEF PlayerStep

LEMMA DriverStepSound ==
  ASSUME IInv, NEW by \in Actor, DriverStep(by)
  PROVE  wall' = wall /\ Sound(room, room', wall)
<1> USE DEF IInv
<1>0. room \in Room /\ wall \in Nat
  BY DEF RoomOK
<1>1. ASSUME NEW p \in Player, KickPlayer(by, p)
      PROVE  wall' = wall /\ Sound(room, room', wall)
  BY <1>1, RemoveQuiet DEF KickPlayer, RemovePlayer, Becomes, Sound
<1>2. ASSUME NEW p \in Player, NEW grant \in BOOLEAN, ResolveControl(by, p, grant)
      PROVE  wall' = wall /\ Sound(room, room', wall)
  BY <1>2, ResolveQuiet DEF ResolveControl, Becomes, Sound
<1>3. CASE ReleaseControl(by)
  BY <1>3, ReleaseQuiet DEF ReleaseControl, Becomes, Sound
<1>4. ASSUME NEW paused \in BOOLEAN, HoldRound(by, paused)
      PROVE  wall' = wall /\ Sound(room, room', wall)
  BY <1>4, HoldQuiet DEF HoldRound, Becomes, Sound
<1>5. ASSUME NEW g \in Game \cup {NoGame}, NEW goOn, Select(by, g, goOn)
      PROVE  wall' = wall /\ Sound(room, room', wall)
  <2> DEFINE s == SelectGame(room, g)
             K == s.confirmed \ {g}
             m == [s EXCEPT !.confirmed = K]
  <2>1. Quiet(room, s, wall) /\ RoomOK(s, wall)
    BY DropQuiet DEF Quiet
  <2>2. wall' = wall /\ room' = MaybeAutoStartReadyRound(m, wall, goOn)
    BY <1>5 DEF Select, Becomes
  <2> HIDE DEF s
  <2>3. K \in SUBSET Game /\ s.chosen \in [Game -> SUBSET Player] /\ s.ready \in SUBSET s.players
    BY <2>1 DEF RoomOK, Room
  <2> HIDE DEF K
  <2>4. Quiet(s, m, wall)
    BY <2>1, <2>3, SetupQuiet
  <2> HIDE DEF m
  <2>5. Quiet(room, m, wall)
    BY <2>1, <2>4, QuietThenSound DEF Sound
  <2> QED
    BY <2>2, <2>5, ThenAutoStart
<1>6. ASSUME NEW phase \in GamePhases, NEW confirm \in BOOLEAN, NEW goOn,
             HostAction(by, phase, confirm, goOn)
      PROVE  wall' = wall /\ Sound(room, room', wall)
  <2>1. room.selectedGameId \in Game
    BY <1>0, <1>6 DEF HostAction, Room
  <2>2. Quiet(room, HandleHostAction(room, wall, phase, confirm), wall)
    BY <2>1, HostActionQuiet
  <2> QED
    BY <1>6, <2>2, ThenAutoStart DEF HostAction, Becomes
<1>7. CASE RoundStart(by)
  <2>1. room.selectedGameId \in Game /\ ~HasActiveRound(room)
    BY <1>0, <1>7 DEF RoundStart, CanStartRound, Room
  <2> QED
    BY <1>7, <2>1, ReadyLockedOpens DEF RoundStart, Becomes, Sound
<1>8. CASE RoundAbort(by)
  <2> DEFINE m == ClearPause(room, wall)
  <2>1. Quiet(room, m, wall) /\ RoomOK(m, wall)
    BY ClearPauseQuiet DEF Quiet
  <2>2. wall' = wall /\ room' = AbortRound(m)
    BY <1>8 DEF RoundAbort, Becomes
  <2> HIDE DEF m
  <2>3. Quiet(m, AbortRound(m), wall)
    BY <2>1, DropQuiet
  <2> QED
    BY <2>1, <2>2, <2>3, QuietThenSound DEF Sound
<1> QED
  BY <1>1, <1>2, <1>3, <1>4, <1>5, <1>6, <1>7, <1>8 DEF DriverStep

\* A step of the system is a sound step of the room, or wall time passing.
LEMMA StepSound ==
  ASSUME IInv, Next
  PROVE  (wall' = wall /\ Sound(room, room', wall)) \/ TimePasses
<1> USE DEF IInv
<1>1. CASE \E p \in Player : PlayerStep(p)
  BY <1>1, PlayerStepSound
<1>2. CASE \E by \in Actor : DriverStep(by)
  BY <1>2, DriverStepSound
<1>3. CASE \E hooks \in HooksFor(room) : GameInput(hooks)
  BY <1>3, HooksForAreHooks, InputQuiet DEF GameInput, Becomes, Sound
<1>4. CASE RoundTimer
  BY <1>4, HooksForAreHooks, TimerSound DEF RoundTimer, Becomes
<1> QED
  BY <1>1, <1>2, <1>3, <1>4 DEF Next

-----------------------------------------------------------------------------
(* The theorems.                                                           *)

LEMMA InitSound == Init => IInv
<1> SUFFICES ASSUME Init PROVE IInv
  OBVIOUS
<1>1. NewRoom \in Room
  BY DEF NewRoom, Room, HostControl, Clock
<1>2. RoomOK(NewRoom, 0)
  BY <1>1 DEF NewRoom, NoRound, RoomOK, ClockFits, IsPaused, ControlFits, Holder, Pending, HoldFits,
              RoundFits, HasRound, ScoreFits, RoundsPaid, HasActiveRound
<1> QED
  BY <1>2 DEF Init, IInv

LEMMA NextSound == IInv /\ [Next]_vars => IInv'
<1> SUFFICES ASSUME IInv, [Next]_vars PROVE IInv'
  OBVIOUS
<1>1. CASE wall' = wall /\ Sound(room, room', wall)
  BY <1>1 DEF IInv, Sound, Quiet, Opens
<1>2. CASE TimePasses
  <2>1. room.clock \in Clock /\ wall \in Nat /\ ClockFits(room.clock, wall)
    BY DEF IInv, RoomOK, Room
  <2>2. ClockFits(room.clock, wall + 1) /\ wall + 1 \in Nat
    BY <2>1, TimeMovesClock
  <2> QED
    BY <1>2, <2>2 DEF TimePasses, IInv, RoomOK
<1>3. CASE UNCHANGED vars
  BY <1>3 DEF vars, IInv
<1> QED
  BY <1>1, <1>2, <1>3, StepSound

\* The inductive invariant holds in every state of every behaviour.
THEOREM Soundness == Spec => []IInv
BY InitSound, NextSound, PTL DEF Spec

LEMMA SoundImplies ==
  IInv => /\ TypeOK /\ ControlBelongsToTheRoom /\ HoldBelongsToTheRoom
          /\ RoundIsOfSelectedGame /\ SettledRoundIsScored /\ PaidOncePerRound
BY DEF IInv, RoomOK, ControlFits, HoldFits, RoundFits, ScoreFits, TypeOK, ControlBelongsToTheRoom,
       HoldBelongsToTheRoom, RoundIsOfSelectedGame, SettledRoundIsScored, PaidOncePerRound

\* Every handler and timer turn leaves a well-formed room.
THEOREM TypeCorrect == Spec => []TypeOK
BY Soundness, SoundImplies, PTL

\* Departures, answers, deadlines and takeovers leave no stale holder or requester.
THEOREM ControlIsPresent == Spec => []ControlBelongsToTheRoom
BY Soundness, SoundImplies, PTL

\* Nobody who has left holds the round.
THEOREM HoldIsPresent == Spec => []HoldBelongsToTheRoom
BY Soundness, SoundImplies, PTL

\* The round's game and the selected game are one.
THEOREM RoundMatchesSelection == Spec => []RoundIsOfSelectedGame
BY Soundness, SoundImplies, PTL

\* Results are shown for scored rounds only, and played rounds are unscored.
THEOREM ResultsAreScored == Spec => []SettledRoundIsScored
BY Soundness, SoundImplies, PTL

\* No round pays a player twice.
THEOREM PaidOnce == Spec => []PaidOncePerRound
BY Soundness, SoundImplies, PTL

\* The clock games read never jumps.
THEOREM ClockContinuous == Spec => RoomClockContinuous
<1>1. IInv /\ [Next]_vars
        => [Now' = Now + (IF IsPaused(room.clock) THEN 0 ELSE wall' - wall)]_vars
  <2> SUFFICES ASSUME IInv, Next
               PROVE  Now' = Now + (IF IsPaused(room.clock) THEN 0 ELSE wall' - wall)
    OBVIOUS
  <2>1. wall \in Nat /\ room.clock \in Clock /\ ClockFits(room.clock, wall) /\ Now \in Nat
    BY RoomTime DEF IInv, RoomOK, Room, Now
  <2>2. CASE wall' = wall /\ Sound(room, room', wall)
    <3>1. Now' = Now
      BY <2>2 DEF Sound, Quiet, Opens, SameTime, Now
    <3> QED
      BY <2>1, <2>2, <3>1
  <2>3. CASE TimePasses
    <3>1. wall' = wall + 1 /\ room' = room
      BY <2>3 DEF TimePasses
    <3>2. Now' = Now + (IF IsPaused(room.clock) THEN 0 ELSE 1)
      BY <2>1, <3>1, TimeMovesClock DEF Now
    <3> QED
      BY <2>1, <3>1, <3>2
  <2> QED
    BY <2>2, <2>3, StepSound
<1> QED
  BY <1>1, Soundness, PTL DEF Spec, RoomClockContinuous

\* No path into a round begins it held.
THEOREM StartsRunning == Spec => RoundStartsRunning
<1>1. IInv /\ [Next]_vars
        => [room'.roundCounter # room.roundCounter => ~IsPaused(room'.clock)]_vars
  BY StepSound DEF Sound, Quiet, Opens, TimePasses
<1> QED
  BY <1>1, Soundness, PTL DEF Spec, RoundStartsRunning

\* The room, with all its handlers, keeps the promise of RoundLifecycle.
THEOREM RoomImplementsLifecycle == Spec => ImplementsLifecycle
<1>1. Init => Lifecycle!Init
  BY DEF Init, NewRoom, NoRound, Lifecycle!Init
<1>2. IInv /\ [Next]_vars => [Lifecycle!Next]_Lifecycle!vars
  <2> SUFFICES ASSUME IInv, [Next]_vars PROVE [Lifecycle!Next]_Lifecycle!vars
    OBVIOUS
  <2>1. CASE wall' = wall /\ Opens(room, room', wall)
    <3>1. room'.currentRound.scoreCommitted = FALSE
      <4>1. room'.currentRound \in Round \cup {NoRound}
        BY <2>1, PhaseOfRoom DEF Opens
      <4> QED
        BY <2>1, <4>1 DEF Opens, Round, NoRound
    <3>2. Lifecycle!Open
      BY <2>1, <3>1 DEF Opens, Lifecycle!Open
    <3> QED
      BY <3>2 DEF Lifecycle!Next
  <2>2. CASE wall' = wall /\ Quiet(room, room', wall) /\ Drops(room, room')
    <3>1. Lifecycle!Drop
      BY <2>2 DEF Quiet, Drops, NoRound, Lifecycle!Drop
    <3> QED
      BY <3>1 DEF Lifecycle!Next
  <2>3. CASE wall' = wall /\ Quiet(room, room', wall) /\ Moves(room, room')
    <3>1. /\ room'.currentRound.scoreCommitted \in BOOLEAN
          /\ ScoreFits(room'.currentRound)
      <4>1. room'.currentRound \in Round \cup {NoRound} /\ ScoreFits(room'.currentRound)
        BY <2>3, PhaseOfRoom DEF Quiet, RoomOK, RoundFits
      <4>2. CASE room'.currentRound \in Round
        BY <4>1, <4>2 DEF Round
      <4>3. CASE room'.currentRound = NoRound
        <5>1. NoRound.scoreCommitted = FALSE
          BY DEF NoRound
        <5> QED
          BY <4>1, <4>3, <5>1
      <4> QED
        BY <4>1, <4>2, <4>3
    <3>2. Lifecycle!ScoreFits(room'.currentRound.phase, room'.currentRound.scoreCommitted)
      BY <3>1 DEF ScoreFits, Lifecycle!ScoreFits, Lifecycle!Unscored, Lifecycle!Settled
    <3>3. Lifecycle!Advance
      BY <2>3, <3>1, <3>2 DEF Quiet, Moves, Lifecycle!Advance
    <3> QED
      BY <3>3 DEF Lifecycle!Next
  <2>4. CASE wall' = wall /\ Quiet(room, room', wall) /\ Keeps(room, room')
    BY <2>4 DEF Quiet, Keeps, Lifecycle!vars
  <2>5. CASE TimePasses \/ UNCHANGED vars
    BY <2>5 DEF TimePasses, vars, Lifecycle!vars
  <2> QED
    BY <2>1, <2>2, <2>3, <2>4, <2>5, StepSound DEF Sound, Quiet
<1> QED
  BY <1>1, <1>2, Soundness, PTL DEF Spec, ImplementsLifecycle, Lifecycle!Spec
-----------------------------------------------------------------------------
(***************************************************************************)
(* What no step may do: take the controls from somebody silently, or let a *)
(* deadline pass while the room is held.                                   *)
(*                                                                         *)
(* Every operator that does not deal with the controls leaves them and the *)
(* players alone (Undisturbed), and one that starts rounds keeps the       *)
(* current one or numbers a new one (Restarts).  Deadlines need one more   *)
(* invariant, that no round has a number that was not given out yet        *)
(* (Counted).                                                              *)
(***************************************************************************)

\* The fields of a room.
Fields == {"players", "ready", "score", "chosen", "confirmed", "hostControl", "clock",
           "selectedGameId", "roundCounter", "currentRound"}

\* The controls and the roster are left alone.
Undisturbed(r, q) ==
  /\ DOMAIN q = Fields
  /\ q.hostControl = r.hostControl
  /\ q.players = r.players

\* The round and the count of rounds stay.
SameRound(r, q) == q.currentRound = r.currentRound /\ q.roundCounter = r.roundCounter

\* A round with a new number.
NewNumber(r, q) ==
  q.roundCounter = r.roundCounter + 1 /\ q.currentRound.roundNumber = q.roundCounter

\* What an operator that may start a round does with it.
Restarts(r, q) == Undisturbed(r, q) /\ (SameRound(r, q) \/ NewNumber(r, q))

\* A room has the fields of Fields.
LEMMA RoomFields == ASSUME NEW r \in Room PROVE DOMAIN r = Fields
  BY DEF Room, Fields

\* Ending a pause touches neither the controls nor the round.
LEMMA ClearPauseRestarts ==
  ASSUME NEW r, NEW w, DOMAIN r = Fields
  PROVE  Undisturbed(r, ClearPause(r, w)) /\ SameRound(r, ClearPause(r, w))
  BY DEF ClearPause, Undisturbed, SameRound, Fields

\* Setting everybody's ready flag touches neither the controls nor the round.
LEMMA ReadyRestarts ==
  ASSUME NEW r, NEW b, DOMAIN r = Fields
  PROVE  Undisturbed(r, SetAllReady(r, b)) /\ SameRound(r, SetAllReady(r, b))
  BY DEF SetAllReady, Undisturbed, SameRound, Fields

\* startRound keeps the round or opens one with a new number.
LEMMA StartRestarts ==
  ASSUME NEW r, NEW w, DOMAIN r = Fields, r.roundCounter \in Nat
  PROVE  Restarts(r, StartRound(r, w))
<1>1. Restarts(r, r)
  BY DEF Restarts, Undisturbed, SameRound
<1>2. Restarts(r, OpenRound(r, w))
  BY DEF OpenRound, InitialState, Restarts, Undisturbed, NewNumber, Fields
<1> QED BY <1>1, <1>2 DEF StartRound

\* So does the start that ends the pause and clears the ready flags.
LEMMA ReadyStartRestarts ==
  ASSUME NEW r, NEW w, DOMAIN r = Fields, r.roundCounter \in Nat
  PROVE  Restarts(r, StartReadyLockedRound(r, w))
<1> DEFINE c == ClearPause(r, w)
           s == StartRound(c, w)
<1>1. Undisturbed(r, c) /\ SameRound(r, c)
  BY ClearPauseRestarts
<1> HIDE DEF c
<1>2. Restarts(c, s)
  BY <1>1, StartRestarts DEF Undisturbed, SameRound
<1> HIDE DEF s
<1>3. Undisturbed(s, SetAllReady(s, FALSE)) /\ SameRound(s, SetAllReady(s, FALSE))
  BY <1>2, ReadyRestarts DEF Restarts, Undisturbed
<1>4. Restarts(r, s)
  BY <1>1, <1>2 DEF Restarts, Undisturbed, SameRound, NewNumber
<1>5. Restarts(r, SetAllReady(s, FALSE))
  BY <1>3, <1>4 DEF Restarts, Undisturbed, SameRound, NewNumber
<1> QED BY <1>4, <1>5 DEF StartReadyLockedRound, s, c

\* So does the automatic start of a room whose players are all ready.
LEMMA AutoStartRestarts ==
  ASSUME NEW r, NEW w, DOMAIN r = Fields, r.roundCounter \in Nat, NEW goOn
  PROVE  Restarts(r, MaybeAutoStartReadyRound(r, w, goOn))
<1>1. Restarts(r, r)
  BY DEF Restarts, Undisturbed, SameRound
<1> QED BY <1>1, ReadyStartRestarts DEF MaybeAutoStartReadyRound

\* So does what the timer does with a finished round of a wait_for_ready game.
LEMMA SettleRestarts ==
  ASSUME NEW r, NEW w, DOMAIN r = Fields, r.roundCounter \in Nat, NEW goOn
  PROVE  Restarts(r, SettleFinishedRound(r, w, goOn))
<1> DEFINE c == ClearPause(r, w)
           s == StartRound(c, w)
<1>1. Undisturbed(r, c) /\ SameRound(r, c)
  BY ClearPauseRestarts
<1> HIDE DEF c
<1>2. Restarts(c, s)
  BY <1>1, StartRestarts DEF Undisturbed, SameRound
<1> HIDE DEF s
<1>3. Undisturbed(s, SetAllReady(s, FALSE)) /\ SameRound(s, SetAllReady(s, FALSE))
  BY <1>2, ReadyRestarts DEF Restarts, Undisturbed
<1>4. Restarts(r, SetAllReady(s, FALSE))
  BY <1>1, <1>2, <1>3 DEF Restarts, Undisturbed, SameRound, NewNumber
<1>5. Restarts(r, r) /\ Restarts(r, SetAllReady(r, FALSE))
  BY ReadyRestarts DEF Restarts, Undisturbed, SameRound
<1> QED BY <1>4, <1>5 DEF SettleFinishedRound, s, c

-----------------------------------------------------------------------------
(* Moving a round on.                                                      *)

\* What progressRoom changes of a room.
LEMMA ProgressUndisturbed ==
  ASSUME NEW r, NEW w, NEW hooks, NEW tick \in BOOLEAN, DOMAIN r = Fields
  PROVE  /\ Undisturbed(r, ProgressRoom(r, w, hooks, tick))
         /\ ProgressRoom(r, w, hooks, tick).roundCounter = r.roundCounter
         /\ ProgressRoom(r, w, hooks, tick).currentRound
              = ProgressRound(r.currentRound, RoomNow(r.clock, w), hooks, tick)
<1> DEFINE next == ProgressRound(r.currentRound, RoomNow(r.clock, w), hooks, tick)
           paid == IF CommitsNow(r.currentRound, next) /\ next.gameId \notin GameScoped
                   THEN ApplyScore(r, hooks.scorers) ELSE r
<1>1. Undisturbed(r, paid) /\ paid.roundCounter = r.roundCounter
  BY DEF ApplyScore, Undisturbed, Fields
<1>2. ProgressRoom(r, w, hooks, tick) = [paid EXCEPT !.currentRound = next]
  BY DEF ProgressRoom
<1> HIDE DEF paid, next
<1>3. LET q == [paid EXCEPT !.currentRound = next]
      IN  Undisturbed(r, q) /\ q.roundCounter = r.roundCounter /\ q.currentRound = next
  BY <1>1 DEF Undisturbed, Fields
<1> QED BY <1>2, <1>3 DEF next

\* A timed phase whose deadline lies ahead is not left.
LEMMA DeadlineHolds ==
  ASSUME NEW a \in Round, a.phase \in TimedPhase, NEW now, ~PhaseOver(a, now),
         NEW hooks, NEW tick \in BOOLEAN
  PROVE  ProgressRound(a, now, hooks, tick).phase = a.phase
<1>1. a.phase # "playing"
  BY DEF TimedPhase
<1>2. \A from, to : After(from, to, now)[a] = a
  BY DEF After
<1>3. Ticked(a, now, hooks, tick) = a /\ LockIfFinished(hooks.over, now)[a] = a
  BY <1>1 DEF Ticked, GameMoves, LockIfFinished
<1>4. Played(a, now, hooks, tick) = a
  BY <1>2, <1>3 DEF Played
<1> DEFINE b == CommitScore[a]
<1>5. b \in Round /\ b.phase = a.phase /\ b.phaseEndsAt = a.phaseEndsAt
  BY DEF CommitScore, Round
<1> HIDE DEF b
<1>6. \A from, to : After(from, to, now)[b] = b
  BY <1>5 DEF After, PhaseOver
<1>7. AfterLocked(now)[b] = b
  BY <1>5, <1>6 DEF AfterLocked
<1>8. ProgressRound(a, now, hooks, tick) = b
  BY <1>4, <1>6, <1>7 DEF ProgressRound, Shown, b
<1> QED BY <1>5, <1>8

\* A game moves a round only while it is played.
LEMMA GameLeavesTimed ==
  ASSUME NEW a \in Round, a.phase \in TimedPhase, NEW phase, NEW now
  PROVE  GameMoves(phase, now)[a] = a
  BY DEF GameMoves, TimedPhase

\* A round keeps its number while it moves on.
SameNumber(r, q) ==
  /\ Undisturbed(r, q) /\ q.roundCounter = r.roundCounter
  /\ q.currentRound.roundNumber = r.currentRound.roundNumber

\* progressRoom leaves the round's number.
LEMMA ProgressNumber ==
  ASSUME NEW r, NEW w \in Nat, RoomOK(r, w), HasRound(r), NEW hooks \in Hooks, NEW tick \in BOOLEAN
  PROVE  SameNumber(r, ProgressRoom(r, w, hooks, tick))
<1>1. DOMAIN r = Fields
  BY RoomFields DEF RoomOK
<1>2. r.currentRound \in Round /\ ScoreFits(r.currentRound)
  BY PhaseOfRoom DEF RoomOK, RoundFits
<1>3. Forward(r.currentRound, ProgressRound(r.currentRound, RoomNow(r.clock, w), hooks, tick))
  BY <1>2, RoomTime, ProgressForward
<1> QED BY <1>1, <1>3, ProgressUndisturbed DEF SameNumber, Forward

\* The timer's tick leaves the round's number.
LEMMA TickNumber ==
  ASSUME NEW r, NEW w \in Nat, RoomOK(r, w), NEW hooks \in Hooks
  PROVE  SameNumber(r, TickRoom(r, w, hooks))
<1>1. SameNumber(r, r)
  BY RoomFields DEF RoomOK, SameNumber, Undisturbed
<1> QED BY <1>1, ProgressNumber DEF TickRoom

\* A player's input leaves the round's number.
LEMMA InputNumber ==
  ASSUME NEW r, NEW w \in Nat, RoomOK(r, w), NEW hooks \in Hooks
  PROVE  SameNumber(r, HandleInput(r, w, hooks))
<1> DEFINE b == GameMoves(hooks.phase, RoomNow(r.clock, w))[r.currentRound]
           m == [r EXCEPT !.currentRound = b]
<1>1. DOMAIN r = Fields /\ r \in Room
  BY RoomFields DEF RoomOK
<1>2. CASE HasRound(r)
  <2>1. r.currentRound \in Round /\ ScoreFits(r.currentRound)
    BY <1>2, PhaseOfRoom DEF RoomOK, RoundFits
  <2>2. Forward(r.currentRound, b)
    BY <2>1, RoomTime, GameMovesForward DEF Hooks
  <2> HIDE DEF b
  <2>3. Quiet(r, m, w)
    BY <1>2, <2>2, MoveQuiet
  <2>4. m.currentRound = b /\ SameNumber(r, m)
    BY <1>1, <2>2 DEF SameNumber, Undisturbed, Fields, Forward
  <2>5. RoomOK(m, w) /\ HasRound(m)
    BY <2>2, <2>3, <2>4 DEF Quiet, HasRound, Phase, TimedPhase, Forward, Round
  <2> HIDE DEF m
  <2>6. SameNumber(m, ProgressRoom(m, w, hooks, FALSE))
    BY <2>5, ProgressNumber
  <2>7. SameNumber(r, ProgressRoom(m, w, hooks, FALSE))
    BY <2>4, <2>6 DEF SameNumber, Undisturbed
  <2> QED BY <1>2, <2>7 DEF HandleInput, m, b
<1>3. CASE ~HasRound(r)
  BY <1>1, <1>3 DEF HandleInput, SameNumber, Undisturbed
<1> QED BY <1>2, <1>3

\* An input that comes while a deadline lies ahead leaves the phase.
LEMMA InputWaits ==
  ASSUME NEW r, NEW w \in Nat, RoomOK(r, w), NEW hooks \in Hooks,
         r.currentRound.phase \in TimedPhase,
         ~PhaseOver(r.currentRound, RoomNow(r.clock, w))
  PROVE  HandleInput(r, w, hooks).currentRound.phase = r.currentRound.phase
<1>1. DOMAIN r = Fields /\ HasRound(r) /\ r.currentRound \in Round
  BY PhaseOfRoom, RoomFields DEF RoomOK, HasRound, TimedPhase
<1>2. GameMoves(hooks.phase, RoomNow(r.clock, w))[r.currentRound] = r.currentRound
  BY <1>1, GameLeavesTimed
<1> DEFINE m == [r EXCEPT !.currentRound = r.currentRound]
<1>3. DOMAIN m = Fields /\ m.currentRound = r.currentRound /\ m.clock = r.clock
  BY <1>1 DEF Fields
<1>4. HandleInput(r, w, hooks) = ProgressRoom(m, w, hooks, FALSE)
  BY <1>1, <1>2 DEF HandleInput
<1> HIDE DEF m
<1>5. HandleInput(r, w, hooks).currentRound
        = ProgressRound(r.currentRound, RoomNow(r.clock, w), hooks, FALSE)
  <2>1. ProgressRoom(m, w, hooks, FALSE).currentRound
          = ProgressRound(m.currentRound, RoomNow(m.clock, w), hooks, FALSE)
    BY <1>3, ProgressUndisturbed
  <2> QED BY <1>3, <1>4, <2>1
<1>6. ProgressRound(r.currentRound, RoomNow(r.clock, w), hooks, FALSE).phase = r.currentRound.phase
  <2> DEFINE now == RoomNow(r.clock, w)
             a == r.currentRound
  <2>1. a \in Round /\ a.phase \in TimedPhase /\ ~PhaseOver(a, now)
    BY <1>1
  <2> HIDE DEF now, a
  <2>2. ProgressRound(a, now, hooks, FALSE).phase = a.phase
    BY <2>1, DeadlineHolds
  <2> QED BY <2>2 DEF now, a
<1> QED BY <1>5, <1>6

-----------------------------------------------------------------------------
(* What a step may do.                                                     *)

\* No round has a number that was not given out.
Counted == room.currentRound.roundNumber <= room.roundCounter

\* A step keeps the round's number, drops the round or numbers a new one, and leaves a timed
\* phase of a held round only when its deadline had passed.
Calm(r, q, w) ==
  /\ \/ /\ q.roundCounter = r.roundCounter
        /\ q.currentRound.roundNumber \in {r.currentRound.roundNumber, 0}
     \/ NewNumber(r, q)
  /\ (/\ IsPaused(r.clock) /\ r.currentRound.phase \in TimedPhase
      /\ q.currentRound.roundNumber = r.currentRound.roundNumber
      /\ q.currentRound.phase # r.currentRound.phase)
     => PhaseOver(r.currentRound, RoomNow(r.clock, w))

\* The controls pass between players in the room only with consent: the step of NoSilentTakeover.
Consented ==
  LET from == Holder(room)
      to   == Holder(room')
  IN  from \in room.players /\ to \notin {from, NoPlayer} =>
        /\ Pending(room).playerId = to
        /\ \/ Pending(room).expiresAt <= wall
           \/ \E by \in Actor : ResolveControl(by, to, TRUE)

\* Nobody is taken over where the controls stay.
LEMMA SameControlConsented ==
  ASSUME room'.hostControl = room.hostControl PROVE Consented
  BY DEF Consented, Holder

\* No deadline passes where the round stays.
LEMMA SameRoundCalm ==
  ASSUME NEW r, NEW q, NEW w, SameRound(r, q) PROVE Calm(r, q, w)
  BY DEF SameRound, Calm

\* A handler changes the room and then looks for a round to start.
LEMMA RestartsCalm ==
  ASSUME NEW r, NEW m, NEW q, NEW w, Restarts(m, q), m.roundCounter = r.roundCounter,
         r.roundCounter \in Nat, r.currentRound \in Round \cup {NoRound},
         r.currentRound.roundNumber <= r.roundCounter,
         \/ m.currentRound = NoRound
         \/ /\ m.currentRound.roundNumber = r.currentRound.roundNumber
            /\ r.currentRound.phase \in TimedPhase => m.currentRound.phase = r.currentRound.phase
  PROVE  Calm(r, q, w)
<1>1. r.currentRound.roundNumber \in Nat
  BY DEF Round, NoRound
<1>2. r.currentRound.phase \in TimedPhase => r.currentRound.roundNumber # 0
  BY DEF Round, NoRound, TimedPhase
<1>3. NoRound.roundNumber = 0
  BY DEF NoRound
<1>4. CASE NewNumber(m, q)
  BY <1>1, <1>4 DEF NewNumber, Calm
<1>5. CASE SameRound(m, q)
  BY <1>2, <1>3, <1>5 DEF SameRound, Calm
<1> QED BY <1>4, <1>5 DEF Restarts

\* Removing a player leaves the round, and the controls with their holder or nobody.
LEMMA RemoveFollows ==
  ASSUME NEW r \in Room, NEW w, NEW p \in Player,
         NEW q, q = ForgetHostControlForPlayer(WithoutPlayer(r, p), p, w)
  PROVE  SameRound(r, q) /\ Holder(q) \in {Holder(r), NoPlayer}
<1> DEFINE m == WithoutPlayer(r, p)
           c == WithControl(m, IF Holder(m) = p THEN NoPlayer ELSE Holder(m),
                               IF Pending(m).playerId = p THEN NoRequest ELSE Pending(m))
<1>1. DOMAIN m = Fields /\ SameRound(r, m) /\ m.hostControl = r.hostControl
  BY RoomFields DEF WithoutPlayer, SameRound, Fields
<1> HIDE DEF m
<1>2. DOMAIN c = Fields /\ SameRound(m, c) /\ Holder(c) \in {Holder(m), NoPlayer}
  BY <1>1 DEF WithControl, SameRound, Fields, Holder
<1> HIDE DEF c
<1>3. SameRound(c, ReleasePauseHeldBy(c, p, w))
      /\ ReleasePauseHeldBy(c, p, w).hostControl = c.hostControl
  BY <1>2, ClearPauseRestarts DEF ReleasePauseHeldBy, SameRound, Undisturbed
<1>4. q = ReleasePauseHeldBy(c, p, w)
  BY DEF ForgetHostControlForPlayer, c, m
<1> QED BY <1>1, <1>2, <1>3, <1>4 DEF SameRound, Holder

\* Handing the controls over leaves the round; a holder who has left is nobody.
LEMMA WithControlFollows ==
  ASSUME NEW r, DOMAIN r = Fields, NEW h, NEW p
  PROVE  /\ SameRound(r, WithControl(r, h, p)) /\ Holder(WithControl(r, h, p)) = h
         /\ DOMAIN WithControl(r, h, p) = Fields /\ WithControl(r, h, p).players = r.players
  BY DEF WithControl, SameRound, Holder, Fields

\* What a phone may ask of its room passes no deadline and takes no controls.
LEMMA PlayerStepCalm ==
  ASSUME IInv, Counted, NEW p \in Player, PlayerStep(p)
  PROVE  Calm(room, room', wall) /\ Consented
<1>0. /\ room \in Room /\ DOMAIN room = Fields /\ room.roundCounter \in Nat
      /\ room.currentRound \in Round \cup {NoRound}
      /\ room.currentRound.roundNumber <= room.roundCounter
  BY RoomFields DEF IInv, RoomOK, Room, Counted
<1>1. CASE JoinPlayer(p)
  <2>1. SameRound(room, room') /\ room'.hostControl = room.hostControl
    BY <1>0, <1>1 DEF JoinPlayer, Becomes, SameRound, Fields
  <2> QED BY <2>1, SameRoundCalm, SameControlConsented
<1>2. CASE LeaveRoom(p)
  <2>1. SameRound(room, room') /\ Holder(room') \in {Holder(room), NoPlayer}
    BY <1>0, <1>2, RemoveFollows DEF LeaveRoom, RemovePlayer, Becomes
  <2> QED BY <2>1, SameRoundCalm DEF Consented
<1>3. ASSUME NEW isReady \in BOOLEAN, NEW goOn, SetReady(p, isReady, goOn)
      PROVE  Calm(room, room', wall) /\ Consented
  <2> DEFINE S == IF isReady THEN room.ready \cup {p} ELSE room.ready \ {p}
             m == [room EXCEPT !.ready = S]
  <2>1. room' = MaybeAutoStartReadyRound(m, wall, goOn)
    BY <1>3 DEF SetReady, Becomes
  <2> HIDE DEF S
  <2>2. Undisturbed(room, m) /\ SameRound(room, m)
    BY <1>0 DEF Undisturbed, SameRound, Fields
  <2> HIDE DEF m
  <2>3. Restarts(m, room')
    BY <1>0, <2>1, <2>2, AutoStartRestarts DEF Undisturbed, SameRound
  <2>4. Calm(room, room', wall)
    BY <1>0, <2>2, <2>3, RestartsCalm DEF SameRound
  <2>5. room'.hostControl = room.hostControl
    BY <2>2, <2>3 DEF Restarts, Undisturbed
  <2> QED BY <2>4, <2>5, SameControlConsented
<1>4. ASSUME NEW goOn, SetPlayerSetup(p, goOn)
      PROVE  Calm(room, room', wall) /\ Consented
  <2> DEFINE m == [room EXCEPT !.chosen[room.selectedGameId] = @ \cup {p}, !.ready = @ \ {p}]
  <2>1. room' = MaybeAutoStartReadyRound(m, wall, goOn)
    BY <1>4 DEF SetPlayerSetup, Becomes
  <2>2. Undisturbed(room, m) /\ SameRound(room, m)
    BY <1>0 DEF Undisturbed, SameRound, Fields
  <2> HIDE DEF m
  <2>3. Restarts(m, room')
    BY <1>0, <2>1, <2>2, AutoStartRestarts DEF Undisturbed, SameRound
  <2>4. Calm(room, room', wall)
    BY <1>0, <2>2, <2>3, RestartsCalm DEF SameRound
  <2>5. room'.hostControl = room.hostControl
    BY <2>2, <2>3 DEF Restarts, Undisturbed
  <2> QED BY <2>4, <2>5, SameControlConsented
<1>5. CASE RequestControl(p)
  <2>1. CASE Holder(room) \in room.players \ {p}
    <3>1. SameRound(room, room') /\ Holder(room') = Holder(room)
      BY <1>0, <1>5, <2>1, WithControlFollows DEF RequestControl, RequestHostControl, Becomes
    <3> QED BY <3>1, SameRoundCalm DEF Consented
  <2>2. CASE Holder(room) \notin room.players \ {p}
    <3>1. SameRound(room, room') /\ Holder(room') = p
      BY <1>0, <1>5, <2>2, WithControlFollows DEF RequestControl, RequestHostControl, Becomes
    <3> QED BY <2>2, <3>1, SameRoundCalm DEF Consented
  <2> QED BY <2>1, <2>2
<1> QED BY <1>1, <1>2, <1>3, <1>4, <1>5 DEF PlayerStep

\* What the screen, or the player in control, may ask passes no deadline and takes
\* the controls from nobody who has not been asked.
LEMMA DriverStepCalm ==
  ASSUME IInv, Counted, NEW by \in Actor, DriverStep(by)
  PROVE  Calm(room, room', wall) /\ Consented
<1>0. /\ room \in Room /\ DOMAIN room = Fields /\ room.roundCounter \in Nat
      /\ room.currentRound \in Round \cup {NoRound}
      /\ room.currentRound.roundNumber <= room.roundCounter
  BY RoomFields DEF IInv, RoomOK, Room, Counted
<1>1. ASSUME NEW p \in Player, KickPlayer(by, p) PROVE Calm(room, room', wall) /\ Consented
  <2>1. SameRound(room, room') /\ Holder(room') \in {Holder(room), NoPlayer}
    BY <1>0, <1>1, RemoveFollows DEF KickPlayer, RemovePlayer, Becomes
  <2> QED BY <2>1, SameRoundCalm DEF Consented
<1>2. ASSUME NEW p \in Player, NEW grant \in BOOLEAN, ResolveControl(by, p, grant)
      PROVE  Calm(room, room', wall) /\ Consented
  <2>1. CASE Pending(room).playerId = p /\ grant = TRUE
    <3>1. SameRound(room, room') /\ Holder(room') = IfPresent(room, p)
      BY <1>0, <1>2, <2>1, WithControlFollows DEF ResolveControl, ResolveHostControl, Becomes
    <3>2. Holder(room') \in {p, NoPlayer}
      BY <3>1 DEF IfPresent
    <3>3. ResolveControl(by, p, TRUE)
      BY <1>2, <2>1
    <3>4. Consented
      BY <2>1, <3>2, <3>3 DEF Consented
    <3> QED BY <3>1, <3>4, SameRoundCalm
  <2>2. CASE ~(Pending(room).playerId = p /\ grant = TRUE)
    <3>1. SameRound(room, room') /\ Holder(room') = Holder(room)
      <4>1. CASE Pending(room).playerId # p
        BY <1>2, <4>1 DEF ResolveControl, ResolveHostControl, Becomes, SameRound
      <4>2. CASE Pending(room).playerId = p /\ ~grant
        BY <1>0, <1>2, <4>2, WithControlFollows DEF ResolveControl, ResolveHostControl, Becomes
      <4> QED BY <2>2, <4>1, <4>2
    <3> QED BY <3>1, SameRoundCalm DEF Consented
  <2> QED BY <2>1, <2>2
<1>3. CASE ReleaseControl(by)
  <2> DEFINE c == ReleasePauseHeldBy(room, Holder(room), wall)
  <2>1. SameRound(room, c) /\ DOMAIN c = Fields
    BY <1>0, ClearPauseRestarts DEF ReleasePauseHeldBy, SameRound, Undisturbed
  <2>2. room' = WithControl(c, NoPlayer, NoRequest)
    BY <1>3 DEF ReleaseControl, ReleaseHostControl, Becomes
  <2> HIDE DEF c
  <2>3. SameRound(room, room') /\ Holder(room') = NoPlayer
    BY <2>1, <2>2, WithControlFollows DEF SameRound
  <2> QED BY <2>3, SameRoundCalm DEF Consented
<1>4. ASSUME NEW paused \in BOOLEAN, HoldRound(by, paused)
      PROVE  Calm(room, room', wall) /\ Consented
  <2>1. SameRound(room, room') /\ room'.hostControl = room.hostControl
    BY <1>0, <1>4 DEF HoldRound, Becomes, SameRound, Fields
  <2> QED BY <2>1, SameRoundCalm, SameControlConsented
<1>5. ASSUME NEW g \in Game \cup {NoGame}, NEW goOn, Select(by, g, goOn)
      PROVE  Calm(room, room', wall) /\ Consented
  <2> DEFINE s == SelectGame(room, g)
             m == [s EXCEPT !.confirmed = @ \ {g}]
  <2>1. room' = MaybeAutoStartReadyRound(m, wall, goOn)
    BY <1>5 DEF Select, Becomes
  <2>2. DOMAIN s = Fields /\ s.hostControl = room.hostControl /\ s.currentRound = NoRound
        /\ s.roundCounter = room.roundCounter
    BY <1>0 DEF SelectGame, Fields
  <2> HIDE DEF s
  <2>3. DOMAIN m = Fields /\ m.hostControl = room.hostControl /\ m.currentRound = NoRound
        /\ m.roundCounter = room.roundCounter
    BY <2>2 DEF Fields
  <2> HIDE DEF m
  <2>4. Restarts(m, room')
    BY <1>0, <2>1, <2>3, AutoStartRestarts
  <2>5. Calm(room, room', wall)
    BY <1>0, <2>3, <2>4, RestartsCalm
  <2>6. room'.hostControl = room.hostControl
    BY <2>3, <2>4 DEF Restarts, Undisturbed
  <2> QED BY <2>5, <2>6, SameControlConsented
<1>6. ASSUME NEW phase \in GamePhases, NEW confirm \in BOOLEAN, NEW goOn,
             HostAction(by, phase, confirm, goOn)
      PROVE  Calm(room, room', wall) /\ Consented
  <2> DEFINE m == HandleHostAction(room, wall, phase, confirm)
             a == room.currentRound
             b == GameMoves(phase, RoomNow(room.clock, wall))[a]
  <2>1. room' = MaybeAutoStartReadyRound(m, wall, goOn)
    BY <1>6 DEF HostAction, Becomes
  <2>2. /\ DOMAIN m = Fields /\ m.hostControl = room.hostControl
        /\ m.roundCounter = room.roundCounter
        /\ m.currentRound = IF a.gameId = room.selectedGameId THEN b ELSE a
    BY <1>0 DEF HandleHostAction, Fields
  <2>3. room.selectedGameId # NoGame /\ NoRound.gameId = NoGame
    BY <1>6 DEF HostAction, NoRound
  <2>4. a \in Round => /\ b.roundNumber = a.roundNumber
                       /\ a.phase \in TimedPhase => b.phase = a.phase
    <3>1. ASSUME a \in Round PROVE b.roundNumber = a.roundNumber
      BY <3>1 DEF GameMoves, Enter, Round
    <3>2. ASSUME a \in Round, a.phase \in TimedPhase PROVE b.phase = a.phase
      <4>1. a.phase # "playing"
        BY <3>2 DEF TimedPhase
      <4> QED BY <3>2, <4>1 DEF GameMoves
    <3> QED BY <3>1, <3>2
  <2> HIDE DEF m, b
  <2>5. /\ m.currentRound.roundNumber = a.roundNumber
        /\ a.phase \in TimedPhase => m.currentRound.phase = a.phase
    BY <1>0, <2>2, <2>3, <2>4
  <2>6. Restarts(m, room')
    BY <1>0, <2>1, <2>2, AutoStartRestarts
  <2>7. Calm(room, room', wall)
    BY <1>0, <2>2, <2>5, <2>6, RestartsCalm
  <2>8. room'.hostControl = room.hostControl
    BY <2>2, <2>6 DEF Restarts, Undisturbed
  <2> QED BY <2>7, <2>8, SameControlConsented
<1>7. CASE RoundStart(by)
  <2>1. Restarts(room, room')
    BY <1>0, <1>7, ReadyStartRestarts DEF RoundStart, Becomes
  <2>2. Calm(room, room', wall)
    BY <1>0, <2>1, RestartsCalm
  <2>3. room'.hostControl = room.hostControl
    BY <2>1 DEF Restarts, Undisturbed
  <2> QED BY <2>2, <2>3, SameControlConsented
<1>8. CASE RoundAbort(by)
  <2> DEFINE c == ClearPause(room, wall)
  <2>1. Undisturbed(room, c) /\ SameRound(room, c)
    BY <1>0, ClearPauseRestarts
  <2>2. room' = [c EXCEPT !.currentRound = NoRound]
    BY <1>8 DEF RoundAbort, AbortRound, Becomes
  <2> HIDE DEF c
  <2>3. /\ room'.hostControl = room.hostControl /\ DOMAIN room' = Fields
        /\ room'.roundCounter = room.roundCounter /\ room'.currentRound = NoRound
    BY <2>1, <2>2 DEF Undisturbed, SameRound, Fields
  <2>4. Restarts(room', room')
    BY <2>3 DEF Restarts, Undisturbed, SameRound
  <2>5. Calm(room, room', wall)
    BY <1>0, <2>3, <2>4, RestartsCalm
  <2> QED BY <2>3, <2>5, SameControlConsented
<1> QED BY <1>1, <1>2, <1>3, <1>4, <1>5, <1>6, <1>7, <1>8 DEF DriverStep

\* The timer's turn: an overdue request is granted, and a held room is not ticked.
LEMMA TimerCalm ==
  ASSUME IInv, Counted, RoundTimer
  PROVE  Calm(room, room', wall) /\ Consented
<1>0. /\ room \in Room /\ DOMAIN room = Fields /\ room.roundCounter \in Nat /\ wall \in Nat
      /\ room.currentRound \in Round \cup {NoRound} /\ RoomOK(room, wall)
      /\ room.currentRound.roundNumber <= room.roundCounter
  BY RoomFields DEF IInv, RoomOK, Room, Counted
<1> DEFINE e == ExpireHostControlRequest(room, wall)
<1>1. PICK hooks \in Hooks : room' = AdvanceRound(e, wall, hooks)
  BY HooksForAreHooks DEF RoundTimer, RoundTimerTick, Becomes
<1>2. /\ SameRound(room, e) /\ DOMAIN e = Fields /\ e.clock = room.clock
      /\ \/ Holder(e) = Holder(room)
         \/ /\ Pending(room).expiresAt <= wall
            /\ Holder(e) \in {Pending(room).playerId, NoPlayer}
  <2>1. CASE Pending(room) = NoRequest \/ wall < Pending(room).expiresAt
    BY <1>0, <2>1 DEF ExpireHostControlRequest, SameRound
  <2>2. CASE ~(Pending(room) = NoRequest \/ wall < Pending(room).expiresAt)
    <3>1. e = WithControl(room, IfPresent(room, Pending(room).playerId), NoRequest)
      BY <2>2 DEF ExpireHostControlRequest
    <3>2. Pending(room).expiresAt <= wall
      <4>1. Pending(room).expiresAt \in Nat
        BY <1>0 DEF Room, HostControl, Pending, Request, NoRequest
      <4> QED BY <1>0, <2>2, <4>1
    <3>3. e.clock = room.clock
      BY <1>0, <3>1 DEF WithControl, Fields
    <3> QED BY <1>0, <3>1, <3>2, <3>3, WithControlFollows DEF IfPresent
  <2> QED BY <2>1, <2>2
<1>3. RoomOK(e, wall)
  BY <1>0, ExpireQuiet DEF Quiet
<1> HIDE DEF e
<1> DEFINE t == TickRoom(e, wall, hooks)
<1>4. SameNumber(e, t)
  BY <1>0, <1>3, TickNumber
<1>5. IsPaused(room.clock) => t = e
  BY <1>2 DEF TickRoom
<1>6. Restarts(t, room')
  <2>1. DOMAIN t = Fields /\ t.roundCounter \in Nat
    BY <1>0, <1>2, <1>4 DEF SameNumber, Undisturbed, SameRound
  <2>2. Restarts(t, t)
    BY <2>1 DEF Restarts, Undisturbed, SameRound
  <2>3. room' = t \/ room' = SettleFinishedRound(t, wall, hooks.goOn)
    BY <1>1 DEF AdvanceRound
  <2> HIDE DEF t
  <2> QED BY <2>1, <2>2, <2>3, SettleRestarts
<1>7. IsPaused(room.clock) => room' = e
  BY <1>1, <1>2, <1>5 DEF AdvanceRound
<1> HIDE DEF t
<1>8. Calm(room, room', wall)
  <2>1. CASE IsPaused(room.clock)
    BY <1>2, <1>7, <2>1, SameRoundCalm
  <2>2. CASE ~IsPaused(room.clock)
    BY <1>0, <1>2, <1>4, <1>6, <2>2 DEF Calm, Restarts, SameRound, NewNumber, SameNumber
  <2> QED BY <2>1, <2>2
<1>9. Holder(room') = Holder(e)
  BY <1>4, <1>6 DEF SameNumber, Restarts, Undisturbed, Holder
<1>10. Consented
  BY <1>2, <1>9 DEF Consented
<1> QED BY <1>8, <1>10

\* Every step of the specification is calm and consented to.
LEMMA StepCalm ==
  ASSUME IInv, Counted, Next
  PROVE  Calm(room, room', wall) /\ Consented
<1>0. room \in Room /\ DOMAIN room = Fields /\ wall \in Nat /\ RoomOK(room, wall)
  BY RoomFields DEF IInv, RoomOK
<1>1. CASE \E p \in Player : PlayerStep(p)
  BY <1>1, PlayerStepCalm
<1>2. CASE \E by \in Actor : DriverStep(by)
  BY <1>2, DriverStepCalm
<1>3. ASSUME NEW hooks \in HooksFor(room), GameInput(hooks)
      PROVE  Calm(room, room', wall) /\ Consented
  <2>1. hooks \in Hooks /\ room' = HandleInput(room, wall, hooks)
    BY <1>3, HooksForAreHooks DEF GameInput, Becomes
  <2>2. SameNumber(room, room')
    BY <1>0, <2>1, InputNumber
  <2>3. (room.currentRound.phase \in TimedPhase /\ room'.currentRound.phase # room.currentRound.phase)
          => PhaseOver(room.currentRound, RoomNow(room.clock, wall))
    BY <1>0, <2>1, InputWaits
  <2>4. room'.hostControl = room.hostControl
    BY <2>2 DEF SameNumber, Undisturbed
  <2> QED BY <2>2, <2>3, <2>4, SameControlConsented DEF Calm, SameNumber
<1>4. CASE RoundTimer
  BY <1>4, TimerCalm
<1>5. CASE TimePasses
  <2>1. SameRound(room, room') /\ room'.hostControl = room.hostControl
    BY <1>5 DEF TimePasses, SameRound
  <2> QED BY <2>1, SameRoundCalm, SameControlConsented
<1> QED BY <1>1, <1>2, <1>3, <1>4, <1>5 DEF Next

\* Counted is an invariant.
LEMMA CountedAlways == Spec => []Counted
<1>1. Init => Counted
  BY DEF Init, NewRoom, NoRound, Counted
<1>2. IInv /\ Counted /\ [Next]_vars => Counted'
  <2> SUFFICES ASSUME IInv, Counted, [Next]_vars PROVE Counted'
    OBVIOUS
  <2>0. room.roundCounter \in Nat /\ room.currentRound.roundNumber \in Nat
    BY DEF IInv, RoomOK, Room, Round, NoRound
  <2>1. CASE Next
    BY <2>0, <2>1, StepCalm DEF Calm, NewNumber, Counted
  <2>2. CASE UNCHANGED vars
    BY <2>2 DEF vars, Counted
  <2> QED BY <2>1, <2>2
<1> QED BY <1>1, <1>2, Soundness, PTL DEF Spec

\* Nobody who holds the controls of the room is displaced but by an answer to exactly this
\* request, or by its deadline (roomManager.ts, roundTimerService.ts).
THEOREM TakeoversAreConsented == Spec => NoSilentTakeover
<1>1. IInv /\ Counted /\ [Next]_vars => [Consented]_vars
  BY StepCalm
<1>2. Spec => [][Consented]_vars
  BY <1>1, Soundness, CountedAlways, PTL DEF Spec
<1> QED BY <1>2 DEF NoSilentTakeover, Consented

\* A timed phase that ends while the room is held was over when it was paused, on every path
\* into the round engine (gameTransitionService.ts, roomManager.ts).
THEOREM PausesFreezeTimers == Spec => PauseFreezesTimers
<1>1. ASSUME IInv, Counted, [Next]_vars
      PROVE  [LET round == room.currentRound
              IN  /\ IsPaused(room.clock) /\ round.phase \in TimedPhase
                  /\ room'.currentRound.roundNumber = round.roundNumber
                  /\ room'.currentRound.phase # round.phase
                  => room.clock.pausedAt - room.clock.pausedTotalMs >= round.phaseEndsAt]_vars
  <2> SUFFICES ASSUME Next, IsPaused(room.clock), room.currentRound.phase \in TimedPhase,
                      room'.currentRound.roundNumber = room.currentRound.roundNumber,
                      room'.currentRound.phase # room.currentRound.phase
               PROVE  room.clock.pausedAt - room.clock.pausedTotalMs >= room.currentRound.phaseEndsAt
    BY <1>1
  <2>1. PhaseOver(room.currentRound, RoomNow(room.clock, wall))
    BY <1>1, StepCalm DEF Calm
  <2>2. room.clock.pausedAt \in Nat /\ room.clock.pausedTotalMs \in Nat /\ wall \in Nat
    BY <1>1 DEF IInv, RoomOK, Room, Clock, IsPaused
  <2>3. RoomNow(room.clock, wall) = room.clock.pausedAt - room.clock.pausedTotalMs
    BY <2>2 DEF RoomNow
  <2> QED BY <2>1, <2>3 DEF PhaseOver
<1> QED BY <1>1, Soundness, CountedAlways, PTL DEF Spec, PauseFreezesTimers
=============================================================================
