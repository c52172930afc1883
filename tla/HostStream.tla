----------------------------- MODULE HostStream -----------------------------
(***************************************************************************)
(* How the shared screen learns what the round looks like: the broadcaster *)
(* of the server (stateBroadcaster.ts), one connection, and the screen's   *)
(* client (hostSocketClient.ts, hostSurface.ts).                           *)
(*                                                                         *)
(* The screen gets full states and, from games that support them, patches  *)
(* against the state the server remembers having sent.  During live phases *)
(* full states are throttled and volatile: the transport drops them when   *)
(* it is busy.  Connections are FIFO and lose what is in flight when they  *)
(* end.  The content of a round is a version number; a patch that is       *)
(* merged into another state than the one it was made for gives Mixed, a   *)
(* state no game ever had. A phone gets the same stream without patches.   *)
(***************************************************************************)
EXTENDS Integers, Sequences

CONSTANTS
  Manifests,      \* the broadcast settings a game may have
  MaxRounds, MaxVersion, MaxDrops, MaxLosses, MaxLine   \* bounds of the model

Quiet == {"round_intro", "result", "finished"}
Live  == {"playing", "locked"}
Order == <<"round_intro", "playing", "locked", "result", "finished">>
Mixed == -1

\* The settings in manifest.broadcast, with a positive host interval as `throttled`
\* and a buildHostPatch hook under supportsHostPatches as `patches`.
Manifest == [reliable : BOOLEAN, patches : BOOLEAN, throttled : BOOLEAN, deferred : BOOLEAN]

ASSUME ManifestsFit == Manifests \subseteq Manifest

ASSUME StreamBoundsFit ==
  MaxRounds \in Nat /\ MaxVersion \in Nat /\ MaxDrops \in Nat /\ MaxLosses \in Nat /\ MaxLine \in Nat

\* A public game state: the round it belongs to, its phase and its content.
View    == [number : Nat, phase : Quiet \cup Live \cup {"none"}, version : Nat \cup {Mixed}]
Nothing == [number |-> 0, phase |-> "none", version |-> 0]

Message == [kind : {"ack", "room", "state", "patch", "aborted"}, game : View, base : Nat \cup {Mixed}]

\* known: a room snapshot was received since the page was loaded.
Screen   == [known : BOOLEAN, room : View, game : View, catalog : BOOLEAN]
NewScreen == [known |-> FALSE, room |-> Nothing, game |-> Nothing, catalog |-> FALSE]

VARIABLES
  manifest,     \* the game's settings
  round,        \* room.currentRound on the server
  opened,       \* rounds opened so far
  remembered,   \* lastHostStateByRoom
  held,         \* lastHostEmitAtByRoom is less than an interval ago
  joined,       \* the screen's socket is in the room
  line,         \* what is on its way to the screen
  screen,       \* the client's state
  asked,        \* what the screen has asked for and not been answered
  anchored,     \* history: `remembered` was put on this connection
  drops, losses \* counters for the bounds

server == <<manifest, round, opened, remembered, held>>
vars   == <<server, joined, line, screen, asked, anchored, drops, losses>>

Active(view) == view.phase \notin {"none", "finished"}

Init ==
  /\ manifest \in Manifests
  /\ round = Nothing /\ opened = 0
  /\ remembered = Nothing /\ held = FALSE
  /\ joined = FALSE /\ line = <<>>
  /\ screen = NewScreen
  /\ asked = "nothing"
  /\ anchored = FALSE
  /\ drops = 0 /\ losses = 0

-----------------------------------------------------------------------------
(* The broadcaster.                                                        *)

\* A room snapshot tells the round's number and phase.
RoomMessage(r)  == [kind |-> "room", game |-> [r EXCEPT !.version = 0], base |-> 0]
StateMessage(r) == [kind |-> "state", game |-> r, base |-> 0]
PatchMessage(r) == [kind |-> "patch", game |-> r, base |-> remembered.version]

\* Mutant: the messages wait for a screen that has left.
SendRegardless(here, messages) ==
  /\ line' = line \o messages
  /\ Len(line') <= MaxLine

\* What is sent to a room the screen is not in goes nowhere.
Send(here, messages) ==
  /\ line' = IF here THEN line \o messages ELSE line
  /\ Len(line') <= MaxLine

\* Whether the screen is due for a state, and the throttle afterwards.
IsDue(phase) == manifest.reliable \/ phase \notin Live \/ ~manifest.throttled \/ ~held

HeldAfter(phase) ==
  IF manifest.reliable THEN held ELSE phase \in Live /\ manifest.throttled

\* Mutant: every state of an unreliable game may be dropped.
VolatileAlways(phase) == ~manifest.reliable

IsVolatile(phase) == ~manifest.reliable /\ phase \in Live

\* A patch is made against the remembered state of the same round and phase.
PatchFits(r) ==
  /\ manifest.patches
  /\ r.phase = "playing"
  /\ remembered.number = r.number
  /\ remembered.phase = r.phase

Remember(r) == remembered' = r

\* Mutant: the state behind a patch is not remembered.
EmitPatchForgetting(r, before, after) ==
  /\ PatchFits(r)
  /\ Send(TRUE, before \o <<PatchMessage(r)>> \o after)
  /\ UNCHANGED <<remembered, anchored, drops>>

EmitPatch(r, before, after) ==
  /\ PatchFits(r)
  /\ Remember(r)
  /\ Send(TRUE, before \o <<PatchMessage(r)>> \o after)
  /\ UNCHANGED <<anchored, drops>>

\* Also the way out when the game declines to make a patch.
EmitState(r, before, after) ==
  /\ Remember(r)
  /\ Send(TRUE, before \o <<StateMessage(r)>> \o after)
  /\ anchored' = TRUE
  /\ UNCHANGED drops

\* The server remembers the state all the same.
DropState(r, before, after) ==
  /\ IsVolatile(r.phase) /\ drops < MaxDrops
  /\ Remember(r)
  /\ Send(TRUE, before \o after)
  /\ anchored' = FALSE
  /\ drops' = drops + 1

\* broadcastGameState among the other messages of a handler.  Without a screen the
\* throttle still runs if there is a phone in the room.
BroadcastGame(here, r, before, after) ==
  IF r = Nothing
  THEN /\ Send(here, before \o after)
       /\ UNCHANGED <<remembered, held, anchored, drops>>
  ELSE /\ \/ held' = HeldAfter(r.phase)
          \/ ~here /\ held' = held
       /\ IF here /\ IsDue(r.phase)
          THEN \/ EmitPatch(r, before, after)
               \/ EmitState(r, before, after)
               \/ DropState(r, before, after)
          ELSE /\ Send(here, before \o after)
               /\ UNCHANGED <<remembered, anchored, drops>>

ClearGameStateCache ==
  /\ remembered' = Nothing
  /\ held' = FALSE
  /\ anchored' = FALSE

\* The interval of the throttle runs out.
IntervalPasses ==
  /\ held
  /\ held' = FALSE
  /\ UNCHANGED <<manifest, round, opened, remembered, joined, line, screen, asked, anchored, drops, losses>>

-----------------------------------------------------------------------------
(* The room on the server.                                                 *)

Rank(phase)     == CHOOSE i \in 1..Len(Order) : Order[i] = phase
Later(phase)    == {Order[i] : i \in (Rank(phase) + 1)..Len(Order)}
NewRound        == [number |-> opened + 1, phase |-> "round_intro", version |-> 0]
Grown(r, phase) == [r EXCEPT !.phase = phase, !.version = @ + 1]

serverOnly == <<manifest, joined, screen, asked, losses>>

\* round:start and the handlers that start a ready room.
StartRound ==
  /\ ~Active(round) /\ opened < MaxRounds
  /\ round' = NewRound /\ opened' = opened + 1
  /\ BroadcastGame(joined, NewRound, <<RoomMessage(NewRound)>>, <<>>)
  /\ UNCHANGED serverOnly

\* The timer's turn that finishes a round and goes straight on to the next one.
RestartRound ==
  /\ round.phase = "result" /\ opened < MaxRounds
  /\ round' = NewRound /\ opened' = opened + 1
  /\ BroadcastGame(joined, NewRound, <<>>, <<RoomMessage(NewRound)>>)
  /\ UNCHANGED serverOnly

\* The timer's turn that changes the phase; one turn may go through several.
TickPhase ==
  /\ Active(round)
  /\ \E phase \in Later(round.phase) :
       LET r == [round EXCEPT !.phase = phase] IN
       /\ round' = r
       /\ BroadcastGame(joined, r, <<>>, <<RoomMessage(r)>>)
  /\ UNCHANGED <<serverOnly, opened>>

\* The timer's turn in which the game moves.
TickMoves ==
  /\ round.phase = "playing" /\ round.version < MaxVersion
  /\ round' = Grown(round, "playing")
  /\ BroadcastGame(joined, round', <<>>, <<>>)
  /\ UNCHANGED <<serverOnly, opened>>

\* canDeferInputBroadcast: the next tick carries the change.
CanDefer(phaseChanged) == manifest.deferred /\ ~phaseChanged

\* game:input, and game:host-action but for the deferral: a phone changes the state,
\* perhaps to the end of play.
GameInput ==
  /\ round.phase = "playing" /\ round.version < MaxVersion
  /\ \E phase \in {"playing", "locked"} :
       LET r == Grown(round, phase)
           phaseChanged == phase # "playing"
           room == IF phaseChanged THEN <<RoomMessage(r)>> ELSE <<>>
       IN
       /\ round' = r
       /\ IF CanDefer(phaseChanged)
          THEN UNCHANGED <<held, remembered, line, anchored, drops>>
          ELSE BroadcastGame(joined, r, <<>>, room)
  /\ UNCHANGED <<serverOnly, opened>>

\* Joining, resuming, leaving, holding the round, another language: everything is
\* sent again.
Rebroadcast ==
  /\ BroadcastGame(joined, round, <<RoomMessage(round)>>, <<>>)
  /\ UNCHANGED <<serverOnly, round, opened>>

\* game:select of a phone with host control; the caches stay.
SelectGame ==
  /\ round # Nothing
  /\ round' = Nothing
  /\ Send(joined, <<RoomMessage(Nothing)>>)
  /\ UNCHANGED <<serverOnly, opened, remembered, held, anchored, drops>>

\* round:abort of a phone with host control.
AbortRound ==
  /\ Active(round)
  /\ round' = Nothing
  /\ ClearGameStateCache
  /\ Send(joined, <<RoomMessage(Nothing)>>)
  /\ UNCHANGED <<serverOnly, opened, drops>>

\* round:abort and game:select of the screen itself.
AnswerAbort ==
  /\ asked = "abort"
  /\ asked' = "nothing"
  /\ round' = Nothing
  /\ ClearGameStateCache
  /\ Send(TRUE, <<RoomMessage(Nothing), [RoomMessage(Nothing) EXCEPT !.kind = "aborted"]>>)
  /\ UNCHANGED <<manifest, opened, joined, screen, drops, losses>>

AnswerSelect ==
  /\ asked = "select"
  /\ asked' = "nothing"
  /\ round' = Nothing
  /\ Send(TRUE, <<RoomMessage(Nothing)>>)
  /\ UNCHANGED <<manifest, opened, remembered, held, joined, screen, anchored, drops, losses>>

\* room:create of a screen that names its room; the acknowledgement goes first.
AttachScreen ==
  /\ ~joined
  /\ joined' = TRUE
  /\ BroadcastGame(TRUE, round,
       <<[RoomMessage(round) EXCEPT !.kind = "ack"], RoomMessage(round)>>, <<>>)
  /\ UNCHANGED <<manifest, round, opened, screen, asked, losses>>

\* The connection ends, or the page is loaded again.
LoseConnection ==
  /\ joined /\ losses < MaxLosses
  /\ joined' = FALSE /\ line' = <<>> /\ asked' = "nothing" /\ anchored' = FALSE
  /\ screen' \in {screen, NewScreen}
  /\ losses' = losses + 1
  /\ UNCHANGED <<server, drops>>

-----------------------------------------------------------------------------
(* The screen's client.                                                    *)

\* applyGamePatch: the merge is the game's, the check is the client's.
ApplyPatch(game, message) ==
  LET next == message.game IN
  IF game # Nothing /\ game.number = next.number /\ game.phase = next.phase
  THEN [game EXCEPT !.version = IF @ = message.base THEN next.version ELSE Mixed]
  ELSE game

GameAfter(game, message) ==
  CASE message.kind = "room"    -> IF message.game = Nothing THEN Nothing ELSE game
    [] message.kind = "state"   -> message.game
    [] message.kind = "patch"   -> ApplyPatch(game, message)
    [] message.kind = "aborted" -> Nothing
    [] OTHER                    -> game

\* showCatalog: the client forgets the round before the server has answered.
ShowCatalog == [screen EXCEPT !.room = Nothing, !.game = Nothing, !.catalog = TRUE]

\* Mutant: the catalog override outlives the start of a round.
ReceivedKeepingCatalog(message) ==
  CASE message.kind = "aborted" -> ShowCatalog
    [] message.kind = "ack"     -> [screen EXCEPT !.known = TRUE, !.room = message.game]
    [] message.kind = "room"    ->
         [screen EXCEPT !.known = TRUE, !.room = message.game, !.game = GameAfter(@, message)]
    [] OTHER                    -> [screen EXCEPT !.game = GameAfter(@, message)]

\* The catalog override is a local view preference; a running round always wins.
Received(message) ==
  CASE message.kind = "aborted" -> ShowCatalog
    [] message.kind = "ack"     -> [screen EXCEPT !.known = TRUE, !.room = message.game]
    [] message.kind = "room"    ->
         [screen EXCEPT !.known = TRUE, !.room = message.game, !.game = GameAfter(@, message),
                        !.catalog = @ /\ ~Active(message.game)]
    [] OTHER                    -> [screen EXCEPT !.game = GameAfter(@, message)]

Deliver ==
  /\ line # <<>>
  /\ screen' = Received(Head(line))
  /\ line' = Tail(line)
  /\ asked' = IF Head(line).kind = "aborted" THEN "select" ELSE asked
  /\ UNCHANGED <<server, joined, anchored, drops, losses>>

\* returnToGameSelection.  One request at a time.
ReturnToGameSelection ==
  /\ joined /\ screen.known /\ asked = "nothing"
  /\ \A i \in 1..Len(line) : line[i].kind # "aborted"
  /\ IF Active(screen.room)
     THEN asked' = "abort" /\ screen' = screen
     ELSE asked' = "select" /\ screen' = ShowCatalog
  /\ UNCHANGED <<server, joined, line, anchored, drops, losses>>

\* resolveHostSurface: who owns the screen.
Surface ==
  IF ~screen.known THEN "boot"
  ELSE IF screen.catalog \/ screen.room.phase = "none" THEN "shell"
  ELSE "game"

-----------------------------------------------------------------------------

ServerStep ==
  \/ StartRound \/ RestartRound \/ TickPhase \/ TickMoves \/ GameInput
  \/ Rebroadcast \/ SelectGame \/ AbortRound \/ AnswerAbort \/ AnswerSelect
  \/ IntervalPasses

ScreenStep == AttachScreen \/ LoseConnection \/ Deliver \/ ReturnToGameSelection

Next == ServerStep \/ ScreenStep

Spec == Init /\ [][Next]_vars

\* A connection delivers, and the server answers, as long as it lasts.
FairSpec == Spec /\ WF_vars(Deliver) /\ WF_vars(AnswerAbort) /\ WF_vars(AnswerSelect)

-----------------------------------------------------------------------------
(* Properties.                                                             *)

TypeOK ==
  /\ manifest \in Manifests
  /\ round \in View /\ remembered \in View /\ round.version # Mixed
  /\ opened \in Nat /\ held \in BOOLEAN /\ joined \in BOOLEAN /\ anchored \in BOOLEAN
  /\ line \in Seq(Message)
  /\ screen \in Screen
  /\ asked \in {"nothing", "abort", "select"}
  /\ ~joined => line = <<>> /\ asked = "nothing" /\ ~anchored
  /\ drops \in Nat /\ losses \in Nat

\* What the screen will show once the first n messages have arrived.
ShownAfter[n \in 0..Len(line)] ==
  IF n = 0 THEN screen.game ELSE GameAfter(ShownAfter[n - 1], line[n])

\* The server's memory of the screen is right: once everything on its way has arrived,
\* the screen shows exactly the state the next patch will be made against, as long as
\* the last full state went out on this connection and was not dropped.
PatchBaseIsShown ==
  anchored /\ round.phase = "playing" /\ PatchFits(round)
    => ShownAfter[Len(line)] = remembered

\* "... so games that support patches can diff against exactly what the host already
\* has" (stateBroadcaster.ts:37).
PatchesFit ==
  \A n \in 1..Len(line) :
    line[n].kind = "patch" => ShownAfter[n - 1] = [line[n].game EXCEPT !.version = line[n].base]

\* Outside the live phases the screen gets to what the server has, whatever was
\* throttled, dropped or wrongly merged before: a result, or the end of an aborted
\* round.
Settled == joined /\ round.phase \notin Live

SettledRoomIsShown == Settled ~> (~Settled \/ screen.game = round)

\* "A round that is running always wins" over the catalog (hostSocketClient.ts:134).
RunningRoundIsShown ==
  (joined /\ Active(round)) ~> (~joined \/ ~Active(round) \/ Surface = "game")
=============================================================================
