---------------------------- MODULE PhoneControls ----------------------------
(***************************************************************************)
(* The stick of a phone, from the thumb to the game: the pointer handlers  *)
(* of VirtualJoystickLayout.tsx, DPadLayout.tsx and TwinStickLayout.tsx,   *)
(* sendInput of controllerSocketClient.ts, which sends most moves as       *)
(* volatile packets, and one connection.                                   *)
(*                                                                         *)
(* A vector is the set of axes it deflects, {} the neutral one.  On the    *)
(* D-pad a finger is the key it lies on.  The game keeps the last vector   *)
(* it was sent.  One mounting of a layout is modelled.                     *)
(***************************************************************************)
EXTENDS Integers, Sequences

CONSTANTS MaxTouches, MaxDrops, MaxOutages, MaxSwitches   \* bounds of the model

Finger  == {"x", "y"}
Vector  == SUBSET Finger
Neutral == {}
Nobody  == "nobody"

VARIABLES
  layout,     \* "joystick", "dpad" or "twin"
  onPage,     \* the layout is on the page
  disabled,   \* model.disabled
  down,       \* fingers on the pad
  pointer,    \* activePointerIdRef or pointerRef
  pressed,    \* the D-pad's active directions
  last,       \* lastVectorRef; of the twin stick, which has none, the vector it sent last
  repeating,  \* holdRepeatRef
  online,     \* the phone is connected
  moves,      \* vectors on their way
  game,       \* the vector the game has
  missed,     \* history: a neutral vector was made or in flight in an outage
  touches, drops, losses, flips

hand == <<layout, onPage, disabled, down, pointer, pressed, last, repeating>>
vars == <<hand, online, moves, game, missed, touches, drops, losses, flips>>

Init ==
  /\ layout \in {"joystick", "dpad", "twin"} /\ onPage = TRUE /\ disabled = FALSE
  /\ down = {} /\ pointer = Nobody /\ pressed = {} /\ last = Neutral /\ repeating = FALSE
  /\ online = TRUE /\ moves = <<>> /\ game = Neutral /\ missed = FALSE
  /\ touches = 0 /\ drops = 0 /\ losses = 0 /\ flips = 0

-----------------------------------------------------------------------------
(* Sending.                                                                *)

\* Mutant: a stop is as volatile as any other move.
VolatileMove(v) == TRUE

\* shouldUseVolatileInput, for moves.
Volatile(v) == v # Neutral

\* sendInput: nothing without a connection; a busy transport drops volatile packets.
SendInput(v) ==
  IF ~online THEN missed' = (missed \/ v = Neutral) /\ UNCHANGED <<moves, drops>>
  ELSE \/ moves' = Append(moves, v) /\ UNCHANGED <<drops, missed>>
       \/ /\ Volatile(v) /\ drops < MaxDrops
          /\ drops' = drops + 1
          /\ UNCHANGED <<moves, missed>>

Silence == UNCHANGED <<moves, drops, missed>>

\* emitMove, and the twin stick that sends every vector.
EmitMove(v) ==
  IF v = last /\ layout # "twin" THEN Silence /\ last' = last ELSE SendInput(v) /\ last' = v

-----------------------------------------------------------------------------
(* Joystick and twin stick.                                                *)

IsStick == layout \in {"joystick", "twin"}

\* Mutant: the vector is sent when it changes and not again.
GrabOnce(f, v) ==
  /\ pointer' = f /\ repeating' = repeating
  /\ EmitMove(v)

\* beginPointer; a second finger takes the stick over.
Grab(f, v) ==
  /\ pointer' = f /\ repeating' = (layout = "joystick")
  /\ EmitMove(v)

\* resetStick.
LetGo ==
  /\ pointer' = Nobody /\ repeating' = FALSE
  /\ IF layout = "joystick" /\ last = Neutral THEN Silence /\ last' = last
     ELSE SendInput(Neutral) /\ last' = Neutral

TouchStick(f, v) ==
  /\ IsStick /\ onPage /\ f \notin down /\ touches < MaxTouches
  /\ touches' = touches + 1
  /\ down' = down \cup {f}
  /\ IF disabled THEN Silence /\ UNCHANGED <<pointer, repeating, last>> ELSE Grab(f, v)
  /\ UNCHANGED <<layout, onPage, disabled, pressed, online, game, losses, flips>>

MoveStick(f, v) ==
  /\ IsStick /\ onPage /\ f \in down /\ touches < MaxTouches
  /\ ~disabled /\ pointer = f
  /\ touches' = touches + 1
  /\ EmitMove(v)
  /\ UNCHANGED <<layout, onPage, disabled, down, pointer, pressed, repeating, online, game, losses,
                 flips>>

\* The finger lifts, or the browser takes its pointer away: endPointer.  The twin stick
\* resets at any pointer it loses.
LiftStick(f) ==
  /\ IsStick /\ f \in down
  /\ down' = down \ {f}
  /\ IF onPage /\ (pointer = f \/ layout = "twin") THEN LetGo
     ELSE Silence /\ UNCHANGED <<pointer, repeating, last>>
  /\ UNCHANGED <<layout, onPage, disabled, pressed, online, game, touches, losses, flips>>

\* The repeat interval, every 150 ms while a direction is held.
HoldRepeat ==
  /\ repeating /\ pointer # Nobody /\ last # Neutral
  /\ last \notin {moves[i] : i \in {Len(moves)} \ {0}}   \* bound: one repeat in flight is enough
  /\ SendInput(last)
  /\ UNCHANGED <<hand, online, game, touches, losses, flips>>

-----------------------------------------------------------------------------
(* D-pad.                                                                  *)

\* setDirection.
SetDirection(f, on) ==
  IF disabled \/ ~onPage THEN Silence /\ UNCHANGED <<pressed, last>>
  ELSE /\ pressed' = IF on THEN pressed \cup {f} ELSE pressed \ {f}
       /\ EmitMove(pressed')

PressKey(f) ==
  /\ layout = "dpad" /\ onPage /\ f \notin down /\ touches < MaxTouches
  /\ touches' = touches + 1
  /\ down' = down \cup {f}
  /\ SetDirection(f, TRUE)
  /\ UNCHANGED <<layout, onPage, disabled, pointer, repeating, online, game, losses, flips>>

ReleaseKey(f) ==
  /\ layout = "dpad" /\ f \in down
  /\ down' = down \ {f}
  /\ SetDirection(f, FALSE)
  /\ UNCHANGED <<layout, onPage, disabled, pointer, repeating, online, game, touches, losses,
                 flips>>

-----------------------------------------------------------------------------
(* What happens around the pad.                                            *)

\* Mutant: the effect forgets the thumb and tells nobody.
ResetQuietly ==
  /\ pointer' = Nobody /\ repeating' = FALSE /\ pressed' = {} /\ last' = Neutral
  /\ Silence

\* The effects of resetKey and disabled.  The joystick and the D-pad do the same on unmounting.
Reset ==
  /\ pointer' = Nobody /\ repeating' = FALSE /\ pressed' = {} /\ last' = Neutral
  /\ IF last = Neutral /\ layout # "twin" THEN Silence ELSE SendInput(Neutral)

\* The model is disabled, enabled again or reset, whatever lies on the pad.
Switch ==
  /\ onPage /\ flips < MaxSwitches
  /\ flips' = flips + 1
  /\ disabled' \in BOOLEAN
  /\ Reset
  /\ UNCHANGED <<layout, onPage, down, online, game, touches, losses>>

\* The twin stick has no cleanup: it is gone and sends nothing.
GoneUnheard ==
  /\ pointer' = Nobody
  /\ Silence
  /\ UNCHANGED <<pressed, last, repeating>>

\* The page shows something else, whatever lies on the pad.
Unmount ==
  /\ onPage
  /\ onPage' = FALSE
  /\ IF layout = "twin" THEN GoneUnheard ELSE Reset
  /\ UNCHANGED <<layout, disabled, down, online, game, touches, losses, flips>>

\* What was in flight is gone with the connection.
Disconnect ==
  /\ online /\ losses < MaxOutages
  /\ losses' = losses + 1
  /\ online' = FALSE
  /\ moves' = <<>>
  /\ missed' = (missed \/ \E i \in 1..Len(moves) : moves[i] = Neutral)
  /\ UNCHANGED <<hand, game, touches, drops, flips>>

Reconnect ==
  /\ ~online
  /\ online' = TRUE
  /\ UNCHANGED <<hand, moves, game, missed, touches, drops, losses, flips>>

\* game:input reaches the game.
Arrive ==
  /\ moves # <<>>
  /\ moves' = Tail(moves)
  /\ game' = Head(moves)
  /\ missed' = (missed /\ Head(moves) # Neutral)
  /\ UNCHANGED <<hand, online, touches, drops, losses, flips>>

-----------------------------------------------------------------------------
Thumb == \E f \in Finger :
  \/ \E v \in Vector : TouchStick(f, v) \/ MoveStick(f, v)
  \/ LiftStick(f)
  \/ PressKey(f)
  \/ ReleaseKey(f)

Next == Thumb \/ HoldRepeat \/ Switch \/ Unmount \/ Disconnect \/ Reconnect \/ Arrive

Spec == Init /\ [][Next]_vars

TypeOK ==
  /\ layout \in {"joystick", "dpad", "twin"}
  /\ {onPage, disabled, repeating, online, missed} \subseteq BOOLEAN
  /\ down \subseteq Finger /\ pointer \in Finger \cup {Nobody} /\ pressed \subseteq Finger
  /\ last \in Vector /\ game \in Vector /\ moves \in Seq(Vector)

\* A twin stick went from the page while it was deflected.
LeftRunning == layout = "twin" /\ ~onPage /\ last # Neutral

\* "Releasing the stick must arrive" (controllerSocketClient.ts 73-76): with nobody at the pad
\* the game comes to rest.  The code keeps that but for two cases, which are exempt here: the
\* stop falls into an outage (sendInput drops it), or a twin stick is taken from the page under
\* the thumb (TwinStickLayout.tsx 39-47 has no cleanup for it).
ReleaseArrives ==
  (down = {} /\ ~missed /\ ~LeftRunning)
    ~> (game = Neutral \/ down # {} \/ missed \/ LeftRunning)

\* A direction held on the joystick arrives although its packets may be dropped
\* (VirtualJoystickLayout.tsx 18-22).
HeldVectorArrives ==
  \A v \in Vector \ {Neutral} :
    (layout = "joystick" /\ online /\ pointer # Nobody /\ last = v)
      ~> (game = v \/ last # v \/ ~online \/ pointer = Nobody)
=============================================================================
