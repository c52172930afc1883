------------------------------ MODULE SteeringPad ------------------------------
(***************************************************************************)
(* The controls of a racing game on a phone (RacingControlsLayout.tsx): a  *)
(* stick and buttons that change one record of controls, kept in a ref for *)
(* the handlers, in React's state for the page and, as it was last sent,   *)
(* in the game.                                                            *)
(*                                                                         *)
(* React renders what moves of a pointer change in a task of its own and   *)
(* runs effects after that, so that other events may come in between; what *)
(* presses and releases change is rendered, with its effects, before the   *)
(* next event.  The controls are the set of what is deflected or pressed.  *)
(***************************************************************************)
EXTENDS Integers

CONSTANTS MaxGestures, MaxSwitches   \* bounds of the model

Control == {"drive", "fire"}
Idle == {}

VARIABLES
  fixed,        \* model.disabled, as committed
  fitted,       \* the layout is on the page
  fingers,      \* what a finger lies on: the stick ("drive"), a button ("fire")
  tracked,      \* pointerIdRef of stick and button
  controlsRef,  \* controlsRef.current
  controls,     \* the state as the last setControls left it
  committed,    \* the state of the last commit
  queued,       \* a render of controls is queued
  writes,       \* the commit's effect that copies controls into the ref is outstanding
  resets,       \* the effect of resetKey and disabled is outstanding
  sent,         \* what onControlsChange was last given
  lagged,       \* history: since the last reset a handler read a ref an effect had set back
  strokesMade, switchesMade

react == <<controlsRef, controls, committed, queued, writes, sent, lagged>>
vars  == <<fixed, fitted, fingers, tracked, react, resets, strokesMade, switchesMade>>

Init ==
  /\ fixed = FALSE /\ fitted = TRUE /\ fingers = {} /\ tracked = {}
  /\ controlsRef = Idle /\ controls = Idle /\ committed = Idle /\ sent = Idle
  /\ queued = FALSE /\ writes = FALSE /\ resets = FALSE /\ lagged = FALSE
  /\ strokesMade = 0 /\ switchesMade = 0

-----------------------------------------------------------------------------
(* The handlers.  A press or release is rendered at once.                  *)

\* What an outstanding effect leaves in the ref.
Flushed == IF writes THEN committed ELSE controlsRef

Emit(next) == controlsRef' = next /\ controls' = next /\ sent' = next

\* emitControls of a pointermove.
EmitLater(next) ==
  /\ lagged' = (lagged \/ controlsRef # sent)
  /\ IF next = controlsRef THEN UNCHANGED <<controlsRef, controls, sent, queued>>
     ELSE Emit(next) /\ queued' = TRUE
  /\ UNCHANGED <<committed, writes>>

\* emitControls of a press or a release; the stick's own state is rendered in any case, which
\* runs outstanding effects.
EmitNow(next, renders) ==
  /\ lagged' = (lagged \/ controlsRef # sent)
  /\ IF next # controlsRef
     THEN Emit(next) /\ committed' = next /\ queued' = FALSE /\ writes' = FALSE
     ELSE /\ controlsRef' = (IF renders THEN Flushed ELSE controlsRef)
          /\ writes' = (writes /\ ~renders)
          /\ UNCHANGED <<controls, sent, committed, queued>>

With(on, control) == IF on THEN controlsRef \cup {control} ELSE controlsRef \ {control}

Stroke ==
  /\ fitted /\ strokesMade < MaxGestures /\ ~resets
  /\ strokesMade' = strokesMade + 1
  /\ UNCHANGED <<fixed, fitted, resets, switchesMade>>

\* beginPointer; the finger may fall into the dead zone.
TouchStick(deflected) ==
  /\ Stroke /\ "drive" \notin fingers /\ fingers' = fingers \cup {"drive"}
  /\ IF fixed THEN UNCHANGED <<tracked, react>>
     ELSE tracked' = tracked \cup {"drive"} /\ EmitNow(With(deflected, "drive"), TRUE)

\* movePointer.
MoveStick(deflected) ==
  /\ Stroke /\ ~fixed /\ "drive" \in tracked \cap fingers
  /\ EmitLater(With(deflected, "drive"))
  /\ UNCHANGED <<fingers, tracked>>

\* press.
PressButton ==
  /\ Stroke /\ "fire" \notin fingers /\ fingers' = fingers \cup {"fire"}
  /\ IF fixed THEN UNCHANGED <<tracked, react>>
     ELSE tracked' = tracked \cup {"fire"} /\ EmitNow(With(TRUE, "fire"), FALSE)

\* Mutant: the stick is let go and only shown so.
LetGoSilently(control) == tracked' = tracked \ {control} /\ UNCHANGED react

\* endPointer with resetStick, and release.
LetGo(control) ==
  /\ tracked' = tracked \ {control}
  /\ EmitNow(With(FALSE, control), control = "drive")

\* A finger is lifted.  A disabled button may hear nothing of it.
Lift(control) ==
  /\ control \in fingers /\ ~resets
  /\ fingers' = fingers \ {control}
  /\ \/ fitted /\ control \in tracked /\ LetGo(control)
     \/ (~fitted \/ control \notin tracked \/ (fixed /\ control = "fire"))
        /\ UNCHANGED <<tracked, react>>
  /\ UNCHANGED <<fixed, fitted, resets, strokesMade, switchesMade>>

-----------------------------------------------------------------------------
(* React.                                                                  *)

\* A queued render, after the effects that are outstanding.
Commit ==
  /\ fitted /\ queued /\ ~resets
  /\ controlsRef' = Flushed /\ committed' = controls
  /\ queued' = FALSE /\ writes' = TRUE
  /\ UNCHANGED <<fixed, fitted, fingers, tracked, controls, sent, lagged, resets, strokesMade,
                 switchesMade>>

\* The effect of [controls].
WriteEffect ==
  /\ fitted /\ writes
  /\ controlsRef' = committed /\ writes' = FALSE
  /\ UNCHANGED <<fixed, fitted, fingers, tracked, controls, committed, queued, sent, lagged,
                 resets, strokesMade, switchesMade>>

\* The model comes with another resetKey or disabled.
Switch(disabled) ==
  /\ fitted /\ ~resets /\ switchesMade < MaxSwitches
  /\ switchesMade' = switchesMade + 1
  /\ fixed' = disabled /\ resets' = TRUE
  /\ controlsRef' = Flushed /\ writes' = FALSE
  /\ UNCHANGED <<fitted, fingers, tracked, controls, committed, queued, sent, lagged, strokesMade>>

\* Mutant: the effect forgets what the game was told.
ResetEffectQuietly ==
  /\ fitted /\ resets /\ resets' = FALSE
  /\ controlsRef' = Idle /\ controls' = Idle /\ queued' = TRUE /\ lagged' = FALSE
  /\ UNCHANGED <<fixed, fitted, fingers, tracked, committed, writes, sent, strokesMade,
                 switchesMade>>

\* The effect of [model.resetKey, model.disabled].
ResetEffect ==
  /\ fitted /\ resets /\ resets' = FALSE
  /\ Emit(Idle) /\ queued' = TRUE /\ lagged' = FALSE
  /\ UNCHANGED <<fixed, fitted, fingers, tracked, committed, writes, strokesMade, switchesMade>>

\* The cleanup of unmounting.
Unfit ==
  /\ fitted /\ ~resets
  /\ fitted' = FALSE /\ sent' = Idle /\ tracked' = {}
  /\ queued' = FALSE /\ writes' = FALSE
  /\ UNCHANGED <<fixed, fingers, controlsRef, controls, committed, lagged, resets, strokesMade,
                 switchesMade>>

Next ==
  \/ \E deflected \in BOOLEAN : TouchStick(deflected) \/ MoveStick(deflected)
  \/ PressButton
  \/ \E control \in Control : Lift(control)
  \/ Commit \/ WriteEffect \/ ResetEffect \/ Unfit
  \/ \E disabled \in BOOLEAN : Switch(disabled)

Spec == Init /\ [][Next]_vars

-----------------------------------------------------------------------------
TypeOK ==
  /\ fixed \in BOOLEAN /\ fitted \in BOOLEAN /\ queued \in BOOLEAN /\ writes \in BOOLEAN
  /\ resets \in BOOLEAN /\ lagged \in BOOLEAN
  /\ \A set \in {fingers, tracked, controlsRef, controls, committed, sent} : set \subseteq Control
  /\ strokesMade \in 0..MaxGestures /\ switchesMade \in 0..MaxSwitches

\* A pad that is disabled or gone drives and fires nothing, and once React has rendered and run
\* its effects, ref, state and game agree, whatever came between; the game then drives and fires
\* only what a finger still holds ("Releasing the stick must arrive", controllerSocketClient.ts).
\* Of that last part one case is exempt, until the next reset: a handler read the ref after an
\* effect had set it back to an older commit.
CarComesToRest ==
  /\ ~resets /\ (fixed \/ ~fitted) => sent = Idle
  /\ ~queued /\ ~writes /\ ~resets =>
       /\ fitted => controlsRef = sent /\ committed = sent
       /\ ~lagged => sent \subseteq fingers
=============================================================================
